-------------------------------- MODULE Boot --------------------------------
(***************************************************************************)
(* One server process from its configuration sources to its exit: load and *)
(* resolve, build the service for the role, build the router planes, bind  *)
(* the listeners, host the reaper, serve, drain on a signal, stop.  The    *)
(* process is the standalone binary, the binary under a Lambda runtime, or *)
(* an embedding host (the FFI bindings); `config check` stops after the    *)
(* resolver.                                                               *)
(***************************************************************************)
EXTENDS Config

CONSTANTS
    Configurations,  \* configuration files: partial trees over the defaults
    Alternatives,    \* section -> leaf -> other values of that leaf
    Call,            \* requests a client may send
    DrainDeadline    \* ticks between the signal and the hard stop

(* What a source can hold.  A file has every section, be it empty; the     *)
(* methods of the gate are a list wherever they are written (one text is   *)
(* read as a list of one).                                                 *)
ListsMethods(section) == "auth_methods" \in DOMAIN section => section.auth_methods \in Seq(STRING)

ASSUME BootAssumption ==
    /\ DrainDeadline \in Nat \ {0}
    /\ \A d \in Configurations : DOMAIN d = DOMAIN Defaults /\ ListsMethods(d.internal_api)
    /\ DOMAIN Alternatives \subseteq DOMAIN Defaults
    /\ \A sec \in {"internal_api"} \cap DOMAIN Alternatives :
       \A k \in {"auth_methods"} \cap DOMAIN Alternatives[sec] :
          Alternatives[sec][k] \subseteq Seq(STRING)

VARIABLES
    entry,      \* "main", "ffi" or "check": how the process was started
    lambda,     \* AWS_LAMBDA_RUNTIME_API is in the environment
    sources,    \* the file layer and the environment layer, until they are merged
    stage,      \* where the process is
    conf,       \* the resolved configuration, a record once there is one
    service,    \* which adapter fills each port of AppService
    planes,     \* plane -> [routes, gate, limiter]
    bound,      \* addresses this process listens on
    reaper,     \* "none", "waiting", "sweeping", "stopped", "aborted"
    signal,     \* SIGTERM or ctrl-c was received
    clock,      \* ticks since the signal
    inflight    \* requests being served

bootVars == <<entry, lambda, sources, stage, conf, service, planes, bound, reaper, signal, clock,
              inflight>>

NoTree == << >>
Over == {"refused", "panicked", "checked", "stopped", "address_in_use"}

Leaf(sec, k, v) == [s \in {sec} |-> [l \in {k} |-> v]]

(* A file is a deployment with one leaf changed; the environment names one *)
(* leaf, which may be the same one.                                        *)
BootInit ==
    /\ entry \in {"main", "ffi", "check"}
    /\ lambda \in BOOLEAN
    /\ \E d \in Configurations, s1, s2 \in DOMAIN Alternatives :
       \E k1 \in DOMAIN Alternatives[s1], k2 \in DOMAIN Alternatives[s2] :
       \E v1 \in Alternatives[s1][k1], v2 \in Alternatives[s2][k2] :
          sources = [file |-> [d EXCEPT ![s1] = overlaid([l \in {k1} |-> v1], d[s1])],
                     env  |-> Leaf(s2, k2, v2)]
    /\ stage = "start"
    /\ conf = NoTree /\ service = NoTree /\ planes = NoTree
    /\ bound = {} /\ reaper = "none" /\ signal = FALSE /\ clock = 0 /\ inflight = {}

-----------------------------------------------------------------------------
(* Loading.                                                                *)

(* resolve_builder: the layers are merged, every placeholder is expanded,  *)
(* and what is left is merged onto the committed defaults.                 *)
merged(src) == merge_raw_defaults(src.file, src.env)
resolve_builder(src) == merge_raw_defaults(Defaults, resolve_placeholders(merged(src)))

(* An empty environment layer: `config check <path>` reads the file alone  *)
(* and expands nothing.                                                    *)
resolve_config_toml(src) == merge_raw_defaults(Defaults, src.file)

LoadAccepts(src) == PlaceholdersResolve(merged(src)) /\ Resolves(resolve_builder(src))

Refuse(s) ==
    /\ stage' = s
    /\ sources' = NoTree /\ conf' = NoTree /\ service' = NoTree /\ planes' = NoTree
    /\ bound' = {} /\ inflight' = {} /\ clock' = 0 /\ signal' = FALSE
    /\ reaper' = IF reaper = "none" THEN "none" ELSE "aborted"
    /\ UNCHANGED <<entry, lambda>>

load_config ==
    /\ stage = "start" /\ entry \in {"main", "ffi"}
    /\ IF LoadAccepts(sources)
       THEN /\ conf' = Resolved(resolve_builder(sources))
            /\ sources' = NoTree
            /\ stage' = "loaded"
            /\ UNCHANGED <<entry, lambda, service, planes, bound, reaper, signal, clock, inflight>>
       ELSE Refuse("refused")

(* The subcommand: the same resolver over the same layers, or over the     *)
(* file alone, and out.                                                    *)
run_config_command ==
    /\ stage = "start" /\ entry = "check"
    /\ \/ Refuse(IF LoadAccepts(sources) THEN "checked" ELSE "refused")
       \/ Refuse(IF Resolves(resolve_config_toml(sources)) THEN "checked" ELSE "refused")

-----------------------------------------------------------------------------
(* Building.                                                               *)

SectionOf(c, adapter) ==
    CASE adapter = "dynamodb" -> c.repository.dynamodb
      [] adapter = "postgres" -> c.repository.postgres
      [] adapter = "sqlite"   -> c.repository.sqlite
      [] adapter = "valkey"   -> c.session_repository.valkey
      [] adapter = "lmdb"     -> c.session_repository.lmdb
      [] OTHER                -> Absent

(* A database the process is pointed at: whether it answers, what becomes  *)
(* of the migrations' DDL, and how far its schema has come.  A schema that *)
(* predates rotation lacks the retired tokens and the single-use records.  *)
Identities == {"users", "sessions", "identity index", "users.version"}
MIGRATIONS == Identities \cup {"session families", "retired tokens", "single use"}
Database == [reachable : BOOLEAN, ddl : {"runs", "denied", "fails"},
             schema : {{}, Identities, MIGRATIONS}]

migration_invariants_hold(db) == Identities \subseteq db.schema

(* A denied migration is forgiven if the probe finds what it looks for.    *)
create_pool_postgres(db, run_migrations) ==
    /\ db.reachable
    /\ run_migrations =>
          db.ddl = "runs" \/ (db.ddl = "denied" /\ migration_invariants_hold(db))

create_pool_sqlite(db) == db.reachable /\ db.ddl = "runs"
open_lmdb(db) == db.reachable /\ db.ddl = "runs"
open_valkey(db) == db.reachable

(* The DynamoDB client connects at its first call, not at the boot.        *)
StoreOpens(c, adapter, db) ==
    CASE adapter = "postgres" ->
           create_pool_postgres(db, c.repository.run_migrations # Some(FALSE))
      [] adapter = "sqlite"   -> create_pool_sqlite(db)
      [] adapter = "lmdb"     -> open_lmdb(db)
      [] adapter = "valkey"   -> open_valkey(db)
      [] OTHER                -> TRUE

UserAdapters == {"dynamodb", "postgres", "sqlite"}
build_user_repository(c) ==
    c.repository.adapter \in UserAdapters /\ SectionOf(c, c.repository.adapter) # Absent

(* Sessions live in the user store unless a session store is named.        *)
SessionAdapter(c) ==
    IF c.session_repository.adapter = Absent THEN c.repository.adapter
                                             ELSE c.session_repository.adapter[1]
build_session_repository(c) ==
    /\ SessionAdapter(c) \in UserAdapters \cup {"valkey", "lmdb"}
    /\ SectionOf(c, SessionAdapter(c)) # Absent

build_key_manager(c) ==
    \/ c.key_manager.adapter = "local" /\ c.key_manager.local # Absent
    \/ c.key_manager.adapter = "kms" /\ c.key_manager.kms # Absent

build_audit_log(c) == c.audit.adapter = "sqs" => c.audit.sqs_queue # Absent

build_user_sync(c) ==
    c.user_sync.enabled =>
        \/ c.user_sync.adapter = Absent
        \/ c.user_sync.adapter = Some("webhook") /\ c.user_sync.webhook_url # Absent

(* The limiter the budgets are spent at; a disabled one never denies.      *)
build_rate_limiter(c) ==
    IF ~c.rate_limit.enabled \/ c.rate_limit.store = "none" THEN "noop" ELSE "fixed_window"

MAX_EMAIL_VERIFIED_CLAIM_LEN == 64
lift_email_verification(pr) ==
    /\ ~(pr.email_verified_claim # Absent /\ pr.trust_email_verified # Absent)
    /\ \A len \in Range1(pr.email_verified_claim) : len \in 1..MAX_EMAIL_VERIFIED_CLAIM_LEN

MAX_DECLARED_ORIGINS == 16
provider_config_to_oidc(pr) ==
    /\ pr.issuer # Absent /\ pr.client_id # Absent
    /\ Len(pr.endpoint_origins) <= MAX_DECLARED_ORIGINS
    /\ \A i \in DOMAIN pr.endpoint_origins : HttpsUrl(pr.endpoint_origins[i])
    /\ lift_email_verification(pr)

build_single_provider(pr) == pr.adapter = "oidc" => provider_config_to_oidc(pr)

NeedsKeys(c) == ~(c.server.role = "admin" /\ ~Uses(c, "operator_token"))

ServiceBuilds(c) ==
    /\ build_user_repository(c) /\ build_session_repository(c)
    /\ NeedsKeys(c) => build_key_manager(c)
    /\ build_audit_log(c)
    /\ c.server.role # "exchange" => build_user_sync(c)
    /\ c.server.role # "admin" => build_single_provider(c.provider)

Service(c) ==
    [sessions |-> SessionAdapter(c),
     keys     |-> IF NeedsKeys(c) THEN c.key_manager.adapter ELSE "noop",
     sync     |-> IF /\ c.server.role # "exchange" /\ c.user_sync.enabled
                     /\ c.user_sync.adapter # Absent
                  THEN "webhook" ELSE "noop",
     exchange_limiter |-> build_rate_limiter(c),
     admin_limiter    |-> IF internal_api_served(c) THEN "lockout" ELSE "noop"]

(* A store that does not open, a key file that cannot be read or a         *)
(* provider whose discovery fails refuses the boot as a missing section    *)
(* does.                                                                   *)
build_service ==
    LET Opens(adapter) == {StoreOpens(conf, adapter, db) : db \in Database}
    IN  /\ stage = "loaded"
        /\ \E users_open \in Opens(conf.repository.adapter),
              sessions_open \in Opens(SessionAdapter(conf)), others_open \in BOOLEAN :
              IF ServiceBuilds(conf) /\ users_open /\ sessions_open /\ others_open
              THEN /\ service' = Service(conf)
                   /\ stage' = IF entry = "ffi" THEN "hosting" ELSE "built"
                   /\ UNCHANGED <<entry, lambda, sources, conf, planes, bound, reaper, signal,
                                  clock, inflight>>
              ELSE Refuse("refused")

-----------------------------------------------------------------------------
(* The router planes.                                                      *)

OperatorMechanisms == {"shared_secret", "operator_token", "mtls"}
GateBuilds(c) ==
    \A i \in DOMAIN c.internal_api.auth_methods :
        LET m == c.internal_api.auth_methods[i]
        IN  /\ m \in OperatorMechanisms
            /\ m = "shared_secret" => c.internal_api.shared_secret # "absent"
            /\ m = "operator_token" => build_key_manager(c)

build_operator_auth_gate(c) ==
    {c.internal_api.auth_methods[i] : i \in DOMAIN c.internal_api.auth_methods}

REQUEST_TIMEOUT_MAX_SECS == 3600
request_timeout_duration(c) ==
    parse_duration_secs(c.server.request_timeout) \in 1..REQUEST_TIMEOUT_MAX_SECS

exchange_routes(c) ==
    {"/health", "/keys", "/discovery", "/token", "/revoke"}
        \cup (IF c.grants.id_token THEN {"/nonce"} ELSE {})

build_public_router(c) ==
    [routes |-> exchange_routes(c), gate |-> {}, limiter |-> build_rate_limiter(c)]

build_admin_router(c) ==
    [routes  |-> {"/health"} \cup (IF c.internal_api.enabled THEN {"/internal"} ELSE {}),
     gate    |-> IF internal_api_served(c) THEN build_operator_auth_gate(c) ELSE {},
     limiter |-> build_rate_limiter(c)]

PlanesOf(c) ==
    [plane \in (IF c.server.role \in {"exchange", "all"} THEN {"public"} ELSE {})
               \cup (IF c.server.role \in {"admin", "all"} THEN {"admin"} ELSE {}) |->
        IF plane = "public" THEN build_public_router(c) ELSE build_admin_router(c)]

(* A runtime with one entry serves the public plane when there is one.     *)
single_plane(ps) ==
    IF "public" \in DOMAIN ps THEN [plane \in {"public"} |-> ps[plane]] ELSE ps

SinglePlane == entry = "ffi" \/ lambda

build_routers ==
    /\ stage = "built"
    /\ IF internal_api_served(conf) /\ ~GateBuilds(conf) THEN Refuse("refused")
       ELSE IF ~request_timeout_duration(conf) THEN Refuse("panicked")
       ELSE /\ planes' = IF SinglePlane THEN single_plane(PlanesOf(conf)) ELSE PlanesOf(conf)
            /\ stage' = IF SinglePlane THEN "serving" ELSE "routed"
            /\ UNCHANGED <<entry, lambda, sources, conf, service, bound, reaper, signal, clock,
                           inflight>>

Address(c, plane) ==
    IF plane = "public" THEN <<c.server.host, c.server.port>>
                        ELSE <<c.internal_api.host, c.internal_api.port>>

(* What the operating system refuses: two literal addresses of one port    *)
(* that are equal or of which one is the wildcard.                         *)
Overlap(a, b) ==
    /\ a[2] = b[2]
    /\ a[1] = b[1] \/ a[1] \in WildcardHosts \/ b[1] \in WildcardHosts

(* Every listener is bound before any of them serves; another process may  *)
(* hold the port.                                                          *)
bind_listeners ==
    /\ stage = "routed"
    /\ \/ /\ LET addresses == {Address(conf, p) : p \in DOMAIN planes}
             IN  IF \/ Cardinality(addresses) < Cardinality(DOMAIN planes)
                    \/ \E a, b \in addresses : a # b /\ Overlap(a, b)
                 THEN /\ stage' = "address_in_use"
                      /\ UNCHANGED <<entry, lambda, sources, conf, service, planes, bound,
                                     reaper, signal, clock, inflight>>
                 ELSE /\ bound' = addresses
                      /\ stage' = "hosting"
                      /\ UNCHANGED <<entry, lambda, sources, conf, service, planes, reaper,
                                     signal, clock, inflight>>
       \/ Refuse("refused")

(* internal_auth.rs counts failures per socket peer, which only a listener *)
(* this process has bound hands on: a runtime with one entry has none.     *)
lockout_is_active(plane) ==
    service.admin_limiter = "lockout" /\ Address(conf, plane) \in bound

REAPER_INTERVAL_MAX_SECS == 30 * 86400
cleanup_interval_duration(c) ==
    parse_duration_secs(c.session_repository.cleanup_interval) \in 1..REAPER_INTERVAL_MAX_SECS

(* A runtime that freezes between invocations hosts no reaper.  The        *)
(* embedding host spawns it before it builds its router.                   *)
hosts_reaper(c) == ~lambda

spawn_session_reaper ==
    /\ stage = "hosting"
    /\ IF hosts_reaper(conf) /\ ~cleanup_interval_duration(conf) THEN Refuse("panicked")
       ELSE /\ reaper' = IF hosts_reaper(conf) THEN "waiting" ELSE "none"
            /\ stage' = IF entry = "ffi" THEN "built" ELSE "serving"
            /\ UNCHANGED <<entry, lambda, sources, conf, service, planes, bound, signal, clock,
                           inflight>>

-----------------------------------------------------------------------------
(* Serving.                                                                *)

HasSignal == entry = "main" /\ ~lambda

Stop ==
    /\ stage' = "stopped"
    /\ reaper' = IF reaper = "none" THEN "none" ELSE "aborted"
    /\ bound' = {} /\ inflight' = {}
    /\ UNCHANGED <<entry, lambda, sources, conf, service, planes, signal, clock>>

accept(r) ==
    /\ stage = "serving" /\ ~signal /\ r \notin inflight
    /\ inflight' = inflight \cup {r}
    /\ UNCHANGED <<entry, lambda, sources, stage, conf, service, planes, bound, reaper, signal,
                   clock>>

respond(r) ==
    /\ stage = "serving" /\ r \in inflight
    /\ inflight' = inflight \ {r}
    /\ UNCHANGED <<entry, lambda, sources, stage, conf, service, planes, bound, reaper, signal,
                   clock>>

shutdown_signal ==
    /\ stage = "serving" /\ HasSignal /\ ~signal
    /\ signal' = TRUE
    /\ UNCHANGED <<entry, lambda, sources, stage, conf, service, planes, bound, reaper, clock,
                   inflight>>

(* Time counts once the signal has fired: the watchdog sleeps from there.  *)
DrainTick ==
    /\ stage = "serving" /\ signal /\ clock < DrainDeadline
    /\ clock' = clock + 1
    /\ UNCHANGED <<entry, lambda, sources, stage, conf, service, planes, bound, reaper, signal,
                   inflight>>

(* (Mistake: the watchdog is never woken.)                                 *)
WatchdogAsleep == signal /\ inflight = {}

(* The two arms of the race: every listener has drained, or the deadline   *)
(* has passed.                                                             *)
DrainEnds == signal /\ (inflight = {} \/ clock = DrainDeadline)

run_with_drain_deadline ==
    /\ stage = "serving" /\ DrainEnds
    /\ Stop

(* An embedding host drops its instance when no call is in progress.       *)
drop_host ==
    /\ stage = "serving" /\ entry = "ffi" /\ inflight = {}
    /\ Stop

-----------------------------------------------------------------------------
(* The reaper: a tick starts a sweep, a sweep ends well or with an error   *)
(* that is logged, and the loop looks at the signal between sweeps only.   *)

ReaperStep(r) ==
    /\ reaper' = r
    /\ UNCHANGED <<entry, lambda, sources, stage, conf, service, planes, bound, signal, clock,
                   inflight>>

reaper_loop ==
    /\ stage = "serving" /\ reaper = "waiting"
    /\ \/ ReaperStep("sweeping")
       \/ signal /\ ReaperStep("stopped")

reap_once ==
    /\ stage = "serving" /\ reaper = "sweeping"
    /\ ReaperStep("waiting")

(* A process that has ended does nothing more.                             *)
Ended == stage \in Over /\ UNCHANGED bootVars

BootNext ==
    \/ load_config \/ run_config_command
    \/ build_service \/ build_routers \/ bind_listeners \/ spawn_session_reaper
    \/ \E r \in Call : accept(r) \/ respond(r)
    \/ shutdown_signal \/ DrainTick \/ run_with_drain_deadline \/ drop_host
    \/ reaper_loop \/ reap_once
    \/ Ended

(* Time passes and a woken watchdog is polled; nothing is assumed of the   *)
(* requests or of the reaper's sweeps.                                     *)
BootSpec ==
    /\ BootInit /\ [][BootNext]_bootVars
    /\ WF_bootVars(DrainTick) /\ WF_bootVars(run_with_drain_deadline)

-----------------------------------------------------------------------------
(* Properties.                                                             *)

(* bootstrap.rs build_operator_auth_gate and single_plane with config.rs   *)
(* validate: wherever /internal is mounted it is on a plane without the    *)
(* exchange routes and behind a gate; the gate's shared secret is long     *)
(* enough, its operator tokens are verified by a real key manager and      *)
(* cannot be the access tokens this service mints for its users.  Failures *)
(* count towards a lockout on the binary's own listener, and nowhere else: *)
(* under Lambda and behind the FFI the gate has no lockout.                *)
InternalApiIsGuarded ==
    stage = "serving" =>
        \A p \in DOMAIN planes : "/internal" \in planes[p].routes =>
            LET gate == planes[p].gate
            IN  /\ "/token" \notin planes[p].routes
                /\ gate # {} /\ gate \subseteq OperatorMechanisms
                /\ "shared_secret" \in gate =>
                      SecretBytes[conf.internal_api.shared_secret] >= MIN_SHARED_SECRET_BYTES
                /\ "operator_token" \in gate =>
                      /\ service.keys \in {"local", "kms"}
                      /\ conf.internal_api.token_audience # conf.token.audience
                /\ lockout_is_active(p) <=> entry = "main" /\ ~lambda

Rewritten == TextLeaves \cup {<<"server", "role">>, <<"server", "base_path">>}
Durations(c) ==
    {c.token.access_token_ttl, c.token.refresh_token_ttl, c.token.refresh_reuse_retention,
     c.grants.nonce_ttl, c.internal_api.auth_lockout, c.session_repository.cleanup_interval}

(* bootstrap.rs merge_raw_defaults and resolve_placeholders, service/mod.rs *)
(* parse_duration_secs: the server runs with what its operator wrote.  A    *)
(* leaf that was written is the leaf that is live, FALSE and zero included, *)
(* and the environment outranks the file (the leaves the resolver rewrites  *)
(* are left out); no placeholder of an unset or empty variable gets in; no  *)
(* accepted duration has wrapped into a shorter one.                        *)
TopmostWins ==
    [][(conf = NoTree /\ conf' # NoTree) =>
          /\ \A sec \in DOMAIN sources.env : \A k \in DOMAIN sources.env[sec] :
                <<sec, k>> \in Rewritten \/ conf'[sec][k] = sources.env[sec][k]
          /\ \A sec \in DOMAIN sources.file : \A k \in DOMAIN sources.file[sec] :
                \/ <<sec, k>> \in Rewritten
                \/ sec \in DOMAIN sources.env /\ k \in DOMAIN sources.env[sec]
                \/ conf'[sec][k] = sources.file[sec][k]
          /\ \A leaf \in TextLeaves : conf'[leaf[1]][leaf[2]] \notin {"${UNSET}", "${EMPTY}"}
          /\ \A dur \in Durations(conf') :
                parse_duration_secs(dur) = dur.n * SecondsPer[dur.unit]]_bootVars

(* shutdown.rs run_with_drain_deadline, main.rs and ffi/lib.rs: once the   *)
(* signal has fired the process ends, even if a request never finishes and *)
(* a sweep hangs; and a process that ended, at whatever step of its boot,  *)
(* leaves no sweep running and no socket bound.                            *)
SignalStops ==
    /\ signal ~> (stage = "stopped")
    /\ [](stage \in Over => reaper \in {"none", "aborted"} /\ bound = {})

=============================================================================
