------------------------------- MODULE Config -------------------------------
(***************************************************************************)
(* The configuration resolver: the layers a deployment is assembled from   *)
(* (committed defaults, file, environment), the expansion of placeholders, *)
(* and the narrowing of the raw values to the closed domains the server    *)
(* runs on.                                                                *)
(*                                                                         *)
(* A configuration is a record of sections, a section a record of leaves.  *)
(* An optional value is a sequence of at most one element; a duration a    *)
(* number and its unit; a URL its scheme and host; a path a sequence of    *)
(* slashes and segment names.  Free text is a member of a small set, where *)
(* "" stands for every blank string.                                       *)
(***************************************************************************)
EXTENDS Integers, Sequences, FiniteSets, TLC

CONSTANTS
    U64Max,        \* largest number of seconds a duration may have (scaled)
    SetVars,       \* environment variables with a value: name -> value
    EmptyVars      \* environment variables set to the empty string

(* UNSET stands for the variables that are not set, EMPTY for the empty    *)
(* ones; no value is itself the text of a placeholder for one of them.     *)
ASSUME ConfigAssumption ==
    /\ U64Max \in Nat
    /\ "UNSET" \notin DOMAIN SetVars
    /\ "EMPTY" \in DOMAIN SetVars => "EMPTY" \in EmptyVars
    /\ \A v \in DOMAIN SetVars : SetVars[v] \notin {"${UNSET}", "${EMPTY}"}

Absent == << >>
Some(x) == << x >>
Range1(opt) == {opt[i] : i \in DOMAIN opt}

-----------------------------------------------------------------------------
(* Scalars of the closed domains.                                          *)

NonEmptyString(s) == s # ""
HttpsUrl(u) == u.https /\ u.host # ""
AsciiDomainPattern(p) == p.ascii /\ p.dots > 0 /\ ~p.slash

Dur(n, unit) == [n |-> n, unit |-> unit]
Invalid == -1
SecondsPer == [s |-> 1, m |-> 60, h |-> 3600, d |-> 86400]

(* The multiplication is a checked one: a product past the width is an     *)
(* error, never a wrapped value.  A number that does not parse is negative *)
(* here.                                                                   *)
parse_duration_secs(dur) ==
    IF dur.unit \notin DOMAIN SecondsPer \/ dur.n < 0 THEN Invalid
    ELSE LET secs == dur.n * SecondsPer[dur.unit]
         IN  IF secs > U64Max THEN Invalid ELSE secs

parse_duration_field(dur) == parse_duration_secs(dur) # Invalid
parse_positive_duration_field(dur) == parse_duration_secs(dur) > 0
parse_positive_duration_field_capped(dur, max) ==
    parse_positive_duration_field(dur) /\ parse_duration_secs(dur) <= max

-----------------------------------------------------------------------------
(* Layers.                                                                 *)

(* Toml's extend on a section: what is above wins.                         *)
overlaid(above, below) ==
    [k \in DOMAIN above \cup DOMAIN below |-> IF k \in DOMAIN above THEN above[k] ELSE below[k]]

(* (Mistake: a written FALSE is taken for an unset leaf.)                  *)
BooleanLeaves == {"enabled", "refresh_rotation", "id_token", "trust_any_peer"}
MergeSkippingFalse(defaults, override) ==
    [sec \in DOMAIN defaults |->
        IF sec \in DOMAIN override
        THEN overlaid([k \in {k \in DOMAIN override[sec] :
                                  k \in BooleanLeaves => override[sec][k]} |-> override[sec][k]],
                      defaults[sec])
        ELSE defaults[sec]]

(* A leaf the override names wins whatever its value is; a leaf it does    *)
(* not name is inherited.                                                  *)
merge_raw_defaults(defaults, override) ==
    [sec \in DOMAIN defaults |->
        IF sec \in DOMAIN override THEN overlaid(override[sec], defaults[sec])
                                   ELSE defaults[sec]]

(* A placeholder text is "${NAME}"; "$${" is its escape.  The table below  *)
(* names the variable a text refers to; every other text is ordinary.      *)
PlaceholderOf == [x \in {"${SECRET}", "${UNSET}", "${EMPTY}"} |->
    CASE x = "${SECRET}" -> "SECRET" [] x = "${UNSET}" -> "UNSET" [] OTHER -> "EMPTY"]

scan_placeholder_name(text) ==
    IF text \in DOMAIN PlaceholderOf THEN Some(PlaceholderOf[text]) ELSE Absent

(* One string: a placeholder must name a variable with a non-empty value;  *)
(* an escape yields the literal text and is never looked up.               *)
Expands(text) ==
    \A name \in Range1(scan_placeholder_name(text)) :
        name \in DOMAIN SetVars \ EmptyVars

resolve_placeholders_in_str(text) ==
    IF text = "$${SECRET}" THEN "${SECRET}"
    ELSE IF scan_placeholder_name(text) # Absent /\ PlaceholderOf[text] \in DOMAIN SetVars
         THEN SetVars[PlaceholderOf[text]]
         ELSE text

(* The walk over the merged tree; the leaves that hold free text are the   *)
(* secrets and the audience.                                               *)
TextLeaves == {<<"internal_api", "shared_secret">>, <<"token", "audience">>,
               <<"user_sync", "webhook_secret">>}

resolve_placeholders(tree) ==
    LET Leaf(sec, k, v) == IF <<sec, k>> \in TextLeaves
                           THEN resolve_placeholders_in_str(v) ELSE v
    IN  [sec \in DOMAIN tree |-> [k \in DOMAIN tree[sec] |-> Leaf(sec, k, tree[sec][k])]]

PlaceholdersResolve(tree) ==
    \A leaf \in TextLeaves :
        (leaf[1] \in DOMAIN tree /\ leaf[2] \in DOMAIN tree[leaf[1]])
            => Expands(tree[leaf[1]][leaf[2]])

-----------------------------------------------------------------------------
(* The values a leaf has when no source names it.                          *)

DEFAULT_TRUSTED_PROXY_HOPS == 1
MAX_TRUSTED_PROXY_HOPS == 16
ServerDefaults ==
    [host |-> "0.0.0.0", port |-> 8080, issuer |-> [https |-> TRUE, host |-> "auth"],
     role |-> "exchange", request_timeout |-> Dur(30, "s"), base_path |-> Absent,
     proxies_are_cidr |-> TRUE, trusted_proxy_hops |-> DEFAULT_TRUSTED_PROXY_HOPS]

LocationDefaults ==
    [city_header |-> "", ip_header |-> "", trust_any_peer |-> FALSE]

RegistrationDefaults == [mode |-> "open", domain_allowlist |-> Absent]

MAX_REFRESH_ROTATION_GRACE_SECS == 60
TokenDefaults ==
    [access_token_ttl |-> Dur(15, "m"), refresh_token_ttl |-> Dur(30, "d"),
     audience |-> "api", custom_claims |-> {}, refresh_rotation |-> TRUE,
     refresh_rotation_grace |-> Dur(10, "s"), refresh_reuse_retention |-> Dur(24, "h")]

GrantsDefaults ==
    [id_token |-> FALSE, nonce_ttl |-> Dur(10, "m"), max_assertion_lifetime |-> Dur(1, "h")]

AuditDefaults ==
    [adapter |-> "stdout", blocking_threshold |-> "warning", emit_threshold |-> "info",
     durability |-> "observe", sqs_queue |-> Absent]

KeyManagerDefaults == [adapter |-> "oidc", kms |-> Absent, local |-> Absent]

RepositoryDefaults ==
    [adapter |-> "oidc", dynamodb |-> Absent, postgres |-> Absent, run_migrations |-> Absent,
     sqlite |-> Absent]

SessionRepositoryDefaults ==
    [adapter |-> Absent, valkey |-> Absent, lmdb |-> Absent, cleanup_interval |-> Dur(1, "h")]

RateLimitDefaults ==
    [enabled |-> TRUE, store |-> "in_process", window |-> Dur(1, "m"), budget |-> 60,
     max_concurrent_requests |-> 256, max_entries |-> 10000]

UserSyncDefaults ==
    [enabled |-> FALSE, adapter |-> Absent, webhook_url |-> Absent, webhook_secret |-> "",
     retries |-> 2]

InternalApiDefaults ==
    [enabled |-> FALSE, host |-> "127.0.0.1", port |-> 8081, auth_methods |-> << >>,
     shared_secret |-> "absent", token_audience |-> "internal", required_claim |-> "role",
     required_value |-> "admin", subject_header |-> "x-client-cert-subject",
     max_auth_failures |-> 5, auth_failure_window |-> Dur(1, "m"), auth_lockout |-> Dur(5, "m"),
     stats_cache_ttl |-> Dur(60, "s")]

TelemetryDefaults == [enabled |-> FALSE, exporter |-> "none", endpoint |-> Absent]

(* One provider is configured; its leaves are the free-form extras.        *)
ProviderDefaults ==
    [adapter |-> "oidc", issuer |-> Absent, client_id |-> Absent,
     email_verified_claim |-> Absent, trust_email_verified |-> Absent,
     endpoint_origins |-> << >>]

Defaults ==
    [server |-> ServerDefaults, location |-> LocationDefaults,
     registration |-> RegistrationDefaults, token |-> TokenDefaults,
     grants |-> GrantsDefaults, audit |-> AuditDefaults, key_manager |-> KeyManagerDefaults,
     repository |-> RepositoryDefaults, session_repository |-> SessionRepositoryDefaults,
     rate_limit |-> RateLimitDefaults, user_sync |-> UserSyncDefaults,
     telemetry |-> TelemetryDefaults, internal_api |-> InternalApiDefaults,
     provider |-> ProviderDefaults]

-----------------------------------------------------------------------------
(* Section by section: what the resolver accepts and what it makes of it.  *)

ServerRoles == {"all", "exchange", "admin"}
parse_role(role) == IF role = "" THEN "exchange" ELSE role

(* One trailing slash is trimmed; what is left empty or "/" means unset.   *)
normalise_base_path(opt) ==
    IF opt = Absent THEN Absent
    ELSE LET p == opt[1]
             head == IF p # << >> /\ p[Len(p)] = "/" THEN SubSeq(p, 1, Len(p) - 1) ELSE p
         IN  IF head \in {<< >>, <<"/">>} THEN Absent ELSE Some(head)

IsCanonicalPath(p) == Len(p) > 1 /\ p[1] = "/" /\ p[Len(p)] # "/"

ServerResolves(srv) ==
    /\ HttpsUrl(srv.issuer)
    /\ parse_role(srv.role) \in ServerRoles
    /\ parse_duration_field(srv.request_timeout)
    /\ \A p \in Range1(normalise_base_path(srv.base_path)) : IsCanonicalPath(p)
    /\ srv.proxies_are_cidr
    /\ srv.trusted_proxy_hops \in 1..MAX_TRUSTED_PROXY_HOPS

ResolvedServer(srv) ==
    [srv EXCEPT !.role = parse_role(srv.role), !.base_path = normalise_base_path(srv.base_path)]

(* Header names are compared after they are lower-cased.                   *)
Lower(name) == IF name = "X-Geo" THEN "x-geo" ELSE name
IsHeaderName(name) == name # "not a token"
LocationResolves(loc) ==
    LET named == {h \in {"city_header", "ip_header"} : loc[h] # ""}
    IN  /\ \A h \in named : IsHeaderName(loc[h])
        /\ \A g, h \in named : g # h => Lower(loc[g]) # Lower(loc[h])
        /\ loc.trust_any_peer => named # {}

RegistrationModes == {"open", "existing_users_only"}
RegistrationResolves(reg) ==
    /\ reg.mode \in RegistrationModes
    /\ \A list \in Range1(reg.domain_allowlist) : \A p \in list : AsciiDomainPattern(p)

TokenResolves(tok) ==
    /\ parse_duration_field(tok.access_token_ttl)
    /\ parse_duration_field(tok.refresh_token_ttl)
    /\ NonEmptyString(tok.audience)
    /\ parse_positive_duration_field_capped(tok.refresh_rotation_grace,
                                            MAX_REFRESH_ROTATION_GRACE_SECS)
    /\ parse_positive_duration_field(tok.refresh_reuse_retention)

GrantsResolves(gr) ==
    parse_duration_field(gr.nonce_ttl) /\ parse_duration_field(gr.max_assertion_lifetime)

Severities == {"debug", "info", "notice", "warning", "error", "critical", "alert", "emergency"}
AuditAdapters == {"noop", "stdout", "stderr", "auto", "sqs"}
SqsResolves(queue_url) == NonEmptyString(queue_url)
AuditResolves(au) ==
    /\ au.adapter \in AuditAdapters
    /\ au.blocking_threshold \in Severities /\ au.emit_threshold \in Severities
    /\ au.durability \in {"observe", "enforce"}
    /\ \A q \in Range1(au.sqs_queue) : SqsResolves(q)

ProviderAdapters == {"oidc", "local", "kms", "sqlite", "dynamodb", "postgres", "valkey",
                     "lmdb", "webhook"}
KmsAlgorithms == {"RS256", "RS384", "RS512", "PS256", "PS384", "PS512", "ES256", "ES384", "ES512"}
LocalAlgorithms == {"EdDSA"}
KmsResolves(key) == NonEmptyString(key.id) /\ key.algorithm \in KmsAlgorithms /\ NonEmptyString(key.kid)
LocalKeyResolves(key) == NonEmptyString(key.id) /\ key.algorithm \in LocalAlgorithms /\ NonEmptyString(key.kid)
KeyManagerResolves(km) ==
    /\ km.adapter \in ProviderAdapters
    /\ \A key \in Range1(km.kms) : KmsResolves(key)
    /\ \A key \in Range1(km.local) : LocalKeyResolves(key)

(* A store's section is there or not; what names the store must not be empty. *)
StoreResolves(repo, sections) ==
    \A sec \in sections : \A name \in Range1(repo[sec]) : NonEmptyString(name)

RepositoryResolves(repo) ==
    /\ repo.adapter \in ProviderAdapters
    /\ StoreResolves(repo, {"dynamodb", "postgres", "sqlite"})

SessionRepositoryResolves(repo) ==
    /\ \A a \in Range1(repo.adapter) : a \in ProviderAdapters
    /\ StoreResolves(repo, {"valkey", "lmdb"})
    /\ parse_positive_duration_field(repo.cleanup_interval)

MAX_RATE_LIMIT_WINDOW_SECS == 86400
MAX_RATE_LIMIT_MAX_CONCURRENT_REQUESTS == 4096
MAX_RATE_LIMIT_MAX_ENTRIES == 100000
MAX_RATE_LIMIT_BUDGET == 1000000
RateLimitResolves(rl) ==
    /\ rl.store \in {"in_process", "none"}
    /\ ~(rl.enabled /\ rl.store = "none")
    /\ parse_duration_secs(rl.window) \in 1..MAX_RATE_LIMIT_WINDOW_SECS
    /\ rl.max_entries \in 1..MAX_RATE_LIMIT_MAX_ENTRIES
    /\ rl.max_concurrent_requests \in 1..MAX_RATE_LIMIT_MAX_CONCURRENT_REQUESTS
    /\ rl.budget <= MAX_RATE_LIMIT_BUDGET

UserSyncResolves(us) ==
    /\ \A a \in Range1(us.adapter) : a \in ProviderAdapters
    /\ \A u \in Range1(us.webhook_url) : HttpsUrl(u) /\ NonEmptyString(us.webhook_secret)

TelemetryExporters == {"none", "otlp", "stdout", "xray", "prometheus"}
TelemetryResolves(te) ==
    /\ te.exporter \in TelemetryExporters
    /\ \A u \in Range1(te.endpoint) : HttpsUrl(u)

InternalAuthMethods == {"shared_secret", "oidc", "operator_token", "mtls"}
MAX_STATS_CACHE_TTL_SECS == 3600
InternalApiResolves(api) ==
    /\ \A i \in DOMAIN api.auth_methods : api.auth_methods[i] \in InternalAuthMethods
    /\ \A i, j \in DOMAIN api.auth_methods :
          i # j => api.auth_methods[i] # api.auth_methods[j]
    /\ parse_positive_duration_field_capped(api.stats_cache_ttl, MAX_STATS_CACHE_TTL_SECS)
    /\ NonEmptyString(api.shared_secret)
    /\ parse_positive_duration_field(api.auth_failure_window)
    /\ parse_positive_duration_field(api.auth_lockout)

IdentityProviderAdapters == {"oidc", "apple"}
ProviderResolves(pr) ==
    /\ \A u \in Range1(pr.issuer) : HttpsUrl(u)
    /\ pr.adapter \in IdentityProviderAdapters
    /\ pr.adapter = "oidc" => pr.issuer # Absent

-----------------------------------------------------------------------------
(* Rules that relate sections.                                             *)

ReservedClaims ==
    {"iss", "sub", "aud", "exp", "nbf", "iat", "jti",
     "acr", "amr", "at_hash", "auth_time", "azp", "c_hash", "cnf", "nonce", "sid", "typ",
     "client_id", "scope", "scp", "roles", "groups", "entitlements", "permissions"}
Uses(c, method) == method \in {c.internal_api.auth_methods[i] : i \in DOMAIN c.internal_api.auth_methods}

MIN_SHARED_SECRET_BYTES == 32
SecretBytes == [x \in {"absent", "s31", "s32", "${SECRET}", "${UNSET}", "${EMPTY}",
                       "$${SECRET}"} |->
    CASE x = "s32" -> 32 [] x = "s31" -> 31 [] x = "absent" -> 0 [] OTHER -> 9]

internal_api_served(c) == c.server.role \in {"admin", "all"} /\ c.internal_api.enabled

(* (Mistake: the secret and the token settings are not looked at.)         *)
AcceptAnySecret(c) ==
    /\ c.internal_api.auth_methods # << >>
    /\ Uses(c, "mtls") => NonEmptyString(c.internal_api.subject_header)
    /\ c.internal_api.max_auth_failures # 0

validate_internal_api(c) ==
    LET api == c.internal_api
    IN  /\ api.auth_methods # << >>
        /\ Uses(c, "shared_secret") => SecretBytes[api.shared_secret] >= MIN_SHARED_SECRET_BYTES
        /\ Uses(c, "operator_token") =>
              /\ c.key_manager.adapter \in {"local", "kms"}
              /\ NonEmptyString(api.token_audience)
              /\ NonEmptyString(api.required_claim)
              /\ NonEmptyString(api.required_value)
              /\ c.token.audience # api.token_audience
        /\ Uses(c, "mtls") => NonEmptyString(api.subject_header)
        /\ api.max_auth_failures # 0

WildcardHosts == {"0.0.0.0", "::"}
listeners_collide(public_host, public_port, admin_host, admin_port) ==
    /\ public_port = admin_port
    /\ \/ public_host = admin_host
       \/ public_host \in WildcardHosts
       \/ admin_host \in WildcardHosts

validate(c) ==
    /\ c.token.custom_claims \cap ReservedClaims = {}
    /\ internal_api_served(c) => validate_internal_api(c)
    /\ (c.server.role = "all" /\ c.internal_api.enabled)
          => ~listeners_collide(c.server.host, c.server.port,
                                c.internal_api.host, c.internal_api.port)

(* Config::resolve: every section narrowed, then the cross-section rules.  *)
SectionsResolve(raw) ==
    /\ ServerResolves(raw.server) /\ LocationResolves(raw.location)
    /\ RegistrationResolves(raw.registration) /\ TokenResolves(raw.token)
    /\ GrantsResolves(raw.grants) /\ AuditResolves(raw.audit)
    /\ KeyManagerResolves(raw.key_manager) /\ RepositoryResolves(raw.repository)
    /\ SessionRepositoryResolves(raw.session_repository)
    /\ RateLimitResolves(raw.rate_limit) /\ UserSyncResolves(raw.user_sync)
    /\ TelemetryResolves(raw.telemetry) /\ InternalApiResolves(raw.internal_api)
    /\ ProviderResolves(raw.provider)

Resolved(raw) == [raw EXCEPT !.server = ResolvedServer(raw.server)]
Resolves(raw) == SectionsResolve(raw) /\ validate(Resolved(raw))

=============================================================================
