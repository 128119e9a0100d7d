-------------------------------- MODULE Ingress --------------------------------
(***************************************************************************)
(* The HTTP server in front of the service: the layers a request passes on *)
(* the public and on the internal listener, the handlers, and what they    *)
(* share: the rate limiters, the concurrency permits, the JWKS cache, the  *)
(* public keys of the KMS, the state of the audit sink.  A request holds a *)
(* slot; each action is its code from one await to the next.  Whatever it  *)
(* stands at, it may time out, lose its client, or panic.                  *)
(*                                                                         *)
(* What a handler does in the stores is in SignIn and TokenService: here a *)
(* refresh, a nonce or an operator's call just succeeds or fails.          *)
(***************************************************************************)
EXTENDS Jwks, Tokens, RateLimits

CONSTANTS
    Deployments,     \* the settings: a sequence of records, see the README
    User,            \* the user an exchange signs in
    OperatorTokens   \* operator tokens minted by the operators' tool

VARIABLES
    deployment,      \* which deployment this is
    req,             \* the requests in flight
    arrived,         \* how many arrived
    permits,         \* requests that hold a concurrency permit
    windows,         \* the fixed windows of the public listener
    subjects,        \* the fixed windows of the service
    buckets,         \* the lockout of operators
    public_key,      \* the key managers that hold the KMS public key
    audit_failures,  \* AUDIT_SINK_CONSECUTIVE_FAILURES
    issued,          \* access tokens handed out (history)
    sent,            \* requests per address, of their own or passed on (history)
    guesses          \* failed evaluations in each peer's current bucket (history)

layerVars == <<permits, windows, subjects, buckets, public_key, audit_failures>>
historyVars == <<issued, sent, guesses>>
vars == <<now, deployment, provider, jwksVars, req, arrived, layerVars, historyVars>>

D == Deployments[deployment]

NoRequest == [pc |-> "idle", in |-> None, addr |-> None, answer |-> None, attempt |-> 0,
              token |-> None]

-----------------------------------------------------------------------------
(* What the outer layers compute from a request.  A path and the base path *)
(* are sequences of segments.                                              *)

\* base_path.rs: only whole segments are stripped.
strip_prefix_at_segment_boundary(path, prefix) ==
    IF IsPrefix(prefix, path) THEN SubSeq(path, Len(prefix) + 1, Len(path)) ELSE path
strip_base_path(in) ==
    IF D.base_path = << >> THEN in.path ELSE strip_prefix_at_segment_boundary(in.path, D.base_path)

\* request_id.rs: the client's id if it is acceptable, else a new one.
is_acceptable_request_id(id) == id \notin {None, "", "too long", "bad characters"}
request_id_layer(in) == IF is_acceptable_request_id(in.request_id) THEN in.request_id ELSE "generated"

\* The routes each listener mounts; no route is a 404 ahead of the layers.
public_routes == {<<"token">>, <<"revoke">>, <<"health">>, <<"keys">>, <<".well-known", "openid-configuration">>}
                 \cup (IF D.grants_id_token THEN {<<"nonce">>} ELSE {})
internal_routes == {<<"internal", "users">>, <<"internal", "stats">>}
IsRouted(in) ==
    strip_base_path(in) \in IF in.plane = "public" THEN public_routes ELSE internal_routes \cup {<<"health">>}

\* The X-Forwarded-For the server sees: a proxy appends the address it talks to.
forwarded(in) == IF in.via = None THEN in.forged ELSE Append(in.forged, in.origin)
SocketPeer(in) == IF in.via = None THEN in.origin ELSE in.via

\* Only the server's own listeners hand the socket's peer on: under Lambda and behind
\* the FFI a request has none.
ConnectInfo(in) == IF in.runtime = "server" THEN SocketPeer(in) ELSE None

\* lambda_platform_source_ip, else the connection's.
Peer(in) == IF in.platform # None THEN in.platform ELSE ConnectInfo(in)

\* (Mistake: the leftmost entry is taken for the client.)
SelectLeftmost(chain, hops) == IF chain = << >> THEN None ELSE Head(chain)

\* The hops-th entry from the right; never one of a chain too long.
select_forwarded(chain, hops) ==
    IF hops \notin 1..D.max_chain \/ Len(chain) > D.max_chain \/ Len(chain) < hops THEN None
    ELSE chain[Len(chain) + 1 - hops]

ClientAddr(kind, addr) == [kind |-> kind, addr |-> addr]

resolve_client_addr(in) ==
    LET entry == select_forwarded(forwarded(in), D.trusted_proxy_hops)
    IN  IF Peer(in) = None THEN ClientAddr("Unknown", None)
        ELSE IF Peer(in) \in D.trusted_proxies /\ entry # None
        THEN ClientAddr("Forwarded", entry) ELSE ClientAddr("Peer", Peer(in))

\* audit_context_with_location: a location header may name the address.
audit_context(in) ==
    LET trusted == Peer(in) \in D.trusted_proxies
    IN  IF D.ip_header /\ in.ip_header # None /\ (trusted \/ D.trust_headers_from_any_peer)
        THEN ClientAddr(IF trusted THEN "Reported" ELSE "Asserted", in.ip_header)
        ELSE resolve_client_addr(in)

rate_limit_key(c) == IF c.kind \in {"Peer", "Forwarded", "Reported"} THEN c.addr ELSE None

\* public_throttle_layer looks at the credential endpoints only.
IsThrottled(in) == strip_base_path(in) \in {<<"token">>, <<"revoke">>, <<"nonce">>}

-----------------------------------------------------------------------------
(* What a deployment and its clients are. *)

\* The settings a deployment runs with are those config.rs and the limiters accept.
Accepted(d) ==
    /\ d.max_concurrent_requests \in Nat \ {0}
    /\ None \notin d.trusted_proxies
    /\ d.budgets \in [{"ClientAddr", "ClientAddrFailure", "Provider", "Subject"} -> Nat]
    /\ {d.lockout.max_failures, d.lockout.failure_window, d.lockout.lockout} \subseteq Nat \ {0}
    /\ d.methods \in Seq({"shared_secret", "operator_token", "mtls"})
    /\ "operator_token" \in Range(d.methods) => d.token_audience # d.audience

\* An input has an address of its own and comes through at most one proxy.  Lambda may
\* report an address (behind a load balancer it does not).  It
\* carries no token made with the service's key: those are issued or the operators'.
Sendable(d, in) ==
    /\ DOMAIN in = {"plane", "path", "request_id", "origin", "via", "forged", "runtime", "platform",
                    "ip_header", "form", "bearer", "subject"}
    /\ in.origin # None
    /\ in.runtime = d.runtime /\ in.runtime \in {"server", "lambda", "ffi"}
    /\ in.platform # None => in.runtime = "lambda"
    /\ {in.origin, in.via, in.platform} \subseteq d.addresses \cup {None}
    /\ in.forged \in Seq(Range(in.forged))
    /\ split_jws_segments(in.form) => in.form.sig.by # d.keys.material

\* A peer that is trusted is the one proxy: it is configured as one hop, and it
\* reports no other address than that of the client it talks to.
TrustIsDeserved(d, in) ==
    Peer(in) \in d.trusted_proxies =>
        in.via # None /\ d.trusted_proxy_hops = 1 /\ in.ip_header \in {None, in.origin}

ASSUME IngressAssumption ==
    /\ IsFiniteSet(Request) /\ None \notin Request
    /\ \A i \in DOMAIN Deployments :
        /\ Accepted(Deployments[i])
        /\ None \notin Deployments[i].addresses
        /\ \A in \in Deployments[i].inputs :
               Sendable(Deployments[i], in) /\ TrustIsDeserved(Deployments[i], in)
        /\ \A t \in OperatorTokens : Claim(t, "aud") # {Deployments[i].audience}

-----------------------------------------------------------------------------
(* Errors to status codes (error.rs). *)

map_domain_error(e) ==
    CASE e \in {"InvalidGrant", "InvalidRequest", "UnknownProvider", "UnsupportedGrantType"} -> 400
      [] e = "InvalidToken" -> 401
      [] e \in {"AccessDenied", "UserSuspended"} -> 403
      [] e = "NotFound" -> 404
      [] e = "Conflict" -> 409
      [] e = "TooManyRequests" -> 429
      [] e = "ProviderError" -> 502
      [] e = "ProviderTimeout" -> 504
      [] OTHER -> 500

\* is_public_authentication_failure: by the status and, for a 400, by the code.
is_public_authentication_failure(e) ==
    e # None /\ (map_domain_error(e) \in {401, 403} \/ e = "InvalidGrant")

\* An emission to the audit sink: the counter after it, and whether it stands.
record_mandatory_audit_success == 0
record_mandatory_audit_failure == IF audit_failures < D.degraded_after THEN audit_failures + 1 ELSE audit_failures
emit_mandatory_audit_event(ok) ==
    /\ audit_failures' = IF ok THEN record_mandatory_audit_success ELSE record_mandatory_audit_failure
    /\ UNCHANGED <<permits, windows, subjects, buckets, public_key>>
Stands(ok) == ok \/ ~D.enforce

audit_sink_degraded == audit_failures >= D.degraded_after

-----------------------------------------------------------------------------
(* The life of a request. *)

Advance(r, pc) == req' = [req EXCEPT ![r].pc = pc]
Ends(r) == req' = [req EXCEPT ![r] = NoRequest]
Answer(r, e) == req' = [req EXCEPT ![r].pc = "respond", ![r].answer = e]

\* The outcome of a sign-in, a refresh or a revocation, to be recorded before it is answered.
Terminal(r, e) == req' = [req EXCEPT ![r].pc = "terminal", ![r].answer = e]

Same == UNCHANGED <<now, deployment, provider, jwksVars, arrived, historyVars>>

Arrive(r, in) ==
    LET first == IF in.plane = "internal" /\ strip_base_path(in) # <<"health">> THEN "check"
                 ELSE IF in.plane = "public" THEN "throttle" ELSE "health"
    IN  /\ req[r] = NoRequest
        /\ arrived < D.max_arrivals
        /\ arrived' = arrived + 1
        /\ req' = IF IsRouted(in)
                  THEN [req EXCEPT ![r] = [NoRequest EXCEPT !.pc = first, !.in = in,
                                               !.addr = rate_limit_key(audit_context(in))]]
                  ELSE req
        /\ sent' = [a \in DOMAIN sent |-> sent[a] + IF a \in {in.origin, in.via, in.platform} THEN 1 ELSE 0]
        /\ UNCHANGED <<now, deployment, provider, jwksVars, layerVars, issued, guesses>>

\* A client presents tokens it was handed, on either listener.
ArriveWithToken(r, in, token) ==
    Arrive(r, IF in.plane = "public" THEN [in EXCEPT !.form = token] ELSE [in EXCEPT !.bearer = token])

-----------------------------------------------------------------------------
(* The public layers. *)

\* public_throttle_layer, down to its Deny.
Throttle(r) ==
    LET key == <<"ClientAddr", req[r].addr>>
    IN  /\ req[r].pc = "throttle"
        /\ IF IsThrottled(req[r].in) /\ req[r].addr # None
           THEN \E o \in window_check_at(windows, key, now, D.window, D.budgets, D.max_entries) :
                    /\ windows' = o.table
                    /\ Advance(r, IF o.allow THEN "admit" ELSE "denied")
           ELSE Advance(r, "admit") /\ UNCHANGED windows
        /\ UNCHANGED <<permits, subjects, buckets, public_key, audit_failures>>
        /\ Same

\* The denial is recorded as well as may be, and answered 429 in any case.
Deny(r) ==
    /\ req[r].pc = "denied"
    /\ \E ok \in BOOLEAN : emit_mandatory_audit_event(ok)
    /\ Ends(r)
    /\ Same

\* public_concurrency_layer: no permit, no service.
Admit(r) ==
    /\ req[r].pc = "admit"
    /\ IF Cardinality(permits) < D.max_concurrent_requests
       THEN permits' = permits \cup {r} /\ Advance(r, "handle")
       ELSE Ends(r) /\ UNCHANGED permits
    /\ UNCHANGED <<windows, subjects, buckets, public_key, audit_failures>>
    /\ Same

\* The response on its way out: the permit, then the failure budget of the
\* address, whose verdict nobody reads.
Respond(r) ==
    LET key == <<"ClientAddrFailure", req[r].addr>>
        failed == IsThrottled(req[r].in) /\ req[r].addr # None
                  /\ is_public_authentication_failure(req[r].answer)
    IN  /\ req[r].pc = "respond"
        /\ permits' = permits \ {r}
        /\ IF failed
           THEN \E o \in window_check_at(windows, key, now, D.window, D.budgets, D.max_entries) :
                    windows' = o.table
           ELSE UNCHANGED windows
        /\ Ends(r)
        /\ UNCHANGED <<subjects, buckets, public_key, audit_failures>>
        /\ Same

-----------------------------------------------------------------------------
(* The public handlers. *)

\* TokenGrant::try_from: the parameters a grant needs and the ones it refuses.
GrantNeeds ==
    [authorization_code |-> {"provider", "code", "redirect_uri"},
     id_token |-> {"provider", "id_token"}, refresh_token |-> {"refresh_token"}]
GrantRefuses ==
    [authorization_code |-> {"id_token", "refresh_token", "provider_access_token"},
     id_token |-> {"code", "redirect_uri", "refresh_token"},
     refresh_token |-> {"provider", "code", "redirect_uri", "id_token", "provider_access_token"}]

\* TokenForm and the handler's own check, in their order: None if all is well.
FormError(form) ==
    IF form.malformed \/ form.grant_type = None THEN "InvalidRequest"
    ELSE IF "id_token" \in form.params /\ ~D.grants_id_token THEN "UnsupportedGrantType"
    ELSE IF form.grant_type \notin DOMAIN GrantNeeds THEN "UnsupportedGrantType"
    ELSE IF GrantRefuses[form.grant_type] \cap form.params # {} THEN "InvalidRequest"
    ELSE IF ~(GrantNeeds[form.grant_type] \subseteq form.params) THEN "InvalidRequest"
    ELSE None

\* consume_limit of the service: its tables and decision for a key.
consume_limit(key) == window_check_at(subjects, key, now, D.window, D.budgets, D.max_entries)

\* token_handler: a bad form is answered; a grant goes its way.
HandleToken(r) ==
    LET form == req[r].in.form
    IN  /\ req[r].pc = "handle"
        /\ strip_base_path(req[r].in) = <<"token">>
        /\ \/ FormError(form) # None /\ Answer(r, FormError(form)) /\ UNCHANGED subjects
           \/ /\ FormError(form) = None /\ form.grant_type = "refresh_token"
              /\ Answer(r, "InvalidGrant") \/ \E e \in {None, "InvalidGrant"} : Terminal(r, e)
              /\ UNCHANGED subjects
           \/ /\ FormError(form) = None /\ form.grant_type # "refresh_token"
              /\ form.provider # "known"
              /\ Terminal(r, "UnknownProvider")
              /\ UNCHANGED subjects
           \/ /\ FormError(form) = None /\ form.grant_type # "refresh_token"
              /\ form.provider = "known"
              /\ \E o \in consume_limit(<<"Provider", form.provider>>) :
                     /\ subjects' = o.table
                     /\ IF ~o.allow THEN Terminal(r, "TooManyRequests")
                        ELSE Advance(r, IF form.grant_type = "id_token" THEN "assertion" ELSE "code")
        /\ UNCHANGED <<permits, windows, buckets, public_key, audit_failures>>
        /\ Same

\* exchange_code at the provider's token endpoint.
ExchangeCode(r) ==
    /\ req[r].pc = "code"
    /\ \E a \in Answers :
           IF exchange_code(a, MaxBody).ok THEN Advance(r, "assertion") ELSE Terminal(r, "ProviderError")
    /\ UNCHANGED layerVars
    /\ Same

\* validate_id_token: the header, then the key ...
LookUpKey(r) ==
    LET token == req[r].in.form.token
    IN  /\ req[r].pc = "assertion"
        /\ IF token.kid = None
           THEN Terminal(r, "InvalidGrant") /\ UNCHANGED task
           ELSE Advance(r, "keys") /\ task' = [task EXCEPT ![r] = StartedTask(token.kid)]
        /\ UNCHANGED <<now, deployment, provider, published, cached, refill, waiters, last_forced_refetch,
                       forcedStart, arrived, historyVars, layerVars>>

\* ... then the signature and the claims, and the subject's budget.
Validate(r) ==
    LET token == req[r].in.form.token
        key == KeyOf(Keys(task[r].reply), token.kid)
        v == IF provider.kind = "oidc" THEN validate_id_token_oidc(token, key, provider, now, D.leeway)
                                       ELSE validate_id_token_apple(token, key, provider, now, D.leeway)
    IN  /\ req[r].pc = "keys"
        /\ task[r].pc = "found"
        /\ task' = [task EXCEPT ![r] = Off]
        /\ IF ~v.ok THEN Terminal(r, v.err) /\ UNCHANGED subjects
           ELSE \E o \in consume_limit(<<"Subject", v.val.subject>>) :
                    /\ subjects' = o.table
                    /\ IF o.allow THEN Advance(r, "mint") ELSE Terminal(r, "TooManyRequests")
        /\ UNCHANGED <<now, deployment, provider, published, cached, refill, waiters, last_forced_refetch,
                       forcedStart, arrived, historyVars, permits, windows, buckets, public_key,
                       audit_failures>>

KeyNotFound(r) ==
    /\ req[r].pc = "keys"
    /\ task[r].pc \in {"InvalidGrant", "ProviderError"}
    /\ task' = [task EXCEPT ![r] = Off]
    /\ Terminal(r, task[r].pc)
    /\ UNCHANGED <<now, deployment, provider, published, cached, refill, waiters, last_forced_refetch,
                   forcedStart, arrived, historyVars, layerVars>>

\* The access token is signed; the KMS may fail.
Mint(r) ==
    /\ req[r].pc = "mint"
    /\ \/ D.keys.kind = "kms" /\ Terminal(r, "KeyError")
       \/ req' = [req EXCEPT ![r].pc = "terminal",
                             ![r].token = build_access_token(D.keys, D, User, "family", now)]
    /\ UNCHANGED layerVars
    /\ Same

\* The outcome is recorded: under enforce it is lost with its record, a success too.
Record(r) ==
    /\ req[r].pc = "terminal"
    /\ \E ok \in BOOLEAN :
           /\ emit_mandatory_audit_event(ok)
           /\ issued' = issued \cup IF Stands(ok) THEN {req[r].token} \ {None} ELSE {}
           /\ Answer(r, IF Stands(ok) THEN req[r].answer ELSE "SecurityAuditDurability")
    /\ UNCHANGED <<now, deployment, provider, jwksVars, arrived, sent, guesses>>

\* The KMS public key is fetched once per key manager; a failed fetch is not kept.
PublicKeyAfter(who) ==
    IF D.keys.kind = "kms" /\ who \notin public_key THEN {public_key, public_key \cup {who}} ELSE {public_key}

\* revoke_handler: the token is tried as an access token; the answer is the same.
HandleRevoke(r) ==
    LET token == req[r].in.form
    IN  /\ req[r].pc = "handle"
        /\ strip_base_path(req[r].in) = <<"revoke">>
        /\ \E p \in PublicKeyAfter("service") :
               /\ public_key' = p
               /\ IF validate_access_token(D.keys, "service" \in p, D, token, now, D.leeway)
                  THEN Advance(r, "revoke") ELSE Terminal(r, None)
        /\ UNCHANGED <<permits, windows, subjects, buckets, audit_failures>>
        /\ Same

\* The family of a valid access token is revoked; a store failure is a 503.
RevokeFamily(r) ==
    /\ req[r].pc = "revoke"
    /\ Answer(r, "StoreError") \/ Terminal(r, None)
    /\ UNCHANGED layerVars
    /\ Same

\* nonce_handler, openid_config_handler, keys_handler, health_handler.
HandleOther(r) ==
    /\ \/ /\ req[r].pc = "handle"
          /\ strip_base_path(req[r].in) = <<"nonce">>
          /\ \E e \in {None, "StoreError"} : Answer(r, e)
          /\ UNCHANGED public_key
       \/ /\ req[r].pc = "handle"
          /\ strip_base_path(req[r].in) = <<".well-known", "openid-configuration">>
          /\ Answer(r, None)
          /\ UNCHANGED public_key
       \/ /\ req[r].pc = "handle"
          /\ strip_base_path(req[r].in) = <<"keys">>
          /\ \E p \in PublicKeyAfter("service") :
                 public_key' = p /\ Answer(r, IF D.keys.kind = "local" \/ "service" \in p THEN None ELSE "KeyError")
       \/ /\ req[r].pc \in {"handle", "health"}
          /\ strip_base_path(req[r].in) = <<"health">>
          /\ Answer(r, IF audit_sink_degraded THEN "Degraded" ELSE None)
          /\ UNCHANGED public_key
    /\ UNCHANGED <<permits, windows, subjects, buckets, audit_failures>>
    /\ Same

-----------------------------------------------------------------------------
(* The internal layers and handlers. *)

\* The budget is that of the connection's peer; a request without one draws none.
peer_key(in) == ConnectInfo(in)

\* The lockout is consulted before any credential, if there is a key.
CheckLockout(r) ==
    /\ req[r].pc = "check"
    /\ \/ /\ peer_key(req[r].in) = None
          /\ Advance(r, "authenticate")
          /\ UNCHANGED <<buckets, guesses>>
       \/ /\ peer_key(req[r].in) # None
          /\ \E o \in admin_check_at(buckets, peer_key(req[r].in), now, D.lockout) :
                 /\ buckets' = o.table
                 /\ guesses' = [p \in DOMAIN guesses |->
                                   IF p \in DOMAIN o.table /\ p \in DOMAIN buckets
                                   THEN IF o.table[p] = buckets[p] THEN guesses[p] ELSE 0 ELSE 0]
                 /\ Advance(r, IF o.allow THEN "authenticate" ELSE "lockedOut")
    /\ UNCHANGED <<now, deployment, provider, jwksVars, arrived, issued, sent, permits, windows, subjects, public_key,
                   audit_failures>>

\* The gate; a failure is charged to the peer, if there is one, before it is recorded.
Authenticate(r) ==
    LET in == req[r].in
        peer == peer_key(in)
    IN  /\ req[r].pc = "authenticate"
        /\ \E p \in PublicKeyAfter("gate") :
           LET g == GateAnswer(D.keys, "gate" \in p, D, in, now, D.leeway, D.max_operator_ttl)
           IN  /\ public_key' = p
               /\ IF g.mechanism \in {"Invalid", "Missing"}
                  THEN /\ Advance(r, "refused")
                       /\ IF peer = None THEN UNCHANGED <<buckets, guesses>>
                          ELSE \E o \in admin_consume_at(buckets, peer, now, D.lockout) :
                                  /\ buckets' = o.table
                                  /\ guesses' = [q \in DOMAIN guesses |->
                                         LET kept == q \in DOMAIN o.table /\ q \in DOMAIN buckets
                                             n == IF kept THEN IF o.table[q].started_at = buckets[q].started_at
                                                               THEN guesses[q] ELSE 0 ELSE 0
                                         IN  IF q = peer THEN n + 1 ELSE n]
                  ELSE /\ UNCHANGED <<buckets, guesses>>
                       /\ IF g.mechanism = "panic" THEN Advance(r, "panic")
                          ELSE req' = [req EXCEPT ![r].pc = "operate", ![r].answer = g.mechanism]
        /\ UNCHANGED <<now, deployment, provider, jwksVars, arrived, issued, sent, permits, windows, subjects, audit_failures>>

\* require_security_event, then 429 or 401; 500 if it must stand and does not.
RecordRefusal(r) ==
    /\ req[r].pc \in {"lockedOut", "refused"}
    /\ \E ok \in BOOLEAN : emit_mandatory_audit_event(ok)
    /\ Ends(r)
    /\ Same

\* A read is answered; a change that the service makes is recorded next.
Operate(r) ==
    /\ req[r].pc = "operate"
    /\ IF strip_base_path(req[r].in) = <<"internal", "users">> THEN Advance(r, "record") \/ Ends(r) ELSE Ends(r)
    /\ UNCHANGED layerVars
    /\ Same

RecordMutation(r) ==
    /\ req[r].pc = "record"
    /\ \E ok \in BOOLEAN :
           emit_mandatory_audit_event(ok) /\ IF Stands(ok) THEN Advance(r, "notify") ELSE Ends(r)
    /\ Same

\* send_webhook: a server error or no answer is tried again, up to the limit,
\* under the same delivery id; anything else ends it, and no failure is passed on.
Notify(r) ==
    /\ req[r].pc = "notify"
    /\ \/ Ends(r)
       \/ /\ req[r].attempt < D.webhook_retries
          /\ req' = [req EXCEPT ![r].attempt = @ + 1]
    /\ UNCHANGED layerVars
    /\ Same

-----------------------------------------------------------------------------
\* (Mistake: the permit is returned by the handler, so a dropped one keeps it.)
DropLeakingPermit(r) ==
    /\ req[r] # NoRequest
    /\ DropTask(r)
    /\ UNCHANGED permits
    /\ Ends(r)
    /\ UNCHANGED <<now, deployment, provider, arrived, historyVars, windows, subjects, buckets, public_key, audit_failures>>

\* TimeoutLayer (408), a client that went away, CatchPanicLayer (500): the request's
\* future is dropped where it stands, with all it holds; nothing is charged.
Drop(r) ==
    /\ req[r] # NoRequest
    /\ DropTask(r)
    /\ permits' = permits \ {r}
    /\ Ends(r)
    /\ UNCHANGED <<now, deployment, provider, arrived, historyVars, windows, subjects, buckets, public_key, audit_failures>>

Tick ==
    /\ now < D.max_time
    /\ now' = now + 1
    /\ UNCHANGED <<deployment, provider, jwksVars, req, arrived, layerVars, historyVars>>

Init ==
    /\ now = 0
    /\ deployment \in DOMAIN Deployments
    /\ provider = D.provider
    /\ JwksInit
    /\ req = [r \in Request |-> NoRequest]
    /\ arrived = 0
    /\ permits = {}
    /\ windows = << >>
    /\ subjects = << >>
    /\ buckets = << >>
    /\ public_key = {}
    /\ audit_failures = 0
    /\ issued = {}
    /\ sent = [a \in D.addresses |-> 0]
    /\ guesses = [a \in D.addresses |-> 0]

Arrival ==
    \E r \in Request :
        \/ \E in \in D.inputs : Arrive(r, in)
        \/ \E in \in D.inputs, t \in issued \cup OperatorTokens :
               /\ in.plane = "internal" \/ strip_base_path(in) = <<"revoke">>
               /\ ArriveWithToken(r, in, t)

Step(r) ==
    \/ Throttle(r) \/ Deny(r) \/ Admit(r) \/ Respond(r)
    \/ HandleToken(r) \/ ExchangeCode(r) \/ LookUpKey(r) \/ Validate(r) \/ KeyNotFound(r) \/ Mint(r) \/ Record(r)
    \/ HandleRevoke(r) \/ RevokeFamily(r) \/ HandleOther(r)
    \/ CheckLockout(r) \/ Authenticate(r) \/ RecordRefusal(r)
    \/ Operate(r) \/ RecordMutation(r) \/ Notify(r)
    \/ Drop(r)

KeyStep(r) == TaskStep(r) /\ UNCHANGED <<now, deployment, provider, req, arrived, layerVars, historyVars>>

ProviderRotates == Rotate /\ UNCHANGED <<now, deployment, provider, req, arrived, layerVars, historyVars>>

\* All requests are answered: only the clock is left.
Finished ==
    /\ arrived = D.max_arrivals
    /\ \A r \in Request : req[r] = NoRequest
    /\ UNCHANGED vars

Next ==
    \/ Arrival
    \/ \E r \in Request : Step(r) \/ KeyStep(r)
    \/ ProviderRotates
    \/ Tick
    \/ Finished

IngressSpec == Init /\ [][Next]_vars

-----------------------------------------------------------------------------
(* Properties. *)

\* However many requests meet an unknown kid at once, and whatever becomes of
\* the fetches, the provider is sent at most one forced refetch per
\* MIN_REFRESH_INTERVAL.
ForcedRefetchIsRare ==
    [][\A r \in Request :
          task'[r].pc = "forcedFetch" /\ task[r].pc # "forcedFetch" /\ forcedStart # None
          => now - forcedStart >= MIN_REFRESH_INTERVAL]_vars

\* Nothing a request holds outlives it: whether it was answered, refused, timed
\* out, dropped or panicked, the concurrency permits are those of requests at
\* work, the refill permit has a holder that is refilling or is free with nobody
\* queued, and the queue holds each waiting task once.
PermitsAreReturned ==
    /\ \A r \in permits : req[r].pc \in {"handle", "code", "assertion", "keys", "mint", "revoke", "terminal", "respond"}
    /\ Cardinality(permits) <= D.max_concurrent_requests
    /\ IF refill = None THEN waiters = << >> ELSE task[refill].pc \in Holding /\ req[refill].pc = "keys"
    /\ \A r \in Request : (task[r].pc = "queued") <=> Contains(waiters, r)
    /\ \A r \in Request : task[r].pc \in Holding => refill = r
    /\ IsInjective(waiters)

\* Where the listener knows its peers the lockout bounds guessing: within one bucket a
\* peer gets its budget of failures and at most one more for each other request that had
\* passed the check before the budget was spent.  (A bucket that newer ones evicted
\* counts no more.)  Under Lambda and behind the FFI there is no peer to count against:
\* nothing is counted there and nothing bounded.
LockoutHolds ==
    /\ D.runtime = "server" =>
          \A p \in DOMAIN buckets : guesses[p] <= D.lockout.max_failures + Cardinality(Request) - 1
    /\ D.runtime # "server" => DOMAIN buckets = {}

\* Tokens do not cross the listeners, though one key signs them all: an access
\* token, whatever claims its user carries, never passes as an operator's
\* credential, and an operator's token is never taken for an access token.
TokensKeepTheirPlane ==
    \A r \in Request :
        /\ req[r].pc \in {"operate", "record", "notify"} /\ req[r].answer = "OperatorToken"
               => req[r].in.bearer \notin issued
        /\ req[r].pc = "revoke" => req[r].in.form \in issued

\* A budget is spent by its owner: what the public windows have counted against
\* an address came from it or through it, whatever a client writes into
\* X-Forwarded-For or a location header.
BudgetIsSpentByItsOwner ==
    \A k \in DOMAIN windows : k[1] = "ClientAddr" => windows[k].consumed <= sent[k[2]]
=============================================================================
