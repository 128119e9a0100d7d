------------------------------- MODULE MCIngress -------------------------------
(* Ingress on a small instance: a KMS deployment behind one trusted proxy.    *)
EXTENDS Ingress

Https(host) == [scheme |-> "https", host |-> host, port |-> None, bare |-> TRUE]

(* What a provider may answer: the keys and tokens asked for, an error, a body *)
(* too large, nothing.                                                         *)
Body(json) == [json |-> json, id_token |-> "token", issuer |-> Https("idp"), token_endpoint |-> Https("idp"),
               jwks_uri |-> Https("keys.idp"), revocation_endpoint |-> None]
Response(status, size, json) == [status |-> status, declared |-> None, size |-> size, body |-> Body(json)]
AllAnswers == {None, Response(200, 1, TRUE)}

OidcConfig(endpoint) ==
    [issuer |-> Https("idp"), client_id |-> "client", token_endpoint |-> endpoint, jwks_uri |-> endpoint,
     revocation_endpoint |-> None, endpoint_origins |-> <<Https("cdn")>>, email_verification |-> "Standard"]
AppleConfig ==
    [client_id |-> "client", team_id |-> "team", key_id |-> "key", private_key |-> "pem",
     token_endpoint |-> None, jwks_uri |-> None, revocation_endpoint |-> None, endpoint_origins |-> << >>]
Oidc ==
    [kind |-> "oidc", issuer |-> Https("idp"), client_id |-> "client", admitted |-> {"ES256", "RS256"},
     jwks_uri |-> Https("keys.idp"), revocation_endpoint |-> None, email_verification |-> "Standard"]
Apple ==
    [kind |-> "apple", issuer |-> APPLE_ISSUER, client_id |-> "client", admitted |-> {"RS256", "ES256"},
     jwks_uri |-> APPLE_ENDPOINT, revocation_endpoint |-> APPLE_ENDPOINT, email_verification |-> "Standard"]
ASSUME Apple = apple_from_config(AppleConfig).val

(* The provider rotates from k1 to k1 and k2. *)
Jwk(kid) == [kty |-> "EC", crv |-> "P-256", alg |-> "ES256", use |-> "sig", key_ops |-> None,
             kid |-> kid, material |-> kid]
AllDocuments == <<[keys |-> <<Jwk("k1")>>], [keys |-> <<Jwk("k1"), Jwk("k2")>>]>>

(* A user stored before reserved names were refused, with an operator's claims. *)
TheUser ==
    [id |-> "user", email |-> None, display_name |-> None, provider |-> "idp", external_id |-> "sub",
     metadata |-> << >>, claims |-> [aud |-> {"admin"}, tier |-> "operator"]]

IdToken(kid) ==
    [kid |-> kid, alg |-> "ES256", signed_with |-> kid, iss |-> Https("idp"), aud |-> {"client"}, exp |-> 9,
     nbf |-> None, sub |-> "sub", email |-> None, email_verified |-> None, custom_verified |-> None]
Form(grant, params, token) ==
    [malformed |-> FALSE, grant_type |-> grant, params |-> params, provider |-> "known", token |-> token]
From(plane, path, form) ==
    [plane |-> plane, path |-> <<"auth">> \o path, request_id |-> None, origin |-> "client", via |-> None,
     forged |-> << >>, runtime |-> "server", platform |-> None, ip_header |-> None, form |-> form, bearer |-> None, subject |-> None]

Exchange(kid) == From("public", <<"token">>, Form("id_token", {"provider", "id_token"}, IdToken(kid)))
SignIns ==
    {Exchange("k2"), Exchange(""),
     [From("public", <<"token">>, Form("authorization_code", {"provider", "code", "redirect_uri"}, IdToken("k1")))
        EXCEPT !.via = "proxy", !.forged = <<"victim">>],
     From("public", <<"revoke">>, None), From("public", <<"nonce">>, None)}
Others ==
    {[From("public", <<"token">>, Form("refresh_token", {"refresh_token"}, None)) EXCEPT !.forged = <<"victim">>],
     From("public", <<"keys">>, None), From("public", <<".well-known", "openid-configuration">>, None),
     [From("public", <<"health">>, None) EXCEPT !.ip_header = "victim"],
     [From("public", <<"health">>, None) EXCEPT !.path = <<"authx", "health">>]}
Odd ==
    {[From("public", <<"token">>, [Form("authorization_code", {"provider", "code", "redirect_uri"}, IdToken(kid))
                                     EXCEPT !.provider = IF kid = None THEN "known" ELSE "unknown"])
        EXCEPT !.origin = "victim"] : kid \in {"k1", None}}
AllInternal ==
    {[From("internal", <<"internal", "users">>, None) EXCEPT !.bearer = [secret |-> "wrong"]],
     [From("internal", <<"internal", "stats">>, None) EXCEPT !.bearer = [secret |-> "right"], !.origin = "victim"]}

Proxied ==
    [runtime |-> "server", provider |-> Oidc, inputs |-> SignIns \cup AllInternal, max_arrivals |-> 2, max_time |-> 1,
     base_path |-> <<"auth">>, grants_id_token |-> TRUE,
     trusted_proxies |-> {"proxy"}, trusted_proxy_hops |-> 1, max_chain |-> 3,
     ip_header |-> TRUE, trust_headers_from_any_peer |-> TRUE,
     enforce |-> TRUE, degraded_after |-> 1, window |-> 1,
     budgets |-> [ClientAddr |-> 2, ClientAddrFailure |-> 1, Provider |-> 2, Subject |-> 1],
     max_entries |-> 2, max_concurrent_requests |-> 2,
     leeway |-> 0, max_operator_ttl |-> 2,
     lockout |-> [failure_window |-> 1, lockout |-> 1, max_failures |-> 1, max_tracked |-> 1],
     webhook_retries |-> 1, addresses |-> {"client", "victim", "proxy"},
     keys |-> [kind |-> "kms", algorithm |-> "ES256", kid |-> "own", material |-> "own"],
     issuer |-> "service", audience |-> "api", token_audience |-> "admin",
     required_claim |-> "tier", required_value |-> "operator", ttl |-> 1,
     templates |-> [plan |-> [path |-> <<"user", "metadata", "plan">>, text |-> None, default |-> "free"]],
     secret |-> [secret |-> "right"], methods |-> <<"shared_secret", "operator_token", "mtls">>]

(* Local keys, Apple, one request at a time, an audit sink that need not hold. *)
Direct ==
    [Proxied EXCEPT !.provider = Apple, !.trusted_proxies = {}, !.inputs = SignIns \cup Others \cup Odd, !.grants_id_token = FALSE,
                    !.enforce = FALSE, !.budgets.ClientAddr = 1,
                    !.max_concurrent_requests = 1, !.keys = [@ EXCEPT !.kind = "local", !.algorithm = "EdDSA"]]
(* The admin role: the internal listener only. *)
Operators == [Proxied EXCEPT !.inputs = AllInternal, !.max_arrivals = 3, !.max_time = 3,
                              !.methods = <<"operator_token", "mtls">>]
(* A Lambda function of the public plane, which may be told the client's       *)
(* address, and the admin plane in an embedding host, which is told none.      *)
Function ==
    [Proxied EXCEPT !.runtime = "lambda", !.trusted_proxies = {},
                    !.inputs = {[From("public", <<"nonce">>, None) EXCEPT !.runtime = "lambda", !.platform = "client"],
                                [From("public", <<"revoke">>, None) EXCEPT !.runtime = "lambda"]}]
Embedded ==
    [Operators EXCEPT !.runtime = "ffi", !.inputs = {[in EXCEPT !.runtime = "ffi"] : in \in AllInternal}]
AllDeployments == <<Proxied, Direct, Operators, Function, Embedded>>

(* Minted by the operators' own tool with the same key. *)
AllOperatorTokens ==
    {[alg |-> "ES256", kid |-> "own", typ |-> "JWT", sig |-> [by |-> "own", form |-> "raw"],
      claims |-> [iss |-> "service", aud |-> {"admin"}, exp |-> 2, sub |-> "operator", tier |-> "operator"]]}

(* The functions the actions are made of, on all their cases. *)
AllKeys ==
    {[kind |-> "local", algorithm |-> "EdDSA", kid |-> "own", material |-> "m"]}
    \cup [kind : {"kms"}, kid : {"own"}, material : {"m"},
          algorithm : {"RS256", "RS384", "RS512", "PS256", "PS384", "PS512", "ES256", "ES384", "ES512"}]

ASSUME KeysVerifyWhatTheySign ==
    \A k \in AllKeys :
        /\ verify(k, TRUE, sign(k))
        /\ local_from_file(k)
        /\ k.algorithm # "ES512" =>
               build_verification_key(public_jwk(k), {k.algorithm})
                   = [kid |-> "own", algorithm |-> k.algorithm, material |-> "m"]

ASSUME AlgorithmsComeFromTheKey ==
    \A kty \in {"RSA", "EC", "OKP", "oct"}, crv \in {None, "P-256", "P-384", "Ed25519"},
       alg \in {None, "RS256", "ES256", "ES384", "EdDSA", "HS256", "none"} :
        LET key == build_verification_key([kty |-> kty, crv |-> crv, alg |-> alg, use |-> "sig",
                                           key_ops |-> None, kid |-> "k", material |-> "m"],
                                          Oidc.admitted \cup {"ES384", "EdDSA"})
        IN  IF key = None THEN TRUE
            ELSE check_family(key.algorithm, kty, crv) /\ alg \in {None, key.algorithm}

ASSUME DiscoveryIsPinned ==
    LET From_(issuer, answer) == oidc_from_config([OidcConfig(None) EXCEPT !.issuer = issuer], answer, MaxBody, "Warn")
    IN  /\ From_(Https("idp"), Response(200, 1, TRUE)).ok
        /\ ~From_(Https("other"), Response(200, 1, TRUE)).ok
        /\ \A a \in {None, Response(200, MaxBody + 1, TRUE), Response(200, 1, FALSE), Response(500, 1, TRUE)} :
               ~From_(Https("idp"), a).ok /\ ~revoke_token(Https("idp"), None, MaxBody).ok
        /\ ~discover(Https("idp"), <<Https("idp")>>, Response(200, 1, TRUE), MaxBody, "Enforce").ok
        /\ revoke_token(None, None, MaxBody).ok

ASSUME RequestIdsAreAcceptable ==
    \A id \in {None, "", "too long", "bad characters", "abc"} :
        is_acceptable_request_id(request_id_layer([request_id |-> id]))

ASSUME RetryAfterIsPositive == \A l \in 0..3, e \in 0..4 : remaining_secs(l, e) \in 1..3

Symm == Permutations(Request)
=============================================================================
