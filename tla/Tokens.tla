--------------------------------- MODULE Tokens --------------------------------
(***************************************************************************)
(* The service's own tokens: the key managers that sign and verify them    *)
(* (local Ed25519, KMS), access tokens with their custom claims, and the   *)
(* credentials of operators.  Functions only.                              *)
(*                                                                         *)
(* A token is a record of its header fields, its signature (the material   *)
(* that made it and the form it is in) and its claims, a function of their *)
(* names; aud is the set of audiences.  None is an absent claim.           *)
(***************************************************************************)
EXTENDS IdentityProviders, TLC

Claim(token, name) == IF name \in DOMAIN token.claims THEN token.claims[name] ELSE None

-----------------------------------------------------------------------------
(* Key managers: [kind, algorithm, kid, material]. *)

\* LocalKeyManager::from_pem, from_file.
local_from_file(k) == k.kind = "local" => k.material # None /\ k.algorithm = "EdDSA"

\* The specification KMS is asked to sign with.
signing_algorithm(alg) ==
    CASE alg = "RS256" -> "RsassaPkcs1V15Sha256" [] alg = "RS384" -> "RsassaPkcs1V15Sha384"
      [] alg = "RS512" -> "RsassaPkcs1V15Sha512" [] alg = "PS256" -> "RsassaPssSha256"
      [] alg = "PS384" -> "RsassaPssSha384" [] alg = "PS512" -> "RsassaPssSha512"
      [] alg = "ES256" -> "EcdsaSha256" [] alg = "ES384" -> "EcdsaSha384" [] alg = "ES512" -> "EcdsaSha512"

IsEcdsa(alg) == signing_algorithm(alg) \in {"EcdsaSha256", "EcdsaSha384", "EcdsaSha512"}

\* KMS answers ECDSA signatures in DER; a JWS holds the two numbers, padded.
der_to_raw_ecdsa(sig) == [sig EXCEPT !.form = "raw"]
signature_to_jws_form(alg, sig) == IF IsEcdsa(alg) THEN der_to_raw_ecdsa(sig) ELSE sig

KmsSignature(k) == [by |-> k.material, form |-> IF IsEcdsa(k.algorithm) THEN "der" ELSE "raw"]

kms_sign(k) == signature_to_jws_form(k.algorithm, KmsSignature(k))
local_sign(k) == [by |-> k.material, form |-> "raw"]
sign(k) == IF k.kind = "kms" THEN kms_sign(k) ELSE local_sign(k)

\* parse_spki_to_jwk and public_jwk: what GET /keys publishes.
parse_spki_to_jwk(k) ==
    [kty |-> IF IsEcdsa(k.algorithm) THEN "EC" ELSE "RSA",
     crv |-> CASE k.algorithm = "ES256" -> "P-256" [] k.algorithm = "ES384" -> "P-384"
               [] k.algorithm = "ES512" -> "P-521" [] OTHER -> None,
     alg |-> k.algorithm, use |-> "sig", key_ops |-> None, kid |-> k.kid, material |-> k.material]
local_public_jwk(k) ==
    [kty |-> "OKP", crv |-> "Ed25519", alg |-> k.algorithm, use |-> "sig", key_ops |-> None,
     kid |-> k.kid, material |-> k.material]
public_jwk(k) == IF k.kind = "kms" THEN parse_spki_to_jwk(k) ELSE local_public_jwk(k)

\* verify_locally: the public key decides, a signature of another shape does not parse.
verify_locally(k, sig) == sig.form = "raw" /\ sig.by = k.material
local_verify(k, sig) == sig.form = "raw" /\ sig.by = k.material

\* verify: TRUE, FALSE or an error; KMS needs the public key, kept once fetched.
verify(k, public_key, sig) ==
    IF k.kind = "local" THEN local_verify(k, sig) ELSE public_key /\ verify_locally(k, sig)

-----------------------------------------------------------------------------
(* Custom claims. *)

RESERVED_CLAIMS ==
    {"iss", "sub", "aud", "exp", "nbf", "iat", "jti", "acr", "amr", "at_hash", "auth_time", "azp",
     "c_hash", "cnf", "nonce", "sid", "typ", "client_id", "scope", "scp", "roles", "groups",
     "entitlements", "permissions"}

\* (Mistake: only configured templates are filtered, a user's claims are trusted.)
NothingReserved(name) == FALSE

is_reserved_claim(name) == name \in RESERVED_CLAIMS

\* A template is a text, or a path into the user with an optional default.
resolve_field(path, user) ==
    IF Len(path) < 2 \/ path[1] # "user" THEN None
    ELSE CASE path[2] \in {"id", "email", "display_name", "provider", "external_id"} -> user[path[2]]
           [] path[2] = "metadata" /\ Len(path) > 2 ->
                  IF path[3] \in DOMAIN user.metadata THEN user.metadata[path[3]] ELSE None
           [] path[2] = "claims" /\ Len(path) > 2 ->
                  IF ~is_reserved_claim(path[3]) /\ path[3] \in DOMAIN user.claims
                  THEN user.claims[path[3]] ELSE None
           [] OTHER -> None

\* {{ path | default: 'x' }}
parse_default_filter(template) == template.default

resolve_template(template, user) ==
    IF template.path = None THEN template.text
    ELSE IF resolve_field(template.path, user) # None THEN resolve_field(template.path, user)
    ELSE parse_default_filter(template)

\* The user's own claims over the configured ones; reserved names never.
resolve_custom_claims(templates, user) ==
    LET configured == {n \in DOMAIN templates :
                           ~is_reserved_claim(n) /\ resolve_template(templates[n], user) # None}
        own == {n \in DOMAIN user.claims : ~is_reserved_claim(n)}
    IN  [n \in own \cup configured |->
             IF n \in own THEN user.claims[n] ELSE resolve_template(templates[n], user)]

-----------------------------------------------------------------------------
(* Access tokens.  cfg: issuer, audience, token_audience, required_claim,   *)
(* required_value, ttl, templates, secret, methods (of the gate, in order). *)

\* build_access_token; a custom claim, serialised last, would win over a registered one.
build_access_token(k, cfg, user, family_id, at) ==
    LET custom == resolve_custom_claims(cfg.templates, user)
        registered == [sub |-> user.id, iss |-> cfg.issuer, aud |-> {cfg.audience}, sid |-> family_id,
                       iat |-> at, exp |-> at + cfg.ttl]
    IN  [alg |-> k.algorithm, kid |-> k.kid, typ |-> "at+jwt", sig |-> sign(k),
         claims |-> [n \in DOMAIN custom \cup DOMAIN registered |->
                         IF n \in DOMAIN custom THEN custom[n] ELSE registered[n]]]

pin_access_token_header(k, token) ==
    token.alg = k.algorithm /\ token.kid = k.kid /\ token.typ = "at+jwt"

check_claims(cfg, token, at, skew) ==
    /\ Claim(token, "iss") = cfg.issuer
    /\ Claim(token, "aud") = {cfg.audience}
    /\ Claim(token, "exp") # None /\ at <= Claim(token, "exp") + skew
    /\ Claim(token, "iat") # None /\ Claim(token, "iat") <= at + skew
    /\ Claim(token, "nbf") # None => Claim(token, "nbf") <= at + skew
    /\ Claim(token, "sub") \notin {None, ""}
    /\ Claim(token, "sid") \notin {None, ""}

\* split_jws_segments: anything else is no token.
split_jws_segments(token) == token # None /\ "claims" \in DOMAIN token

validate_access_token(k, public_key, cfg, token, at, skew) ==
    /\ split_jws_segments(token)
    /\ pin_access_token_header(k, token)
    /\ verify(k, public_key, token.sig)
    /\ check_claims(cfg, token, at, skew)

-----------------------------------------------------------------------------
(* Operators: each mechanism answers a principal, "Missing" or "Invalid".   *)
(* An input is [bearer, subject]: a secret or a token, and the mTLS header. *)

Principal(id, mechanism) == [id |-> id, mechanism |-> mechanism]

\* OperatorPrincipal::assert_invariants
principal_ok(p) == p.id # "" /\ (p.mechanism # "SharedSecret") = (p.id # "unattributed")

IsToken(bearer) == bearer # None /\ "claims" \in DOMAIN bearer

SharedSecret(cfg, in) ==
    IF in.bearer = None THEN "Missing"
    ELSE IF in.bearer = cfg.secret THEN "principal" ELSE "Invalid"

AudienceMatches(cfg, token) == Claim(token, "aud") # None /\ cfg.token_audience \in Claim(token, "aud")

\* OperatorTokenAuthenticator::authenticate.  The header's type is not looked at.
OperatorToken(k, public_key, cfg, in, at, leeway, max_ttl) ==
    IF in.bearer = None THEN "Missing"
    ELSE IF /\ IsToken(in.bearer)
            /\ in.bearer.alg = k.algorithm
            /\ verify(k, public_key, in.bearer.sig)
            /\ Claim(in.bearer, "iss") = cfg.issuer
            /\ AudienceMatches(cfg, in.bearer)
            /\ Claim(in.bearer, "exp") # None
            /\ at < Claim(in.bearer, "exp") + leeway
            /\ Claim(in.bearer, "exp") <= at + max_ttl + leeway
            /\ Claim(in.bearer, cfg.required_claim) = cfg.required_value
            /\ Claim(in.bearer, "sub") \notin {None, ""}
    THEN "principal" ELSE "Invalid"

MtlsSubject(in) ==
    IF in.subject = None THEN "Missing" ELSE IF in.subject \in {"", "too long"} THEN "Invalid" ELSE "principal"

PrincipalOf(method, in) ==
    CASE method = "shared_secret" -> Principal("unattributed", "SharedSecret")
      [] method = "operator_token" -> Principal(Claim(in.bearer, "sub"), "OperatorToken")
      [] method = "mtls" -> Principal(in.subject, "MutualTls")

\* OperatorAuthGate::authenticate: the first mechanism that knows the caller.  A
\* principal that breaks its invariant trips the assertion.
GateAnswer(k, public_key, cfg, in, at, leeway, max_ttl) ==
    LET answer(m) == CASE m = "shared_secret" -> SharedSecret(cfg, in)
                       [] m = "operator_token" -> OperatorToken(k, public_key, cfg, in, at, leeway, max_ttl)
                       [] m = "mtls" -> MtlsSubject(in)
        answers == {answer(cfg.methods[i]) : i \in DOMAIN cfg.methods}
        first == SelectInSeq(cfg.methods, LAMBDA m : answer(m) = "principal")
    IN  IF first # 0
        THEN IF principal_ok(PrincipalOf(cfg.methods[first], in))
             THEN PrincipalOf(cfg.methods[first], in) ELSE Principal("", "panic")
        ELSE Principal("", IF "Invalid" \in answers THEN "Invalid" ELSE "Missing")
=============================================================================
