--------------------------- MODULE IdentityProviders ---------------------------
(***************************************************************************)
(* Upstream identity providers: the bounded HTTP transport, discovery and  *)
(* the pinned endpoint origins, the parsing of a JWKS document, and the    *)
(* validation of an ID token by the OIDC and the Apple provider.  All of   *)
(* it is functions of what the provider sent; the state is in Jwks.        *)
(*                                                                         *)
(* A URL is a record of its scheme, host and port and whether it has a     *)
(* path, a query or a fragment; None is a string that is no URL.  A key of *)
(* a document and a token are records of the fields the code reads, with   *)
(* None for an absent one; a signature is the key material that made it.   *)
(***************************************************************************)
EXTENDS Integers, Sequences, SequencesExt, FiniteSetsExt

CONSTANT None

\* origins.rs: MAX_ENDPOINT_ORIGINS.
MAX_ENDPOINT_ORIGINS == 16

Ok(v) == [ok |-> TRUE, val |-> v, err |-> ""]
Err(e) == [ok |-> FALSE, val |-> None, err |-> e]

-----------------------------------------------------------------------------
(* Transport.  An answer is None (no connection, the connect or the        *)
(* request timeout, a redirect is not followed) or a record of its status, *)
(* its size (declared and read) and its body, a record of the fields read  *)
(* from it and of whether it is JSON at all.                               *)

\* The body of a success is refused when it is too large ...
read_bounded_bytes(a, max) ==
    IF (a.declared # None /\ a.declared > max) \/ a.size > max THEN Err("ProviderError") ELSE Ok(a.body)

\* ... that of an error is cut: it only feeds the error's detail.
read_bounded(a, max) == [size |-> IF a.size > max THEN max ELSE a.size, cut |-> a.size > max]

is_success(a) == a.status \in 200..299

collect(a, max) == IF is_success(a) THEN read_bounded_bytes(a, max) ELSE Ok(read_bounded(a, max))

get_json(a, max) == IF a = None THEN Err("ProviderError") ELSE collect(a, max)

parsed(a, max) ==
    LET c == get_json(a, max)
    IN  IF ~c.ok THEN c
        ELSE IF ~is_success(a) THEN Err("ProviderError")
        ELSE IF ~c.val.json THEN Err("ProviderError") ELSE c

\* token_endpoint.rs: exchange_code.
exchange_code(a, max) ==
    LET c == parsed(a, max)
    IN  IF ~c.ok THEN c
        ELSE IF c.val.id_token \in {None, ""} THEN Err("ProviderError") ELSE c

\* revoke_token: without an endpoint there is nothing to do.
revoke_token(endpoint, a, max) ==
    IF endpoint = None THEN Ok(None)
    ELSE LET c == get_json(a, max)
         IN  IF ~c.ok THEN c ELSE IF is_success(a) THEN Ok(None) ELSE Err("ProviderError")

-----------------------------------------------------------------------------
(* Endpoint origins and discovery. *)

origin_of(url) == IF url = None THEN None ELSE [scheme |-> url.scheme, host |-> url.host, port |-> url.port]

parse_https_origin(url) == url # None /\ url.scheme = "https" /\ url.bare

\* EndpointOrigins::from_parts: the issuer's origin, the configured endpoints',
\* the declared ones', each once; past the maximum the rest is left out.
from_parts(issuer, endpoints, extras) ==
    FoldLeft(LAMBDA seen, url :
                 IF url = None \/ Len(seen) >= MAX_ENDPOINT_ORIGINS \/ Contains(seen, origin_of(url))
                 THEN seen ELSE Append(seen, origin_of(url)),
             << >>, <<issuer>> \o endpoints \o extras)

admits(origins, url) == url # None /\ Contains(origins, origin_of(url))

\* ENDPOINT_ORIGIN_CHECK_MODE is Warn: a foreign origin is logged and let pass.
check_pinned_origin(origins, url, mode) == admits(origins, url) \/ mode = "Warn"

discover(issuer, origins, a, max, mode) ==
    LET c == parsed(a, max)
        endpoints == {c.val.token_endpoint, c.val.jwks_uri} \cup ({c.val.revocation_endpoint} \ {None})
    IN  IF ~c.ok THEN c
        ELSE IF c.val.issuer # issuer THEN Err("ProviderError")
        ELSE IF \E url \in endpoints : ~check_pinned_origin(origins, url, mode) THEN Err("ProviderError")
        ELSE IF \E url \in endpoints : url = None THEN Err("ConfigError")
        ELSE IF \E url \in endpoints : url.scheme # "https" THEN Err("ConfigError")
        ELSE c

Configured(cfg, e) == IF cfg[e] = None THEN << >> ELSE <<cfg[e]>>

\* OidcProvider::from_config: discovery only for what is not configured.
oidc_from_config(cfg, a, max, mode) ==
    LET origins == from_parts(cfg.issuer, Configured(cfg, "token_endpoint") \o Configured(cfg, "jwks_uri")
                                          \o Configured(cfg, "revocation_endpoint"), cfg.endpoint_origins)
        needed == cfg.token_endpoint = None \/ cfg.jwks_uri = None
        d == discover(cfg.issuer, origins, a, max, mode)
        Or(e) == IF cfg[e] # None THEN cfg[e] ELSE IF needed THEN d.val[e] ELSE None
    IN  IF \E i \in DOMAIN cfg.endpoint_origins : ~parse_https_origin(cfg.endpoint_origins[i])
        THEN Err("ConfigError")
        ELSE IF needed /\ ~d.ok THEN d
        ELSE Ok([kind |-> "oidc", issuer |-> cfg.issuer, client_id |-> cfg.client_id,
                 admitted |-> {"RS256", "RS384", "RS512", "PS256", "PS384", "PS512", "ES256", "ES384", "EdDSA"},
                 jwks_uri |-> Or("jwks_uri"), revocation_endpoint |-> Or("revocation_endpoint"),
                 email_verification |-> cfg.email_verification])

\* AppleProvider::from_config: constants for what is not configured, no discovery.
APPLE_ISSUER == [scheme |-> "https", host |-> "appleid.apple.com", port |-> None, bare |-> TRUE]
APPLE_ENDPOINT == [APPLE_ISSUER EXCEPT !.bare = FALSE]

parse_declared_endpoint_origins(extras) == \A i \in DOMAIN extras : parse_https_origin(extras[i])

apple_from_config(cfg) ==
    LET endpoint(e) == IF cfg[e] = None THEN APPLE_ENDPOINT ELSE cfg[e]
    IN  IF \E e \in {"client_id", "team_id", "key_id", "private_key"} : cfg[e] = None THEN Err("ConfigError")
        ELSE IF \E e \in {"token_endpoint", "jwks_uri", "revocation_endpoint"} : endpoint(e).scheme # "https"
        THEN Err("ConfigError")
        ELSE IF ~parse_declared_endpoint_origins(cfg.endpoint_origins) THEN Err("ConfigError")
        ELSE Ok([kind |-> "apple", issuer |-> APPLE_ISSUER, client_id |-> cfg.client_id,
                 admitted |-> {"RS256", "ES256"}, jwks_uri |-> endpoint("jwks_uri"),
                 revocation_endpoint |-> endpoint("revocation_endpoint"), email_verification |-> "Standard"])

-----------------------------------------------------------------------------
(* JWKS documents. *)

parse_algorithm(declared) ==
    IF declared \in {"RS256", "RS384", "RS512", "PS256", "PS384", "PS512",
                     "ES256", "ES384", "EdDSA", "HS256", "HS384", "HS512"} THEN declared ELSE None

check_family(alg, kty, crv) ==
    \/ alg \in {"RS256", "RS384", "RS512", "PS256", "PS384", "PS512"} /\ kty = "RSA"
    \/ alg = "ES256" /\ kty = "EC" /\ crv = "P-256"
    \/ alg = "ES384" /\ kty = "EC" /\ crv = "P-384"
    \/ alg = "EdDSA" /\ kty = "OKP" /\ crv = "Ed25519"

infer_algorithm(kty, crv) ==
    CASE kty = "RSA" -> "RS256"
      [] kty = "EC" /\ crv = "P-256" -> "ES256"
      [] kty = "EC" /\ crv = "P-384" -> "ES384"
      [] kty = "OKP" /\ crv = "Ed25519" -> "EdDSA"
      [] OTHER -> None

\* The algorithm a key is used with, never taken from a token.
CandidateAlgorithm(jwk) ==
    IF jwk.alg = None THEN infer_algorithm(jwk.kty, jwk.crv)
    ELSE LET alg == parse_algorithm(jwk.alg)
         IN  IF alg # None /\ check_family(alg, jwk.kty, jwk.crv) THEN alg ELSE None

\* A key that may not verify is passed over.
build_verification_key(jwk, admitted) ==
    IF /\ jwk.use \in {None, "sig"}
       /\ jwk.key_ops = None \/ jwk.key_ops = "verify"
       /\ jwk.kty \notin {None, "oct"}
       /\ CandidateAlgorithm(jwk) \in admitted
       /\ jwk.kid \notin {None, ""}
       /\ jwk.material # None
    THEN [kid |-> jwk.kid, algorithm |-> CandidateAlgorithm(jwk), material |-> jwk.material]
    ELSE None

\* VerificationKeySet::from_jwks: two eligible keys of one kid refuse the document.
from_jwks(doc, admitted) ==
    LET eligible == {i \in DOMAIN doc.keys : build_verification_key(doc.keys[i], admitted) # None}
    IN  IF doc.keys = None THEN Err("ProviderError")
        ELSE IF \E i, j \in eligible : i # j /\ doc.keys[i].kid = doc.keys[j].kid THEN Err("ProviderError")
        ELSE Ok({build_verification_key(doc.keys[i], admitted) : i \in eligible})

\* VerificationKeySet::get
KeyOf(set, kid) == IF \E k \in set : k.kid = kid THEN CHOOSE k \in set : k.kid = kid ELSE None

-----------------------------------------------------------------------------
(* ID tokens. *)

\* A JSON boolean, or the string that spells one.
coerce_bool(v) ==
    IF v \in {"true", "the string true"} THEN "true"
    ELSE IF v \in {"false", "the string false"} THEN "false" ELSE None

derive_email_verified(mode, claims) ==
    LET explicit == coerce_bool(claims.email_verified)
    IN  IF explicit # None THEN explicit
        ELSE CASE mode = "Standard" -> None
               [] mode = "Claim" -> coerce_bool(claims.custom_verified)
               [] mode = "TrustEmail" -> IF claims.email \in {None, ""} THEN None ELSE "true"

\* jsonwebtoken: decode with the key's algorithm, the issuer, the client as the
\* audience, exp, iss and aud required, nbf honoured, sixty seconds of leeway.
decode(token, key, issuer, client_id, at, leeway) ==
    /\ token.alg = key.algorithm
    /\ token.signed_with = key.material
    /\ token.iss = issuer
    /\ client_id \in token.aud
    /\ token.exp # None
    /\ token.exp >= at - leeway
    /\ token.nbf = None \/ token.nbf <= at + leeway

\* What follows the lookup of the key in validate_id_token.
validate_id_token_oidc(token, key, p, at, leeway) ==
    IF ~decode(token, key, p.issuer, p.client_id, at, leeway) \/ token.sub \in {None, ""}
    THEN Err("InvalidGrant")
    ELSE Ok([subject |-> token.sub, email_verified |-> derive_email_verified(p.email_verification, token),
             signing_alg |-> key.algorithm])
validate_id_token_apple(token, key, p, at, leeway) ==
    IF ~decode(token, key, APPLE_ISSUER, p.client_id, at, leeway) \/ token.sub \in {None, ""}
    THEN Err("InvalidGrant")
    ELSE Ok([subject |-> token.sub, email_verified |-> coerce_bool(token.email_verified),
             signing_alg |-> key.algorithm])
=============================================================================
