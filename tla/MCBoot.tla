------------------------------- MODULE MCBoot -------------------------------
EXTENDS Boot

Https(h) == [https |-> TRUE, host |-> h]
Http(h) == [https |-> FALSE, host |-> h]
Key(alg) == [id |-> "k", algorithm |-> alg, kid |-> "kid"]
Provider == [issuer |-> Some(Https("idp")), client_id |-> Some("client")]
Empty == [sec \in DOMAIN Defaults |-> << >>]

(* A public exchange on SQLite, both planes on Postgres and Valkey, an     *)
(* admin server on DynamoDB.                                               *)
Public ==
    [provider |-> Provider,
     repository |-> [adapter |-> "sqlite", sqlite |-> Some("db")],
     key_manager |-> [adapter |-> "local", local |-> Some(Key("EdDSA"))]] @@ Empty
Both ==
    [server |-> [role |-> "all"], provider |-> Provider,
     repository |-> [adapter |-> "postgres", postgres |-> Some("url")],
     session_repository |-> [adapter |-> Some("valkey"), valkey |-> Some("url")],
     key_manager |-> [adapter |-> "kms", kms |-> Some(Key("ES256"))],
     internal_api |-> [enabled |-> TRUE, auth_methods |-> <<"shared_secret", "operator_token">>,
                       shared_secret |-> "${SECRET}"]] @@ Empty
Admin ==
    [server |-> [role |-> "admin"],
     repository |-> [adapter |-> "dynamodb", dynamodb |-> Some("table")],
     internal_api |-> [enabled |-> TRUE, auth_methods |-> <<"mtls">>]] @@ Empty
AllDeployments == {Public, Both, Admin}

AllAlternatives ==
    [server |-> [role |-> {"", "all", "admin", "owner"}, port |-> {8081},
                 host |-> {"127.0.0.1"}, issuer |-> {Http("auth")},
                 request_timeout |-> {Dur(0, "s"), Dur(2, "h")},
                 base_path |-> {Some(<<"/">>), Some(<<"/", "a", "/">>), Some(<<"a">>)},
                 trusted_proxy_hops |-> {0, 16, 17}],
     location |-> [city_header |-> {"X-Geo"}, ip_header |-> {"x-geo", "not a token"},
                   trust_any_peer |-> {TRUE}],
     registration |-> [mode |-> {"closed"},
                       domain_allowlist |-> {Some({[ascii |-> TRUE, dots |-> 0, slash |-> FALSE]})}],
     token |-> [access_token_ttl |-> {Dur(2000, "d"), Dur(-1, "s")},
                audience |-> {"internal", "", "${UNSET}"}, custom_claims |-> {{"role"}, {"sub"}},
                refresh_rotation |-> {FALSE},
                refresh_rotation_grace |-> {Dur(60, "s"), Dur(61, "s")},
                refresh_reuse_retention |-> {Dur(0, "s")}],
     grants |-> [id_token |-> {TRUE}, nonce_ttl |-> {Dur(5, "x")}],
     audit |-> [adapter |-> {"sqs", "syslog"}, blocking_threshold |-> {"loud"},
                durability |-> {"enforce"}, sqs_queue |-> {Some("q")}],
     key_manager |-> [adapter |-> {"local", "oidc"}, local |-> {Some(Key("RS256"))},
                      kms |-> {Some(Key("RS256"))}],
     repository |-> [adapter |-> {"postgres", "valkey"}, postgres |-> {Some("url")},
                    run_migrations |-> {Some(FALSE)}],
     session_repository |-> [adapter |-> {Some("lmdb")}, lmdb |-> {Some("path"), Some("")},
                             cleanup_interval |-> {Dur(31, "d"), Dur(0, "h")}],
     rate_limit |-> [enabled |-> {FALSE}, store |-> {"none"}, window |-> {Dur(2, "d")},
                     max_entries |-> {0}, max_concurrent_requests |-> {4097},
                     budget |-> {1000001}],
     user_sync |-> [enabled |-> {TRUE}, adapter |-> {Some("webhook")},
                    webhook_url |-> {Some(Http("hook"))}],
     telemetry |-> [exporter |-> {"jaeger"}],
     internal_api |-> [enabled |-> {FALSE, TRUE}, host |-> {"0.0.0.0", "::"}, port |-> {8080},
                       auth_methods |-> {<< >>, <<"oidc">>, <<"mtls", "mtls">>,
                                         <<"shared_secret">>},
                       shared_secret |-> {"s31", "s32", "${UNSET}", "${EMPTY}", "$${SECRET}"},
                       token_audience |-> {"api"}, required_value |-> {""},
                       subject_header |-> {""}, max_auth_failures |-> {0},
                       stats_cache_ttl |-> {Dur(2, "h")}],
     provider |-> [adapter |-> {"apple", "saml"}, issuer |-> {Absent, Some(Http("idp"))},
                   client_id |-> {Absent}, email_verified_claim |-> {Some(0), Some(64), Some(65)},
                   trust_email_verified |-> {Some(TRUE)},
                   endpoint_origins |-> {<<Http("idp")>>}]]

Vars == [SECRET |-> "s32", EMPTY |-> ""]
=============================================================================
