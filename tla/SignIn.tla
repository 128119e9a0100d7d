--------------------------------- MODULE SignIn --------------------------------
(***************************************************************************)
(* Token exchange (core/src/service/exchange.rs with assertion.rs):        *)
(* concurrent requests that redeem identity assertions for a session, from *)
(* the provider's validation to the terminal audit record, over the        *)
(* single-use records of SingleUse.  A step ends where the next one looks  *)
(* at shared state; any await may fail.                                    *)
(*                                                                         *)
(* One person signs in: every assertion names the same subject.  An        *)
(* assertion carries the nonce minted for it.  Requests come over the      *)
(* direct grant (the client presents the assertion) or the code grant (the *)
(* provider returns it for a code; a provider that answers a repeated code *)
(* again is allowed).                                                      *)
(***************************************************************************)
EXTENDS SingleUse, FiniteSets

CONSTANTS
    Request,       \* exchanges; each request runs once
    Assertion,     \* identity assertions
    Claim,         \* the claims of each assertion, as IdentityClaims
    Unwelcome,     \* assertions the registration policy refuses
    NonceTtl,      \* grants.nonce_ttl, in ticks
    MaxLifetime,   \* grants.max_assertion_lifetime, in ticks
    Leeway,        \* how long after exp a validator accepts, in ticks
    MaxUsers,      \* bound on registrations
    MaxTime,       \* bound on the clock, in ticks
    Exp,           \* the expiries a provider gives, in ticks
    EarlyError,    \* the early refusals looked at
    Deployment     \* the stores and configurations looked at

VARIABLES
    config,    \* registration.mode and audit.durability
    issued,    \* exp of each assertion, or None
    minted,    \* assertions whose nonce was minted
    account,   \* the standing user of the subject, or None
    users,     \* users registered so far
    deleted,   \* whether an operator ever deleted the user (history)
    session,   \* the user of the live session a request stored, or None
    request    \* the requests

signInVars == <<store, now, record, config, issued, minted, account, users, deleted, session,
                request>>

NonceKey(a) == <<"nonce", a>>
MarkerKey(a) == <<"assertion", a>>

Grant == {"direct", "code"}
Mode == {"Open", "ExistingUsersOnly"}

\* What the binding looks at in an assertion: azp (this client, another, absent), whether
\* aud lists several clients, the algorithm it is signed with, and at_hash (of the access
\* token issued with it, of another one, absent).
IdentityClaims ==
    [azp : {"this", "other", None}, many_aud : BOOLEAN,
     signing_alg : {"RS256", "ES384", "PS512", "EdDSA", "ES256K"},
     at_hash : {"match", "differ", None}]

ASSUME SignInAssumption ==
    /\ Key = {"nonce", "assertion"} \X Assertion
    /\ Claim \in [Assertion -> IdentityClaims] /\ Unwelcome \subseteq Assertion
    /\ {NonceTtl, MaxLifetime, Leeway, MaxUsers, MaxTime} \subseteq Nat
    /\ None \notin Assertion
    /\ None \notin {"KeyError", "Vanished"}
    /\ None \notin [id : Nat, status : {"Active", "Suspended"}]
    /\ \A e \in Exp : e \in 1..MaxTime /\ e % 2 = 0
    /\ EarlyError \subseteq {"Refused", "TooManyRequests", "ProviderError"}
    /\ Deployment \subseteq [store : Store, mode : Mode, enforce : BOOLEAN]

Fresh == [pc |-> "fresh", grant |-> None, a |-> None, user |-> None, claimed |-> None,
          result |-> None, event |-> None, answer |-> None]

Go(r, q) == request' = [request EXCEPT ![r] = q]
Goto(r, pc) == Go(r, [request[r] EXCEPT !.pc = pc])

\* exchange_inner returns e, or "ok".
Return(r, e) == Go(r, [request[r] EXCEPT !.pc = "audit", !.result = e])

-----------------------------------------------------------------------------
(* The world: nonces, the provider, the clock, operators. *)

mint_nonce(a) ==
    /\ a \notin minted /\ issued[a] = None
    /\ PutOutcome(NonceKey(a), now + NonceTtl) = "claimed"
    /\ put_single_use(NonceKey(a), now + NonceTtl)
    /\ minted' = minted \cup {a}
    /\ UNCHANGED <<store, now, config, issued, account, users, deleted, session, request>>

\* The provider signs an assertion; exp is in whole seconds.
IssueAssertion(a, exp) ==
    /\ issued[a] = None
    /\ exp > now
    /\ issued' = [issued EXCEPT ![a] = exp]
    /\ UNCHANGED <<store, now, record, config, minted, account, users, deleted, session, request>>

Tick ==
    /\ now < MaxTime
    /\ now' = now + 1
    /\ UNCHANGED <<store, record, config, issued, minted, account, users, deleted, session, request>>

SweepRecord(k) ==
    /\ Reap(k)
    /\ UNCHANGED <<config, issued, minted, account, users, deleted, session, request>>

\* user_admin.rs (TokenService has the races of these with stored sessions).
SuspendUser ==
    /\ account # None
    /\ account' = [account EXCEPT !.status = "Suspended"]
    /\ session' = [r \in Request |-> IF session[r] = account.id THEN None ELSE session[r]]
    /\ UNCHANGED <<store, now, record, config, issued, minted, users, deleted, request>>

DeleteUser ==
    /\ account # None
    /\ account' = None
    /\ deleted' = TRUE
    /\ session' = [r \in Request |-> IF session[r] = account.id THEN None ELSE session[r]]
    /\ UNCHANGED <<store, now, record, config, issued, minted, users, request>>

-----------------------------------------------------------------------------
(* exchange_inner. *)

\* A request that gets no further than its provider: unknown provider, a limiter's
\* refusal, a failed code exchange, an invalid token.
RefuseEarly(r, g, a, e) ==
    /\ request[r].pc = "fresh"
    /\ Go(r, [Fresh EXCEPT !.pc = "audit", !.grant = g, !.a = a, !.result = e])
    /\ UNCHANGED <<store, now, record, config, issued, minted, account, users, deleted, session>>

\* 0 < exp - now.timestamp() <= max_assertion_secs
check_lifetime(a) ==
    /\ issued[a] > WholeSeconds(now)
    /\ issued[a] - WholeSeconds(now) <= MaxLifetime

check_azp(a) ==
    \/ Claim[a].azp = "this"
    \/ Claim[a].azp = None /\ ~Claim[a].many_aud

\* The half digest of the access token, by the last digits of the algorithm's name; it
\* equals the one claimed or not.  None: no digest for this algorithm.
at_hash_value(a) ==
    IF Claim[a].signing_alg \in {"RS256", "ES384", "PS512"} THEN "match" ELSE None

\* An at_hash without an access token beside it is not looked at, except that EdDSA's is
\* always refused.
check_at_hash(a, with_token) ==
    \/ Claim[a].at_hash = None
    \/ /\ Claim[a].signing_alg # "EdDSA"
       /\ with_token => at_hash_value(a) # None /\ at_hash_value(a) = Claim[a].at_hash

\* Provider found, both limits consumed (or the limiter down), the assertion valid, and
\* the controls of bind that need no store.  The clock is read here, and not again.  An
\* access token may come with the assertion on either grant.
Bind(r, g, a, with_token) ==
    /\ request[r].pc = "fresh"
    /\ issued[a] # None
    /\ now <= issued[a] + Leeway
    /\ Go(r, IF check_lifetime(a) /\ check_azp(a) /\ check_at_hash(a, with_token)
             THEN [Fresh EXCEPT !.pc = IF g = "direct" THEN "nonce" ELSE "marker",
                                !.grant = g, !.a = a]
             ELSE [Fresh EXCEPT !.pc = "audit", !.grant = g, !.a = a, !.result = "Binding"])
    /\ UNCHANGED <<store, now, record, config, issued, minted, account, users, deleted, session>>

\* (Mistake: the nonce is looked up and left in place.)
NonceSeen(r) ==
    LET k == NonceKey(request[r].a)
    IN  /\ request[r].pc = "nonce"
        /\ IF Taken(k) THEN Goto(r, "marker") ELSE Return(r, "Binding")
        /\ UNCHANGED <<store, now, record, config, issued, minted, account, users, deleted, session>>

consume_nonce(r) ==
    LET k == NonceKey(request[r].a)
    IN  /\ request[r].pc = "nonce"
        /\ take_single_use(k)
        /\ IF Taken(k) THEN Goto(r, "marker") ELSE Return(r, "Binding")
        /\ UNCHANGED <<store, now, config, issued, minted, account, users, deleted, session>>

\* A record already there is a refusal of the assertion; anything else is the store's.
enforce_assertion_binding(out) == IF out = "held" THEN "Binding" ELSE "StoreError"

\* The marker expires with the assertion.
claim_assertion_marker(r) ==
    LET k   == MarkerKey(request[r].a)
        out == PutOutcome(k, issued[request[r].a])
    IN  /\ request[r].pc = "marker"
        /\ \/ /\ out = "claimed"
              /\ put_single_use(k, issued[request[r].a])
              /\ Go(r, [request[r] EXCEPT !.pc = "lookup", !.claimed = now])
           \/ /\ out # "claimed"
              /\ Return(r, enforce_assertion_binding(out))
              /\ UNCHANGED record
        /\ UNCHANGED <<store, now, config, issued, minted, account, users, deleted, session>>

\* registration_policy_reason
PolicyAdmits(a) == a \notin Unwelcome

\* The found-user branch, of both lookups.
Found_user(r) ==
    IF account.status # "Active" THEN Return(r, "UserSuspended")
    ELSE IF ~PolicyAdmits(request[r].a) THEN Return(r, "AccessDenied")
    ELSE Go(r, [request[r] EXCEPT !.pc = "store", !.user = account.id])

LookupUser(r) ==
    /\ request[r].pc = "lookup"
    /\ IF account # None THEN Found_user(r)
       ELSE IF PolicyAdmits(request[r].a) /\ config.mode = "Open" THEN Goto(r, "create")
       ELSE Return(r, "AccessDenied")
    /\ UNCHANGED <<store, now, record, config, issued, minted, account, users, deleted, session>>

\* PrincipalCreated goes through the mandatory path (sunk: the sink takes it);
\* notify_user_created is best effort.
Created(r, sunk) ==
    /\ account' = [id |-> users + 1, status |-> "Active"]
    /\ users' = users + 1
    /\ Go(r, IF sunk \/ ~config.enforce
             THEN [request[r] EXCEPT !.pc = "store", !.user = users + 1]
             ELSE [request[r] EXCEPT !.pc = "audit", !.result = "Audit"])

\* (Mistake: a lost race is reported as a failure of the store.)
CreateOrFail(r, sunk) ==
    /\ request[r].pc = "create"
    /\ users < MaxUsers
    /\ IF account = None THEN Created(r, sunk)
       ELSE Return(r, "Vanished") /\ UNCHANGED <<account, users>>
    /\ UNCHANGED <<store, now, record, config, issued, minted, deleted, session>>

\* create_user: made, or Conflict (UserStores has the stores' side of this).
CreateUser(r, sunk) ==
    /\ request[r].pc = "create"
    /\ users < MaxUsers
    /\ IF account = None THEN Created(r, sunk)
       ELSE Goto(r, "relookup") /\ UNCHANGED <<account, users>>
    /\ UNCHANGED <<store, now, record, config, issued, minted, deleted, session>>

\* After a Conflict: the winner's row, or none.
LookupWinner(r) ==
    /\ request[r].pc = "relookup"
    /\ IF account # None THEN Found_user(r) ELSE Return(r, "Vanished")
    /\ UNCHANGED <<store, now, record, config, issued, minted, account, users, deleted, session>>

\* store_refresh_token, then build_access_token, which may fail.
StoreSession(r, signed) ==
    /\ request[r].pc = "store"
    /\ session' = [session EXCEPT ![r] = request[r].user]
    /\ Return(r, IF signed THEN "ok" ELSE "KeyError")
    /\ UNCHANGED <<store, now, record, config, issued, minted, account, users, deleted>>

\* A call to a store fails.
StoreFails(r) ==
    /\ request[r].pc \in {"nonce", "marker", "lookup", "create", "relookup", "store"}
    /\ Return(r, "StoreError")
    /\ UNCHANGED <<store, now, record, config, issued, minted, account, users, deleted, session>>

-----------------------------------------------------------------------------
(* exchange: the terminal record and the answer. *)

exchange_terminal_event(e) ==
    CASE e = "ok" -> "AuthenticationSucceeded"
      [] e = "AccessDenied" -> "RegistrationDenied"
      [] e = "UserSuspended" -> "PrincipalSuspended"
      [] e = "ProviderError" -> "ProviderRejected"
      [] e = "TooManyRequests" -> "ThrottleExceeded"
      [] OTHER -> "AuthenticationFailed"

\* The request is over; what the properties look at is kept.
End(r, event, answer) ==
    Go(r, [request[r] EXCEPT !.pc = "ended", !.user = None, !.event = event, !.answer = answer,
                             !.result = IF @ \in {"KeyError", "Vanished"} THEN @ ELSE None])

\* An infrastructure failure is answered without a terminal record.
AnswerStoreError(r) ==
    /\ request[r].pc = "audit"
    /\ request[r].result \in {"StoreError", "Vanished"}
    /\ End(r, None, "StoreError")
    /\ UNCHANGED <<store, now, record, config, issued, minted, account, users, deleted, session>>

\* (Mistake: the session is kept when the success record is refused.)
EmitTerminalOnly(r, sunk) ==
    /\ request[r].pc = "audit"
    /\ request[r].result \notin {"StoreError", "Vanished"}
    /\ End(r, IF sunk THEN exchange_terminal_event(request[r].result) ELSE None,
           IF sunk \/ ~config.enforce THEN request[r].result ELSE "Audit")
    /\ UNCHANGED <<store, now, record, config, issued, minted, account, users, deleted, session>>

\* The terminal record: taken by the sink, or refused.  Under enforce a refused record of
\* success leads to the undo, any other to an audit error.
EmitTerminal(r, sunk) ==
    LET result == request[r].result
    IN  /\ request[r].pc = "audit"
        /\ result \notin {"StoreError", "Vanished"}
        /\ \/ sunk /\ End(r, exchange_terminal_event(result), result)
           \/ ~sunk /\ ~config.enforce /\ End(r, None, result)
           \/ ~sunk /\ config.enforce /\ result # "ok" /\ End(r, None, "Audit")
           \/ ~sunk /\ config.enforce /\ result = "ok" /\ Goto(r, "undo")
        /\ UNCHANGED <<store, now, record, config, issued, minted, account, users, deleted, session>>

\* revoke_session of the session just stored; if that fails too, its error is the answer.
UndoStore(r, undone) ==
    /\ request[r].pc = "undo"
    /\ session' = IF undone THEN [session EXCEPT ![r] = None] ELSE session
    /\ End(r, None, IF undone THEN "Audit" ELSE "StoreError")
    /\ UNCHANGED <<store, now, record, config, issued, minted, account, users, deleted>>

\* The process dies, or the client's connection ends and the request with it.
Vanish(r) ==
    /\ request[r].pc \notin {"fresh", "ended"}
    /\ End(r, None, None)
    /\ UNCHANGED <<store, now, record, config, issued, minted, account, users, deleted, session>>

-----------------------------------------------------------------------------
SignInInit ==
    /\ \E d \in Deployment : store = d.store /\ config = [mode |-> d.mode, enforce |-> d.enforce]
    /\ now = 0
    /\ record = [k \in Key |-> None]
    /\ issued = [a \in Assertion |-> None]
    /\ minted = {}
    /\ account = None
    /\ users = 0
    /\ deleted = FALSE
    /\ session = [r \in Request |-> None]
    /\ request = [r \in Request |-> Fresh]

Arrive(r, g, a) ==
    \/ \E with_token \in BOOLEAN : Bind(r, g, a, with_token)
    \/ \E e \in EarlyError : RefuseEarly(r, g, a, e)

RequestStep(r) ==
    \/ consume_nonce(r) \/ claim_assertion_marker(r) \/ LookupUser(r) \/ LookupWinner(r)
    \/ \E ok \in BOOLEAN : \/ CreateUser(r, ok) \/ StoreSession(r, ok)
                          \/ EmitTerminal(r, ok) \/ UndoStore(r, ok)
    \/ StoreFails(r) \/ AnswerStoreError(r)

World ==
    \/ \E a \in Assertion : mint_nonce(a) \/ \E exp \in Exp : IssueAssertion(a, exp)
    \/ \E k \in Key : SweepRecord(k)
    \/ Tick \/ SuspendUser \/ DeleteUser

\* Every request has ended.
Finished == (\A r \in Request : request[r].pc = "ended") /\ UNCHANGED signInVars

SignInNext ==
    \/ World \/ Finished
    \/ \E r \in Request : \/ RequestStep(r) \/ Vanish(r)
                          \/ \E g \in Grant, a \in Assertion : Arrive(r, g, a)

SignInSpec == SignInInit /\ [][SignInNext]_signInVars

-----------------------------------------------------------------------------
ClaimedBy(a) == {r \in Request : request[r].a = a /\ request[r].claimed # None}

\* An assertion passes the binding of the direct grant once, whatever the store, the
\* timing of the requests and the sweeps: a request that stalls between the lifetime check
\* and the marker until the first marker has lapsed is still stopped by the nonce.
DirectGrantOnce ==
    \A a \in Assertion : Cardinality({r \in ClaimedBy(a) : request[r].grant = "direct"}) <= 1

\* While an assertion is alive (by the clock of the store) its marker admits one claim, on
\* either grant: no rounding of the expiry (seconds in DynamoDB, time to live in Valkey)
\* opens a gap before exp.
LiveAssertionOnce ==
    \A a \in Assertion :
        Cardinality({r \in ClaimedBy(a) : request[r].claimed + (StoreClock - now) < issued[a]}) <= 1

\* "Do not leave a session live if the caller receives no tokens": under enforce a request
\* that ends in an error leaves no session, unless signing or the undo itself failed.
ErrorLeavesNoSession ==
    \A r \in Request :
        /\ config.enforce /\ request[r].answer \notin {"ok", None}
        /\ session[r] # None
        => request[r].result = "KeyError" \/ request[r].answer = "StoreError"

\* Two first sign-ins of one person: the loser of the race to register carries on as the
\* winner's user, and fails only if an operator deleted that user in between.
LoserFindsTheWinner ==
    \A r \in Request : request[r].result = "Vanished" => deleted

=============================================================================
