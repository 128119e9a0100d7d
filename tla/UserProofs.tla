------------------------------- MODULE UserProofs ------------------------------
(***************************************************************************)
(* Who signs in, and what is kept of them: theorems about SignIn and about *)
(* UserStores, for every value of their constants.                         *)
(*                                                                         *)
(* SignIn, for any number of requests and assertions, any lifetimes, each  *)
(* of the five stores and any lead of the database's clock: a nonce record *)
(* that is gone never returns, and who removed it is the only one past it. *)
(* A marker claimed while its assertion was alive stands, whatever the     *)
(* store made of its expiry, until the assertion is dead by the store's    *)
(* own clock.                                                              *)
(*                                                                         *)
(* UserStores, for any number of users, identities and concurrent calls,   *)
(* on each of the three adapters: a row is never removed, and every write  *)
(* moves its version up, so a call whose version condition holds has read  *)
(* the row that is still there.  A guard is put with a new row and taken   *)
(* away with a deletion, so it stands for every user that is neither old   *)
(* nor was ever deleted.  A walk's cursor separates the rows shown from    *)
(* the rest.                                                               *)
(***************************************************************************)
EXTENDS SignIn, UserStores, FiniteSetTheorems, TLAPS

-----------------------------------------------------------------------------
(* One assertion, one sign-in. *)

Outcome == {"ok", "Binding", "StoreError", "UserSuspended", "AccessDenied", "Audit", "KeyError",
            "Vanished", "Refused", "TooManyRequests", "ProviderError"}

Event == {"AuthenticationSucceeded", "RegistrationDenied", "PrincipalSuspended",
          "ProviderRejected", "ThrottleExceeded", "AuthenticationFailed"}

RequestShape ==
    [pc : {"fresh", "nonce", "marker", "lookup", "create", "relookup", "store", "audit", "undo",
           "ended"},
     grant : Grant \cup {None}, a : Assertion \cup {None},
     user : Nat \cup {None}, claimed : Nat \cup {None},
     result : Outcome \cup {None}, event : Event \cup {None}, answer : Outcome \cup {None}]

\* A request is answered when it ends.
RequestRecord == {q \in RequestShape : q.pc # "ended" => q.answer = None}

Account == [id : Nat, status : {"Active", "Suspended"}]

Types ==
    /\ store \in Store /\ now \in Nat
    /\ record \in [Key -> Int \cup {None}]
    /\ issued \in [Assertion -> Nat \cup {None}]
    /\ \A a \in Assertion : issued[a] # None => issued[a] % 2 = 0
    /\ account \in Account \cup {None} /\ users \in Nat
    /\ deleted \in BOOLEAN
    /\ session \in [Request -> Nat \cup {None}]
    /\ request \in [Request -> RequestRecord]

\* What a request presents was issued.
Presents(r) ==
    LET q == request[r]
    IN  q.pc \in {"nonce", "marker"} \/ q.claimed # None =>
            q.a \in Assertion /\ issued[q.a] # None

\* A request that has stored its session owes a success record, or its undo.
SessionOf(q, s) ==
    s # None =>
        /\ q.pc \in {"audit", "undo", "ended"}
        /\ q.pc = "audit" => q.result \in {"ok", "KeyError"}
        /\ q.pc = "ended" /\ config.enforce =>
              q.result = "KeyError" \/ q.answer \in {"ok", "StoreError", None}

\* A request that lost the race to register has a winner to find.
RaceOf(q, winner, gone) ==
    /\ q.pc = "relookup" => winner # None \/ gone
    /\ q.result = "Vanished" => gone

\* Past the nonce of a, over the direct grant.
Passed(r, a) ==
    /\ request[r].a = a /\ request[r].grant = "direct"
    /\ request[r].pc = "marker" \/ request[r].claimed # None

NonceSound(a) ==
    /\ record[NonceKey(a)] # None => a \in minted
    /\ \A r \in Request : Passed(r, a) => a \in minted /\ record[NonceKey(a)] = None
    /\ \A r, s \in Request : Passed(r, a) /\ Passed(s, a) => r = s

\* How far the store's clock is ahead.
Lead == IF store = "postgres" THEN PgSkew ELSE 0

\* A claim made while the assertion was alive by the store's clock.
LiveClaim(r, a) ==
    /\ request[r].a = a /\ request[r].claimed # None
    /\ request[r].claimed + Lead < issued[a]

\* The marker is there, and as good as the assertion's own expiry.
MarkerHeld(a) ==
    /\ record[MarkerKey(a)] # None
    /\ IF store = "valkey" THEN record[MarkerKey(a)] >= issued[a] - 1
                           ELSE record[MarkerKey(a)] >= issued[a]

MarkerSound(a) ==
    /\ \A r \in Request : LiveClaim(r, a) => MarkerHeld(a) \/ now + Lead >= issued[a]
    /\ \A r, s \in Request : LiveClaim(r, a) /\ LiveClaim(s, a) => r = s

SignInIInv ==
    /\ Types
    /\ \A r \in Request : Presents(r) /\ SessionOf(request[r], session[r]) /\ RaceOf(request[r], account, deleted)
    /\ \A a \in Assertion : NonceSound(a) /\ MarkerSound(a)

-----------------------------------------------------------------------------
\* The keys of the two kinds of record, one pair for each assertion.
LEMMA KeysDiffer ==
    ASSUME NEW a \in Assertion, NEW b \in Assertion
    PROVE  /\ NonceKey(a) \in Key /\ MarkerKey(a) \in Key /\ NonceKey(a) # MarkerKey(b)
           /\ NonceKey(a) = NonceKey(b) => a = b
           /\ MarkerKey(a) = MarkerKey(b) => a = b
BY SignInAssumption DEF NonceKey, MarkerKey

\* Rounding to whole seconds loses less than a second, and nothing of a whole one.
LEMMA Rounding ==
    ASSUME NEW t \in Int
    PROVE  /\ WholeSeconds(t) \in Int /\ WholeSeconds(t) <= t /\ t <= WholeSeconds(t) + 1
           /\ t % 2 = 0 => WholeSeconds(t) = t
BY DEF WholeSeconds

\* The store's clock is the application's, and its lead.
LEMMA LeadSound ==
    ASSUME Types
    PROVE  Lead \in Nat /\ StoreClock = now + Lead /\ (store # "postgres" => Lead = 0)
BY SingleUseAssumption DEF Types, Lead, StoreClock

\* The initial state: nothing is stored and nobody has asked.
LEMMA InitSignIn == SignInInit => SignInIInv
<1> SUFFICES ASSUME SignInInit PROVE SignInIInv
    OBVIOUS
<1>1. Fresh \in RequestRecord /\ Fresh.pc = "fresh" /\ Fresh.claimed = None /\ Fresh.result = None
    BY DEF Fresh, RequestRecord, RequestShape
<1> HIDE DEF Fresh
<1>2. store \in Store
    BY SignInAssumption DEF SignInInit
<1>3. Types
    BY <1>1, <1>2 DEF SignInInit, Types
<1>4. \A r \in Request : request[r].pc = "fresh" /\ request[r].claimed = None
                         /\ request[r].result = None /\ session[r] = None
    BY <1>1 DEF SignInInit
<1>5. \A r \in Request : Presents(r) /\ SessionOf(request[r], session[r]) /\ RaceOf(request[r], account, deleted)
    BY <1>4, SignInAssumption DEF Presents, SessionOf, RaceOf
<1>6. \A a \in Assertion : NonceSound(a) /\ MarkerSound(a)
    <2>1. \A a \in Assertion : record[NonceKey(a)] = None
        BY KeysDiffer DEF SignInInit
    <2> QED
        BY <1>4, <2>1 DEF NonceSound, MarkerSound, Passed, LiveClaim
<1> QED
    BY <1>3, <1>5, <1>6 DEF SignInIInv

-----------------------------------------------------------------------------
(* The steps of a request. *)

\* A request past its binding moves on, and touches no single-use record: what it
\* claimed stays claimed, and the promises about its session and its race are its own.
LEMMA StepOnward ==
    ASSUME SignInIInv, NEW r \in Request, NEW q \in RequestRecord,
           request' = [request EXCEPT ![r] = q],
           q.a = request[r].a, q.grant = request[r].grant, q.claimed = request[r].claimed,
           q.pc \notin {"nonce", "marker"},
           UNCHANGED <<store, now, record, config, issued, minted, deleted>>,
           account' \in Account \cup {None}, account # None => account' # None,
           users' \in Nat, session' \in [Request -> Nat \cup {None}],
           \A s \in Request : s # r => session'[s] = session[s],
           SessionOf(q, session'[r]), RaceOf(q, account', deleted)
    PROVE  SignInIInv'
<1>0. Types /\ request \in [Request -> RequestRecord]
    BY DEF SignInIInv, Types
<1>1. Types'
    BY <1>0 DEF Types
<1>2. \A s \in Request : request'[s] = IF s = r THEN q ELSE request[s]
    BY <1>0
<1>3. \A s \in Request : Presents(s)'
    BY <1>2 DEF SignInIInv, Presents
<1>4. \A s \in Request : SessionOf(request[s], session[s])'
    BY <1>2 DEF SignInIInv, SessionOf
<1>5. \A s \in Request : RaceOf(request[s], account, deleted)'
    BY <1>2 DEF SignInIInv, RaceOf
<1>6. \A s \in Request, a \in Assertion : Passed(s, a)' => Passed(s, a)
    BY <1>2 DEF Passed
<1>7. \A s \in Request, a \in Assertion : LiveClaim(s, a)' => LiveClaim(s, a)
    BY <1>2 DEF LiveClaim, Lead
<1>8. \A a \in Assertion : NonceSound(a)' /\ MarkerSound(a)'
    BY <1>6, <1>7 DEF SignInIInv, NonceSound, MarkerSound, MarkerHeld, Lead
<1> QED
    BY <1>1, <1>3, <1>4, <1>5, <1>8 DEF SignInIInv

\* Return with an outcome other than Vanished, by a request without a session.
LEMMA StepReturn ==
    ASSUME SignInIInv, NEW r \in Request, NEW e \in Outcome, e # "Vanished" \/ deleted,
           request[r].pc \notin {"audit", "undo", "ended"},
           Return(r, e),
           UNCHANGED <<store, now, record, config, issued, minted, account, users, deleted, session>>
    PROVE  SignInIInv'
<1> DEFINE q == [request[r] EXCEPT !.pc = "audit", !.result = e]
<1>a. Types /\ request[r] \in RequestRecord
    BY DEF SignInIInv, Types
<1>b. session[r] = None
    BY DEF SignInIInv, SessionOf
<1>c. request' = [request EXCEPT ![r] = q]
    BY DEF Return, Go
<1>1. /\ q \in RequestRecord /\ q.a = request[r].a /\ q.grant = request[r].grant
      /\ q.claimed = request[r].claimed /\ q.pc = "audit" /\ q.result = e
    BY <1>a DEF RequestRecord, RequestShape
<1> HIDE DEF q
<1>0. Types /\ request' = [request EXCEPT ![r] = q] /\ session[r] = None
    BY <1>a, <1>b, <1>c
<1>2. SessionOf(q, session'[r])
    BY <1>0 DEF SessionOf
<1>3. RaceOf(q, account', deleted)
    BY <1>1 DEF RaceOf
<1> QED
    BY <1>0, <1>1, <1>2, <1>3, StepOnward DEF Types

\* End: the request is over, with a session only if its outcome allows one.
LEMMA StepEnd ==
    ASSUME SignInIInv, NEW r \in Request, NEW event \in Event \cup {None},
           NEW answer \in Outcome \cup {None},
           End(r, event, answer),
           UNCHANGED <<store, now, record, config, issued, minted, account, users, deleted>>,
           session' \in [Request -> Nat \cup {None}],
           \A s \in Request : s # r => session'[s] = session[s],
           session'[r] # None /\ config.enforce =>
               request[r].result = "KeyError" \/ answer \in {"ok", "StoreError", None}
    PROVE  SignInIInv'
<1> DEFINE x == IF request[r].result \in {"KeyError", "Vanished"} THEN request[r].result ELSE None
           q == [request[r] EXCEPT !.pc = "ended", !.user = None, !.event = event,
                                   !.answer = answer, !.result = x]
<1>a. Types /\ request[r] \in RequestRecord /\ RaceOf(request[r], account, deleted)
    BY DEF SignInIInv, Types
<1>b. request' = [request EXCEPT ![r] = q]
    BY DEF End, Go
<1>1. x \in Outcome \cup {None}
    <2>1. request[r].result \in Outcome \cup {None}
        BY <1>a DEF RequestRecord, RequestShape
    <2> QED
        BY <2>1
<1> HIDE DEF x
<1>2. /\ q \in RequestRecord /\ q.a = request[r].a /\ q.grant = request[r].grant
      /\ q.claimed = request[r].claimed /\ q.pc = "ended" /\ q.result = x /\ q.answer = answer
    <2>1. request[r] \in RequestShape
        BY <1>a DEF RequestRecord
    <2>2. /\ q \in RequestShape /\ q.a = request[r].a /\ q.grant = request[r].grant
          /\ q.claimed = request[r].claimed /\ q.pc = "ended" /\ q.result = x /\ q.answer = answer
        BY <1>1, <2>1, ZenonT(60) DEF RequestShape
    <2> HIDE DEF q
    <2> QED
        BY <2>2 DEF RequestRecord
<1> HIDE DEF q
<1>0. Types /\ request' = [request EXCEPT ![r] = q] /\ RaceOf(request[r], account, deleted)
    BY <1>a, <1>b
<1>3. SessionOf(q, session'[r])
    BY <1>2 DEF SessionOf, x
<1>4. RaceOf(q, account', deleted)
    BY <1>0, <1>2, SignInAssumption DEF RaceOf, x
<1> QED
    BY <1>0, <1>2, <1>3, <1>4, StepOnward DEF Types

\* Arrive: a request that passes the checks of bind is at its nonce, or, over the code
\* grant, at its marker; it has claimed nothing.
LEMMA StepArrive ==
    ASSUME SignInIInv, NEW r \in Request, NEW g \in Grant, NEW a \in Assertion, Arrive(r, g, a)
    PROVE  SignInIInv'
<1>0. Types /\ request \in [Request -> RequestRecord]
    BY DEF SignInIInv, Types
<1>1. PICK q \in RequestRecord :
          /\ request[r].pc = "fresh"
          /\ request' = [request EXCEPT ![r] = q]
          /\ q.claimed = None /\ q.result # "Vanished"
          /\ q.pc \in {"nonce", "marker", "audit"} /\ (q.pc = "marker" => q.grant # "direct")
          /\ q.pc # "audit" => q.a \in Assertion /\ issued[q.a] # None
          /\ UNCHANGED <<store, now, record, config, issued, minted, account, users, deleted, session>>
    <2>1. ASSUME NEW e \in EarlyError, RefuseEarly(r, g, a, e)
          PROVE  \E q \in RequestRecord :
                    /\ request[r].pc = "fresh"
                    /\ request' = [request EXCEPT ![r] = q]
                    /\ q.claimed = None /\ q.result # "Vanished" /\ q.pc = "audit"
        <3> DEFINE q == [Fresh EXCEPT !.pc = "audit", !.grant = g, !.a = a, !.result = e]
        <3>1. e \in Outcome /\ e # "Vanished"
            BY SignInAssumption DEF Outcome
        <3>2. q \in RequestRecord /\ q.claimed = None /\ q.result = e /\ q.pc = "audit"
            BY <3>1 DEF Fresh, RequestRecord, RequestShape
        <3>3. request[r].pc = "fresh" /\ request' = [request EXCEPT ![r] = q]
            BY <2>1 DEF RefuseEarly, Go
        <3> HIDE DEF q
        <3> QED
            BY <3>1, <3>2, <3>3
    <2>2. ASSUME NEW with_token \in BOOLEAN, Bind(r, g, a, with_token)
          PROVE  \E q \in RequestRecord :
                    /\ request[r].pc = "fresh"
                    /\ request' = [request EXCEPT ![r] = q]
                    /\ q.claimed = None /\ q.result # "Vanished"
                    /\ q.pc \in {"nonce", "marker", "audit"} /\ (q.pc = "marker" => q.grant # "direct")
                    /\ q.pc # "audit" => q.a \in Assertion /\ issued[q.a] # None
        <3> DEFINE m == [Fresh EXCEPT !.pc = IF g = "direct" THEN "nonce" ELSE "marker",
                                      !.grant = g, !.a = a]
                   n == [Fresh EXCEPT !.pc = "audit", !.grant = g, !.a = a, !.result = "Binding"]
        <3>1. /\ m \in RequestRecord /\ m.claimed = None /\ m.result = None /\ m.a = a
              /\ m.pc \in {"nonce", "marker"} /\ (m.pc = "marker" => m.grant # "direct")
            BY DEF Fresh, RequestRecord, RequestShape
        <3>2. n \in RequestRecord /\ n.claimed = None /\ n.result = "Binding" /\ n.pc = "audit"
            BY DEF Fresh, RequestRecord, RequestShape, Outcome
        <3>3. /\ request[r].pc = "fresh" /\ issued[a] # None
              /\ request' = [request EXCEPT ![r] = m] \/ request' = [request EXCEPT ![r] = n]
            BY <2>2 DEF Bind, Go
        <3> HIDE DEF m, n
        <3>4. CASE request' = [request EXCEPT ![r] = m]
            BY <3>1, <3>3, <3>4, SignInAssumption
        <3>5. CASE request' = [request EXCEPT ![r] = n]
            BY <3>2, <3>3, <3>5
        <3> QED
            BY <3>3, <3>4, <3>5
    <2>3. UNCHANGED <<store, now, record, config, issued, minted, account, users, deleted, session>>
        BY DEF Arrive, Bind, RefuseEarly
    <2> QED
        BY <2>1, <2>2, <2>3 DEF Arrive
<1>2. \A s \in Request : request'[s] = IF s = r THEN q ELSE request[s]
    BY <1>0, <1>1
<1>3. session[r] = None
    BY <1>1 DEF SignInIInv, SessionOf
<1>4. Types'
    BY <1>0, <1>1 DEF Types
<1>5. \A s \in Request : Presents(s)'
    BY <1>1, <1>2 DEF SignInIInv, Presents
<1>6. \A s \in Request : SessionOf(request[s], session[s])'
    BY <1>1, <1>2, <1>3 DEF SignInIInv, SessionOf
<1>7. \A s \in Request : RaceOf(request[s], account, deleted)'
    BY <1>1, <1>2 DEF SignInIInv, RaceOf
<1>8. \A s \in Request, b \in Assertion : Passed(s, b)' => Passed(s, b)
    BY <1>1, <1>2 DEF Passed
<1>9. \A s \in Request, b \in Assertion : LiveClaim(s, b)' => LiveClaim(s, b)
    BY <1>1, <1>2 DEF LiveClaim, Lead
<1>10. \A b \in Assertion : NonceSound(b)' /\ MarkerSound(b)'
    BY <1>1, <1>8, <1>9 DEF SignInIInv, NonceSound, MarkerSound, MarkerHeld, Lead
<1> QED
    BY <1>4, <1>5, <1>6, <1>7, <1>10 DEF SignInIInv

\* consume_nonce: who passes has removed the record, so nobody passed before and nobody
\* will after.
LEMMA StepNonce ==
    ASSUME SignInIInv, NEW r \in Request, consume_nonce(r)
    PROVE  SignInIInv'
<1> DEFINE a == request[r].a
           k == NonceKey(a)
<1>0. Types /\ request \in [Request -> RequestRecord] /\ request[r] \in RequestRecord
    BY DEF SignInIInv, Types
<1>1. /\ request[r].pc = "nonce" /\ session[r] = None /\ a \in Assertion /\ issued[a] # None
      /\ UNCHANGED <<store, now, config, issued, minted, account, users, deleted, session>>
    BY DEF consume_nonce, SignInIInv, SessionOf, Presents
<1>2. PICK q \in RequestRecord :
          /\ request' = [request EXCEPT ![r] = q]
          /\ q.a = a /\ q.grant = request[r].grant /\ q.claimed = request[r].claimed
          /\ q.pc \in {"marker", "audit"} /\ (q.result # "Vanished" \/ deleted)
          /\ q.pc = "marker" => record[k] # None /\ record' = [record EXCEPT ![k] = None]
    <2> DEFINE m == [request[r] EXCEPT !.pc = "marker"]
               n == [request[r] EXCEPT !.pc = "audit", !.result = "Binding"]
    <2>0. request[r] \in RequestShape /\ request[r].answer = None /\ "Binding" \in Outcome
        BY <1>0, <1>1 DEF RequestRecord, Outcome
    <2>1. /\ m \in RequestRecord /\ m.a = a /\ m.grant = request[r].grant
          /\ m.claimed = request[r].claimed /\ m.pc = "marker" /\ m.result = request[r].result
        <3>1. m \in RequestShape /\ m.answer = None
            BY <2>0 DEF RequestShape
        <3>2. /\ m.a = a /\ m.grant = request[r].grant
              /\ m.claimed = request[r].claimed /\ m.pc = "marker" /\ m.result = request[r].result
            BY <2>0 DEF RequestShape
        <3> HIDE DEF m
        <3> QED
            BY <3>1, <3>2 DEF RequestRecord
    <2>2. /\ n \in RequestRecord /\ n.a = a /\ n.grant = request[r].grant
          /\ n.claimed = request[r].claimed /\ n.pc = "audit" /\ n.result = "Binding"
        <3>1. n \in RequestShape /\ n.answer = None
            BY <2>0, ZenonT(60) DEF RequestShape
        <3>2. /\ n.a = a /\ n.grant = request[r].grant
              /\ n.claimed = request[r].claimed /\ n.pc = "audit" /\ n.result = "Binding"
            BY <2>0 DEF RequestShape
        <3> HIDE DEF n
        <3> QED
            BY <3>1, <3>2 DEF RequestRecord
    <2>3. IF Taken(k) THEN request' = [request EXCEPT ![r] = m] ELSE request' = [request EXCEPT ![r] = n]
        BY DEF consume_nonce, Goto, Return, Go
    <2>4. Taken(k) => record[k] # None /\ record' = [record EXCEPT ![k] = None]
        BY DEF consume_nonce, take_single_use, Taken
    <2>5. request[r].result # "Vanished" \/ deleted
        BY DEF SignInIInv, RaceOf
    <2> HIDE DEF m, n
    <2>6. CASE Taken(k)
        BY <2>1, <2>3, <2>4, <2>5, <2>6
    <2>7. CASE ~Taken(k)
        BY <2>2, <2>3, <2>7
    <2> QED
        BY <2>6, <2>7
<1>3. record' = record \/ record' = [record EXCEPT ![k] = None]
    BY DEF consume_nonce, take_single_use
<1> HIDE DEF a, k
<1>4. \A s \in Request : request'[s] = IF s = r THEN q ELSE request[s]
    BY <1>0, <1>2
<1>5. \A x \in Key : record'[x] = record[x] \/ (x = k /\ record'[x] = None)
    BY <1>0, <1>3 DEF Types
<1>6. Types'
    BY <1>0, <1>1, <1>2, <1>3 DEF Types
<1>7. \A s \in Request : Presents(s)'
    BY <1>1, <1>2, <1>4 DEF SignInIInv, Presents
<1>8. \A s \in Request : SessionOf(request[s], session[s])'
    BY <1>1, <1>2, <1>4 DEF SignInIInv, SessionOf
<1>9. \A s \in Request : RaceOf(request[s], account, deleted)'
    BY <1>1, <1>2, <1>4 DEF SignInIInv, RaceOf
<1>10. \A s \in Request, b \in Assertion :
           Passed(s, b)' => Passed(s, b) \/ (s = r /\ b = a /\ q.pc = "marker")
    BY <1>2, <1>4 DEF Passed, a
<1>11. q.pc = "marker" => a \in minted /\ (\A s \in Request : ~Passed(s, a)) /\ record'[k] = None
    <2>1. NonceSound(a) /\ k = NonceKey(a) /\ k \in Key
        BY <1>1, KeysDiffer DEF SignInIInv, k
    <2>2. q.pc = "marker" => record[NonceKey(a)] # None /\ record' = [record EXCEPT ![k] = None]
        BY <1>2 DEF k
    <2> QED
        BY <1>0, <2>1, <2>2 DEF NonceSound, Types
<1>12. \A b \in Assertion : NonceSound(b)'
    <2>1. \A b \in Assertion : record'[NonceKey(b)] = record[NonceKey(b)] \/ record'[NonceKey(b)] = None
        BY <1>5, KeysDiffer
    <2>2. k = NonceKey(a)
        BY DEF k
    <2> QED
        BY <1>1, <1>10, <1>11, <2>1, <2>2 DEF SignInIInv, NonceSound
<1>13. \A s \in Request, b \in Assertion : LiveClaim(s, b)' => LiveClaim(s, b)
    BY <1>1, <1>2, <1>4 DEF LiveClaim, Lead, a
<1>14. \A b \in Assertion : MarkerSound(b)'
    <2>1. \A b \in Assertion : record'[MarkerKey(b)] = record[MarkerKey(b)]
        BY <1>1, <1>5, KeysDiffer DEF k
    <2> QED
        BY <1>1, <1>13, <2>1 DEF SignInIInv, MarkerSound, MarkerHeld, Lead
<1> QED
    BY <1>6, <1>7, <1>8, <1>9, <1>12, <1>14 DEF SignInIInv

\* A record keeps the expiry asked for, or in Valkey less than a second less of it.
LEMMA KeptSound ==
    ASSUME Types, NEW e \in Int
    PROVE  /\ Kept(e) \in Int
           /\ e % 2 = 0 => Kept(e) >= IF store = "valkey" THEN e - 1 ELSE e
<1>1. CASE store = "valkey"
    <2>1. now \in Int /\ e - now \in Int
        BY DEF Types
    <2>2. WholeSeconds(e - now) \in Int /\ e - now <= WholeSeconds(e - now) + 1
        BY <2>1, Rounding
    <2>3. Kept(e) = now + WholeSeconds(e - now)
        BY <1>1 DEF Kept
    <2> QED
        BY <1>1, <2>1, <2>2, <2>3
<1>2. CASE store = "dynamo"
    BY <1>2, Rounding DEF Kept
<1>3. CASE store \notin {"valkey", "dynamo"}
    <2>1. Kept(e) = e
        BY <1>3 DEF Kept
    <2> QED
        BY <1>3, <2>1
<1> QED
    BY <1>1, <1>2, <1>3

\* While the assertion is alive by the store's clock, its marker refuses a second claim.
LEMMA MarkerRefuses ==
    ASSUME Types, NEW a \in Assertion, issued[a] # None, MarkerHeld(a), now + Lead < issued[a]
    PROVE  PutOutcome(MarkerKey(a), issued[a]) # "claimed"
<1> DEFINE m == record[MarkerKey(a)]
<1>0. /\ issued[a] \in Nat /\ now \in Nat /\ Lead \in Nat /\ m \in Int /\ m # None
      /\ now < issued[a] /\ issued[a] % 2 = 0
    BY LeadSound, KeysDiffer DEF Types, MarkerHeld
<1>1. CASE store = "valkey"
    <2>1. m >= issued[a] - 1
        BY <1>1 DEF MarkerHeld
    <2>2. issued[a] - now >= 2 => ~(m <= now)
        BY <1>0, <2>1
    <2> QED
        BY <1>0, <1>1, <2>2 DEF PutOutcome, put_single_use_valkey, Found
<1>2. CASE store # "valkey"
    <2>1. m >= issued[a]
        BY <1>2 DEF MarkerHeld
    <2>2. ~(m < now) /\ ~(m <= now)
        BY <1>0, <2>1
    <2>3. ~(m < WholeSeconds(now))
        BY <1>0, <2>1, Rounding
    <2>4. store \in {"sqlite", "postgres", "lmdb", "dynamo"}
        BY <1>2 DEF Types, Store
    <2>5. CASE store \in {"sqlite", "postgres", "lmdb"}
        BY <1>0, <2>2, <2>5 DEF PutOutcome, put_single_use_sqlite, put_single_use_postgres,
            put_single_use_lmdb
    <2>6. CASE store = "dynamo"
        BY <1>0, <2>3, <2>6 DEF PutOutcome, put_single_use_dynamo
    <2> QED
        BY <2>4, <2>5, <2>6
<1> QED
    BY <1>1, <1>2

\* claim_assertion_marker: a claim made while the assertion is alive is the first such
\* claim, and leaves a marker that outlasts the assertion.
LEMMA StepMarker ==
    ASSUME SignInIInv, NEW r \in Request, claim_assertion_marker(r)
    PROVE  SignInIInv'
<1>a. request[r].pc = "marker" /\ request[r].a \in Assertion /\ issued[request[r].a] # None
    BY DEF claim_assertion_marker, SignInIInv, Presents
<1>b. PICK a \in Assertion : a = request[r].a
    BY <1>a
<1> DEFINE k == MarkerKey(a)
           e == issued[a]
           out == PutOutcome(k, e)
<1>0. Types /\ request \in [Request -> RequestRecord] /\ request[r] \in RequestRecord /\ now \in Nat
    BY DEF SignInIInv, Types
<1>1. /\ request[r].pc = "marker" /\ session[r] = None /\ a \in Assertion /\ e # None
      /\ UNCHANGED <<store, now, config, issued, minted, account, users, deleted, session>>
    BY <1>a, <1>b DEF claim_assertion_marker, SignInIInv, SessionOf
<1>2. CASE out # "claimed"
    <2>1. /\ record' = record /\ Return(r, enforce_assertion_binding(out))
        BY <1>b, <1>2 DEF claim_assertion_marker
    <2>2. enforce_assertion_binding(out) \in Outcome /\ enforce_assertion_binding(out) # "Vanished"
        BY DEF enforce_assertion_binding, Outcome
    <2> QED
        BY <1>1, <2>1, <2>2, StepReturn
<1>3. CASE out = "claimed"
    <2> DEFINE q == [request[r] EXCEPT !.pc = "lookup", !.claimed = now]
    <2>1. /\ q \in RequestRecord /\ q.a = a /\ q.grant = request[r].grant /\ q.claimed = now
          /\ q.pc = "lookup" /\ q.result = request[r].result
        <3>1. request[r] \in RequestShape /\ request[r].answer = None
            BY <1>0, <1>1 DEF RequestRecord
        <3>2. q \in RequestShape /\ q.answer = None
            BY <1>0, <3>1, ZenonT(60) DEF RequestShape
        <3>3. /\ q.a = a /\ q.grant = request[r].grant /\ q.claimed = now
              /\ q.pc = "lookup" /\ q.result = request[r].result
            BY <1>b, <3>1 DEF RequestShape
        <3> HIDE DEF q
        <3> QED
            BY <3>2, <3>3 DEF RequestRecord
    <2>2. request' = [request EXCEPT ![r] = q] /\ record' = [record EXCEPT ![k] = Kept(e)]
        BY <1>b, <1>3 DEF claim_assertion_marker, Go, put_single_use
    <2> HIDE DEF q
    <2>3. /\ e \in Nat /\ e % 2 = 0 /\ Kept(e) \in Int /\ k \in Key
          /\ Kept(e) >= IF store = "valkey" THEN e - 1 ELSE e
        BY <1>0, <1>1, KeptSound, KeysDiffer DEF Types
    <2>4. \A s \in Request : request'[s] = IF s = r THEN q ELSE request[s]
        BY <1>0, <2>2
    <2>5. Types'
        BY <1>0, <1>1, <2>1, <2>2, <2>3 DEF Types
    <2>6. \A s \in Request : Presents(s)'
        BY <1>1, <1>b, <2>1, <2>4 DEF SignInIInv, Presents
    <2>7. \A s \in Request : SessionOf(request[s], session[s])'
        BY <1>1, <2>1, <2>4 DEF SignInIInv, SessionOf
    <2>8. \A s \in Request : RaceOf(request[s], account, deleted)'
        BY <1>1, <2>1, <2>4 DEF SignInIInv, RaceOf
    <2>9. \A s \in Request, b \in Assertion : Passed(s, b)' => Passed(s, b)
        BY <1>1, <1>b, <2>1, <2>4 DEF Passed
    <2>10. \A b \in Assertion : record'[NonceKey(b)] = record[NonceKey(b)]
        BY <1>0, <1>1, <2>2, KeysDiffer DEF Types
    <2>11. \A b \in Assertion : NonceSound(b)'
        BY <1>1, <2>9, <2>10 DEF SignInIInv, NonceSound
    <2>12. /\ record'[k] = Kept(e)
           /\ \A b \in Assertion : b # a => record'[MarkerKey(b)] = record[MarkerKey(b)]
        BY <1>0, <1>1, <2>2, <2>3, KeysDiffer DEF Types
    <2>13. Lead' = Lead
        BY <1>1 DEF Lead
    <2>14. \A s \in Request, b \in Assertion :
               LiveClaim(s, b)' => LiveClaim(s, b) \/ (s = r /\ b = a /\ now + Lead < e)
        BY <1>1, <2>1, <2>4, <2>13 DEF LiveClaim
    <2>15. now + Lead < e => \A s \in Request : ~LiveClaim(s, a)
        <3>1. SUFFICES ASSUME now + Lead < e, NEW s \in Request, LiveClaim(s, a) PROVE FALSE
            OBVIOUS
        <3>2. MarkerHeld(a) \/ now + Lead >= e
            BY <1>1, <3>1 DEF SignInIInv, MarkerSound
        <3>3. Lead \in Nat
            BY <1>0, LeadSound
        <3>4. MarkerHeld(a)
            BY <1>0, <2>3, <3>1, <3>2, <3>3
        <3> QED
            BY <1>0, <1>1, <1>3, <3>1, <3>4, MarkerRefuses
    <2>16. MarkerHeld(a)'
        <3>1. Kept(e) # None
            BY <2>3, SingleUseAssumption
        <3> QED
            BY <1>1, <2>3, <2>12, <3>1 DEF MarkerHeld
    <2>17. MarkerSound(a)'
        BY <1>1, <2>14, <2>15, <2>16 DEF SignInIInv, MarkerSound
    <2>18. ASSUME NEW b \in Assertion, b # a PROVE MarkerSound(b)'
        <3>1. MarkerHeld(b) => MarkerHeld(b)'
            BY <1>1, <2>12, <2>18 DEF MarkerHeld
        <3> QED
            BY <1>1, <2>13, <2>14, <2>18, <3>1 DEF SignInIInv, MarkerSound
    <2> QED
        BY <2>5, <2>6, <2>7, <2>8, <2>11, <2>17, <2>18 DEF SignInIInv
<1> QED
    BY <1>2, <1>3

-----------------------------------------------------------------------------
(* The steps after the binding. *)

\* Found_user, of both lookups.
LEMMA StepFound ==
    ASSUME SignInIInv, NEW r \in Request, request[r].pc \in {"lookup", "relookup"},
           account # None, Found_user(r),
           UNCHANGED <<store, now, record, config, issued, minted, account, users, deleted, session>>
    PROVE  SignInIInv'
<1>1. CASE Return(r, "UserSuspended") \/ Return(r, "AccessDenied")
    <2>1. "UserSuspended" \in Outcome /\ "AccessDenied" \in Outcome
        BY DEF Outcome
    <2> QED
        BY <1>1, <2>1, StepReturn
<1>2. CASE Go(r, [request[r] EXCEPT !.pc = "store", !.user = account.id])
    <2> DEFINE q == [request[r] EXCEPT !.pc = "store", !.user = account.id]
    <2>0. Types /\ request[r] \in RequestRecord /\ account.id \in Nat
        BY DEF SignInIInv, Types, Account
    <2>1. /\ q \in RequestRecord /\ q.a = request[r].a /\ q.grant = request[r].grant
          /\ q.claimed = request[r].claimed /\ q.pc = "store" /\ q.result = request[r].result
        BY <2>0 DEF RequestRecord, RequestShape
    <2>2. request' = [request EXCEPT ![r] = q]
        BY <1>2 DEF Go
    <2> HIDE DEF q
    <2>3. session[r] = None /\ RaceOf(request[r], account, deleted)
        BY DEF SignInIInv, SessionOf
    <2>4. SessionOf(q, session'[r]) /\ RaceOf(q, account', deleted)
        BY <2>1, <2>3 DEF SessionOf, RaceOf
    <2> QED
        BY <2>0, <2>1, <2>2, <2>4, StepOnward DEF Types
<1> QED
    BY <1>1, <1>2 DEF Found_user

\* A request moves to another stage, and nothing else changes.
LEMMA StepGoto ==
    ASSUME SignInIInv, NEW r \in Request,
           \/ request[r].pc = "lookup" /\ Goto(r, "create")
           \/ request[r].pc = "create" /\ account # None /\ Goto(r, "relookup")
           \/ request[r].pc = "audit" /\ Goto(r, "undo"),
           UNCHANGED <<store, now, record, config, issued, minted, account, users, deleted, session>>
    PROVE  SignInIInv'
<1>1. PICK pc \in {"create", "relookup", "undo"} :
          /\ Goto(r, pc) /\ (pc = "relookup" => account # None)
          /\ pc = "undo" \/ session[r] = None
    BY DEF SignInIInv, SessionOf
<1> DEFINE q == [request[r] EXCEPT !.pc = pc]
<1>2. Types /\ request[r] \in RequestRecord /\ RaceOf(request[r], account, deleted)
    BY DEF SignInIInv, Types
<1>3. /\ q \in RequestRecord /\ q.a = request[r].a /\ q.grant = request[r].grant
      /\ q.claimed = request[r].claimed /\ q.pc = pc /\ q.result = request[r].result
    BY <1>2 DEF RequestRecord, RequestShape
<1>4. request' = [request EXCEPT ![r] = q]
    BY <1>1 DEF Goto, Go
<1> HIDE DEF q
<1>5. SessionOf(q, session'[r]) /\ RaceOf(q, account', deleted)
    BY <1>1, <1>2, <1>3 DEF SessionOf, RaceOf
<1> QED
    BY <1>2, <1>3, <1>4, <1>5, StepOnward DEF Types

\* create_user made the row: from here on there is a user to find.
LEMMA StepCreated ==
    ASSUME SignInIInv, NEW r \in Request, NEW sunk \in BOOLEAN, request[r].pc = "create",
           account = None, Created(r, sunk),
           UNCHANGED <<store, now, record, config, issued, minted, deleted, session>>
    PROVE  SignInIInv'
<1> DEFINE m == [request[r] EXCEPT !.pc = "store", !.user = users + 1]
           n == [request[r] EXCEPT !.pc = "audit", !.result = "Audit"]
<1>1. Types /\ request[r] \in RequestRecord /\ users + 1 \in Nat
    BY DEF SignInIInv, Types
<1>2. account' \in Account /\ users' \in Nat
    BY <1>1 DEF Created, Account
<1>3. /\ m \in RequestRecord /\ m.a = request[r].a /\ m.grant = request[r].grant
      /\ m.claimed = request[r].claimed /\ m.pc = "store" /\ m.result = request[r].result
    BY <1>1 DEF RequestRecord, RequestShape
<1>4. /\ n \in RequestRecord /\ n.a = request[r].a /\ n.grant = request[r].grant
      /\ n.claimed = request[r].claimed /\ n.pc = "audit" /\ n.result = "Audit"
    BY <1>1, ZenonT(60) DEF RequestRecord, RequestShape, Outcome
<1>5. request' = [request EXCEPT ![r] = m] \/ request' = [request EXCEPT ![r] = n]
    BY DEF Created, Go
<1> HIDE DEF m, n
<1>6. session[r] = None /\ RaceOf(request[r], account, deleted)
    BY DEF SignInIInv, SessionOf
<1>7. /\ SessionOf(m, session'[r]) /\ RaceOf(m, account', deleted)
      /\ SessionOf(n, session'[r]) /\ RaceOf(n, account', deleted)
    BY <1>3, <1>4, <1>6 DEF SessionOf, RaceOf
<1>8. CASE request' = [request EXCEPT ![r] = m]
    BY <1>1, <1>2, <1>3, <1>7, <1>8, StepOnward DEF Types
<1>9. CASE request' = [request EXCEPT ![r] = n]
    BY <1>1, <1>2, <1>4, <1>7, <1>9, StepOnward DEF Types
<1> QED
    BY <1>5, <1>8, <1>9

\* store_refresh_token, with the outcome of signing.
LEMMA StepStore ==
    ASSUME SignInIInv, NEW r \in Request, NEW signed \in BOOLEAN, StoreSession(r, signed)
    PROVE  SignInIInv'
<1>0. Types /\ request[r] \in RequestRecord /\ RaceOf(request[r], account, deleted)
    BY DEF SignInIInv, Types
<1>1. PICK e \in {"ok", "KeyError"} :
          /\ request[r].pc = "store" /\ Return(r, e)
          /\ session' = [session EXCEPT ![r] = request[r].user]
          /\ UNCHANGED <<store, now, record, config, issued, minted, account, users, deleted>>
    BY DEF StoreSession
<1> DEFINE q == [request[r] EXCEPT !.pc = "audit", !.result = e]
<1>2. /\ q \in RequestRecord /\ q.a = request[r].a /\ q.grant = request[r].grant
      /\ q.claimed = request[r].claimed /\ q.pc = "audit" /\ q.result = e
    <2>1. request[r] \in RequestShape /\ request[r].answer = None /\ e \in Outcome
        BY <1>0, <1>1 DEF RequestRecord, Outcome
    <2>2. q \in RequestShape /\ q.answer = None
        BY <2>1, ZenonT(60) DEF RequestShape
    <2>3. /\ q.a = request[r].a /\ q.grant = request[r].grant
          /\ q.claimed = request[r].claimed /\ q.pc = "audit" /\ q.result = e
        BY <2>1 DEF RequestShape
    <2> HIDE DEF q
    <2> QED
        BY <2>2, <2>3 DEF RequestRecord
<1>3. request' = [request EXCEPT ![r] = q]
    BY <1>1 DEF Return, Go
<1> HIDE DEF q
<1>4. request[r].user \in Nat \cup {None}
    BY <1>0 DEF RequestRecord, RequestShape
<1>5. /\ session' \in [Request -> Nat \cup {None}]
      /\ \A s \in Request : s # r => session'[s] = session[s]
    BY <1>0, <1>1, <1>4 DEF Types
<1>6. SessionOf(q, session'[r]) /\ RaceOf(q, account', deleted)
    BY <1>1, <1>2 DEF SessionOf, RaceOf
<1> QED
    BY <1>0, <1>1, <1>2, <1>3, <1>5, <1>6, StepOnward DEF Types

\* The terminal record, and the undo it may lead to.
LEMMA StepTerminal ==
    ASSUME SignInIInv, NEW r \in Request, NEW ok \in BOOLEAN,
           EmitTerminal(r, ok) \/ UndoStore(r, ok) \/ AnswerStoreError(r) \/ Vanish(r)
    PROVE  SignInIInv'
<1>0. /\ Types /\ session \in [Request -> Nat \cup {None}]
      /\ request[r] \in RequestRecord /\ request[r].result \in Outcome \cup {None}
      /\ SessionOf(request[r], session[r])
      /\ "StoreError" \in Outcome /\ "Audit" \in Outcome
    BY DEF SignInIInv, Types, RequestRecord, RequestShape, Outcome
<1>1. ASSUME EmitTerminal(r, ok) PROVE SignInIInv'
    <2> DEFINE result == request[r].result
               event == exchange_terminal_event(result)
    <2>1. event \in Event
        BY DEF exchange_terminal_event, Event
    <2> HIDE DEF event
    <2>2. /\ request[r].pc = "audit"
          /\ session[r] # None => result \in {"ok", "KeyError"}
          /\ UNCHANGED <<store, now, record, config, issued, minted, account, users, deleted, session>>
        BY <1>0, <1>1 DEF EmitTerminal, SessionOf
    <2>3. CASE ok /\ End(r, event, result)
        BY <1>0, <2>1, <2>2, <2>3, StepEnd
    <2>4. CASE ~config.enforce /\ End(r, None, result)
        BY <1>0, <2>2, <2>4, StepEnd
    <2>5. CASE result # "ok" /\ End(r, None, "Audit")
        BY <1>0, <2>2, <2>5, StepEnd
    <2>6. CASE Goto(r, "undo")
        BY <2>2, <2>6, StepGoto
    <2> QED
        BY <1>1, <2>3, <2>4, <2>5, <2>6 DEF EmitTerminal, event
<1>2. ASSUME UndoStore(r, ok) PROVE SignInIInv'
    <2>1. /\ session' = IF ok THEN [session EXCEPT ![r] = None] ELSE session
          /\ End(r, None, IF ok THEN "Audit" ELSE "StoreError")
          /\ UNCHANGED <<store, now, record, config, issued, minted, account, users, deleted>>
        BY <1>2 DEF UndoStore
    <2>2. CASE ok
        <3>1. /\ session' \in [Request -> Nat \cup {None}] /\ session'[r] = None
              /\ \A s \in Request : s # r => session'[s] = session[s]
            BY <1>0, <2>1, <2>2
        <3> QED
            BY <1>0, <2>1, <2>2, <3>1, StepEnd
    <2>3. CASE ~ok
        BY <1>0, <2>1, <2>3, StepEnd
    <2> QED
        BY <2>2, <2>3
<1>3. ASSUME AnswerStoreError(r) PROVE SignInIInv'
    BY <1>0, <1>3, StepEnd DEF AnswerStoreError
<1>4. ASSUME Vanish(r) PROVE SignInIInv'
    BY <1>0, <1>4, StepEnd DEF Vanish
<1> QED
    BY <1>1, <1>2, <1>3, <1>4

\* Every step of a request keeps the invariant.
LEMMA StepRequest ==
    ASSUME SignInIInv, NEW r \in Request, RequestStep(r) \/ Vanish(r)
    PROVE  SignInIInv'
<1>0. {"AccessDenied", "StoreError", "Vanished"} \subseteq Outcome
    BY DEF Outcome
<1>1. CASE LookupUser(r)
    BY <1>0, <1>1, StepFound, StepGoto, StepReturn DEF LookupUser
<1>2. CASE LookupWinner(r)
    <2>1. account # None \/ deleted
        BY <1>2 DEF LookupWinner, SignInIInv, RaceOf
    <2> QED
        BY <1>0, <1>2, <2>1, StepFound, StepReturn DEF LookupWinner
<1>3. CASE \E ok \in BOOLEAN : CreateUser(r, ok)
    BY <1>3, StepCreated, StepGoto DEF CreateUser
<1>4. CASE StoreFails(r)
    BY <1>0, <1>4, StepReturn DEF StoreFails
<1> QED
    BY <1>1, <1>2, <1>3, <1>4, StepNonce, StepMarker, StepStore, StepTerminal DEF RequestStep

-----------------------------------------------------------------------------
(* The world. *)

\* A step of the world leaves the requests alone: what they hold needs a look only
\* where the records, the clock or the assertions move.
LEMMA StepAround ==
    ASSUME SignInIInv, Types', request' = request, config' = config, store' = store,
           \A r \in Request : session'[r] = session[r] \/ session'[r] = None,
           account' # None \/ deleted' \/ account = None, deleted => deleted',
           \A a \in Assertion : issued[a] # None => issued'[a] = issued[a],
           \A a \in Assertion : NonceSound(a)',
           \A a \in Assertion : issued[a] # None /\ MarkerHeld(a) =>
               MarkerHeld(a)' \/ now' + Lead >= issued[a],
           now' >= now
    PROVE  SignInIInv'
<1>0. Types /\ Lead \in Nat /\ Lead' = Lead /\ now \in Nat /\ now' \in Nat
    BY LeadSound DEF SignInIInv, Types, Lead
<1>1. \A r \in Request : Presents(r)'
    BY DEF SignInIInv, Presents
<1>2. \A r \in Request : SessionOf(request[r], session[r])'
    BY DEF SignInIInv, SessionOf
<1>3. \A r \in Request : RaceOf(request[r], account, deleted)'
    BY DEF SignInIInv, RaceOf
<1>4. ASSUME NEW a \in Assertion PROVE MarkerSound(a)'
    <2>1. ASSUME NEW r \in Request, LiveClaim(r, a)'
          PROVE  LiveClaim(r, a) /\ issued[a] # None /\ issued'[a] = issued[a]
        BY <1>0, <2>1 DEF SignInIInv, Presents, LiveClaim
    <2>2. ASSUME NEW r \in Request, LiveClaim(r, a)'
          PROVE  MarkerHeld(a)' \/ now' + Lead' >= issued'[a]
        <3>1. LiveClaim(r, a) /\ issued[a] \in Nat /\ issued'[a] = issued[a]
            BY <1>0, <2>1, <2>2 DEF Types
        <3>2. MarkerHeld(a) \/ now + Lead >= issued[a]
            BY <3>1 DEF SignInIInv, MarkerSound
        <3>3. CASE MarkerHeld(a)
            BY <1>0, <2>1, <2>2, <3>1, <3>3
        <3>4. CASE now + Lead >= issued[a]
            BY <1>0, <3>1, <3>4
        <3> QED
            BY <3>2, <3>3, <3>4
    <2>3. \A r, s \in Request : LiveClaim(r, a)' /\ LiveClaim(s, a)' => r = s
        BY <2>1 DEF SignInIInv, MarkerSound
    <2> QED
        BY <2>2, <2>3 DEF MarkerSound
<1> QED
    BY <1>1, <1>2, <1>3, <1>4 DEF SignInIInv

\* mint_nonce: nobody is past a nonce that was not minted.
LEMMA StepMint ==
    ASSUME SignInIInv, NEW a \in Assertion, mint_nonce(a)
    PROVE  SignInIInv'
<1> DEFINE k == NonceKey(a)
           x == Kept(now + NonceTtl)
<1>0. Types /\ now + NonceTtl \in Int
    BY SignInAssumption DEF SignInIInv, Types
<1>1. /\ a \notin minted /\ record' = [record EXCEPT ![k] = x] /\ minted' = minted \cup {a}
      /\ UNCHANGED <<store, now, config, issued, account, users, deleted, session, request>>
    BY DEF mint_nonce, put_single_use
<1>2. x \in Int /\ k \in Key
    BY <1>0, KeptSound, KeysDiffer
<1> HIDE DEF x
<1>3. Types'
    BY <1>0, <1>1, <1>2 DEF Types
<1>4. /\ \A b \in Assertion : b # a => record'[NonceKey(b)] = record[NonceKey(b)]
      /\ \A b \in Assertion : record'[MarkerKey(b)] = record[MarkerKey(b)]
    BY <1>0, <1>1, <1>2, KeysDiffer DEF Types
<1>5. ASSUME NEW b \in Assertion PROVE NonceSound(b)'
    <2>1. NonceSound(b) /\ \A r \in Request : Passed(r, b)' = Passed(r, b)
        BY <1>1 DEF SignInIInv, Passed
    <2> QED
        BY <1>1, <1>4, <2>1 DEF NonceSound
<1>6. \A b \in Assertion : MarkerHeld(b) => MarkerHeld(b)'
    BY <1>1, <1>4 DEF MarkerHeld
<1> QED
    BY <1>0, <1>1, <1>3, <1>5, <1>6, StepAround DEF Types

\* The sweep and the expiry of records: a marker that goes has outlived its assertion.
LEMMA StepSweep ==
    ASSUME SignInIInv, NEW k \in Key, SweepRecord(k)
    PROVE  SignInIInv'
<1>0. Types /\ Lead \in Nat /\ StoreClock = now + Lead /\ now \in Nat
    BY LeadSound DEF SignInIInv, Types
<1>1. /\ record[k] # None /\ record[k] < now + Lead /\ record' = [record EXCEPT ![k] = None]
      /\ UNCHANGED <<store, now, config, issued, minted, account, users, deleted, session, request>>
    BY <1>0 DEF SweepRecord, Reap
<1>2. Types'
    BY <1>0, <1>1 DEF Types
<1>3. \A j \in Key : record'[j] = record[j] \/ (j = k /\ record'[j] = None)
    BY <1>0, <1>1 DEF Types
<1>4. ASSUME NEW b \in Assertion PROVE NonceSound(b)'
    <2>1. NonceSound(b) /\ (\A r \in Request : Passed(r, b)' = Passed(r, b)) /\ NonceKey(b) \in Key
        BY <1>1, KeysDiffer DEF SignInIInv, Passed
    <2> QED
        BY <1>1, <1>3, <2>1 DEF NonceSound
<1>5. ASSUME NEW b \in Assertion, issued[b] # None, MarkerHeld(b)
      PROVE  MarkerHeld(b)' \/ now' + Lead >= issued[b]
    <2>1. MarkerKey(b) \in Key /\ issued[b] \in Nat
        BY <1>0, <1>5, KeysDiffer DEF Types
    <2>2. CASE MarkerKey(b) # k
        BY <1>1, <1>3, <1>5, <2>1, <2>2 DEF MarkerHeld
    <2>3. CASE MarkerKey(b) = k
        <3>1. record[k] \in Int /\ record[k] >= issued[b] - 1
            BY <1>0, <1>1, <1>5, <2>1, <2>3 DEF MarkerHeld, Types
        <3> QED
            BY <1>0, <1>1, <2>1, <3>1
    <2> QED
        BY <2>2, <2>3
<1> QED
    BY <1>0, <1>1, <1>2, <1>4, <1>5, StepAround DEF Types

\* The provider, the clock and the operators.
LEMMA StepOutside ==
    ASSUME SignInIInv,
           \/ \E a \in Assertion, exp \in Exp : IssueAssertion(a, exp)
           \/ Tick \/ SuspendUser \/ DeleteUser
    PROVE  SignInIInv'
<1>0. Types /\ now \in Nat
    BY DEF SignInIInv, Types
<1>1. request' = request /\ config' = config /\ store' = store /\ record' = record /\ minted' = minted
    BY DEF IssueAssertion, Tick, SuspendUser, DeleteUser
<1>2. \A b \in Assertion : NonceSound(b)'
    BY <1>1 DEF SignInIInv, NonceSound, Passed
<1>3. CASE \E a \in Assertion, exp \in Exp : IssueAssertion(a, exp)
    <2>1. PICK a \in Assertion, exp \in Exp : IssueAssertion(a, exp)
        BY <1>3
    <2>2. /\ issued[a] = None /\ issued' = [issued EXCEPT ![a] = exp]
          /\ UNCHANGED <<now, account, users, deleted, session>>
        BY <2>1 DEF IssueAssertion
    <2>3. exp \in Nat /\ exp % 2 = 0
        BY SignInAssumption
    <2>4. Types'
        BY <1>0, <1>1, <2>2, <2>3 DEF Types
    <2>5. \A b \in Assertion : issued[b] # None => issued'[b] = issued[b]
        BY <1>0, <2>2 DEF Types
    <2>6. \A b \in Assertion : issued[b] # None /\ MarkerHeld(b) => MarkerHeld(b)'
        BY <1>1, <2>5 DEF MarkerHeld
    <2> QED
        BY <1>0, <1>1, <1>2, <2>2, <2>4, <2>5, <2>6, StepAround
<1>4. CASE Tick
    <2>1. now' = now + 1 /\ UNCHANGED <<issued, account, users, deleted, session>>
        BY <1>4 DEF Tick
    <2>2. Types'
        BY <1>0, <1>1, <2>1 DEF Types
    <2>3. \A b \in Assertion : MarkerHeld(b) => MarkerHeld(b)'
        BY <1>1, <2>1 DEF MarkerHeld
    <2> QED
        BY <1>0, <1>1, <1>2, <2>1, <2>2, <2>3, StepAround
<1>5. CASE SuspendUser \/ DeleteUser
    <2>1. /\ account # None /\ UNCHANGED <<now, issued, users>>
          /\ session' = [r \in Request |-> IF session[r] = account.id THEN None ELSE session[r]]
        BY <1>5 DEF SuspendUser, DeleteUser
    <2>2. \/ deleted' = deleted /\ account' \in Account /\ account' # None
          \/ deleted' = TRUE /\ account' = None
        <3>1. CASE SuspendUser
            <4>1. account \in Account /\ account' = [account EXCEPT !.status = "Suspended"]
                BY <1>0, <2>1, <3>1 DEF Types, SuspendUser
            <4>2. account' \in Account
                BY <4>1 DEF Account
            <4> QED
                BY <3>1, <4>2, SignInAssumption DEF SuspendUser, Account
        <3>2. CASE DeleteUser
            BY <3>2 DEF DeleteUser
        <3> QED
            BY <1>5, <3>1, <3>2
    <2>3. Types'
        BY <1>0, <1>1, <2>1, <2>2 DEF Types
    <2>4. \A b \in Assertion : MarkerHeld(b) => MarkerHeld(b)'
        BY <1>1, <2>1 DEF MarkerHeld
    <2>5. \A r \in Request : session'[r] = session[r] \/ session'[r] = None
        BY <2>1
    <2> QED
        BY <1>0, <1>1, <1>2, <2>1, <2>2, <2>3, <2>4, <2>5, StepAround
<1> QED
    BY <1>3, <1>4, <1>5

\* Every step keeps the invariant.
LEMMA StepSignIn == SignInIInv /\ [SignInNext]_signInVars => SignInIInv'
<1> SUFFICES ASSUME SignInIInv, [SignInNext]_signInVars PROVE SignInIInv'
    OBVIOUS
<1>1. CASE World
    BY <1>1, StepMint, StepSweep, StepOutside DEF World
<1>2. CASE UNCHANGED signInVars
    <2>1. /\ Types' /\ request' = request /\ config' = config /\ store' = store /\ now' = now
          /\ UNCHANGED <<session, account, deleted, issued, record, minted>> /\ now \in Nat
        BY <1>2 DEF SignInIInv, Types, signInVars
    <2>2. \A a \in Assertion : NonceSound(a)' /\ (MarkerHeld(a) => MarkerHeld(a)')
        BY <2>1 DEF SignInIInv, NonceSound, Passed, MarkerHeld
    <2> QED
        BY <2>1, <2>2, StepAround
<1> QED
    BY <1>1, <1>2, StepRequest, StepArrive DEF SignInNext, Finished

-----------------------------------------------------------------------------
\* The invariant of the sign-in: what the requests in flight have passed, claimed and
\* stored agrees with the records the store still holds.
THEOREM SignInInvariant == SignInSpec => []SignInIInv
BY InitSignIn, StepSignIn, PTL DEF SignInSpec

\* A set without two members has at most one.
LEMMA AtMostOne ==
    ASSUME NEW S, \A x, y \in S : x = y
    PROVE  Cardinality(S) <= 1
<1>1. CASE S = {}
    BY <1>1, FS_EmptySet
<1>2. CASE S # {}
    <2>1. PICK x \in S : TRUE
        BY <1>2
    <2>2. S = {x}
        BY <2>1
    <2> QED
        BY <2>2, FS_Singleton
<1> QED
    BY <1>1, <1>2

\* consume_nonce and claim_assertion_marker: over the direct grant an assertion passes its
\* binding once, however requests stall and whenever records are swept.
THEOREM SignInDirectGrantOnce == SignInSpec => []DirectGrantOnce
<1>1. ASSUME SignInIInv PROVE DirectGrantOnce
    <2>1. ASSUME NEW a \in Assertion
          PROVE  Cardinality({r \in ClaimedBy(a) : request[r].grant = "direct"}) <= 1
        <3> DEFINE S == {r \in ClaimedBy(a) : request[r].grant = "direct"}
        <3>1. \A x, y \in S : x = y
            BY <1>1 DEF SignInIInv, NonceSound, Passed, ClaimedBy
        <3> HIDE DEF S
        <3>2. Cardinality(S) <= 1
            BY <3>1, AtMostOne
        <3> QED
            BY <3>2 DEF S
    <2> QED
        BY <2>1 DEF DirectGrantOnce
<1> QED
    BY <1>1, SignInInvariant, PTL

\* claim_assertion_marker over put_single_use: on every store, over either grant, a marker
\* admits one claim while its assertion is alive, whatever the store rounds.
THEOREM SignInLiveAssertionOnce == SignInSpec => []LiveAssertionOnce
<1>1. ASSUME SignInIInv PROVE LiveAssertionOnce
    <2>1. ASSUME NEW a \in Assertion
          PROVE  Cardinality({r \in ClaimedBy(a) : request[r].claimed + (StoreClock - now) < issued[a]}) <= 1
        <3> DEFINE S == {r \in ClaimedBy(a) : request[r].claimed + (StoreClock - now) < issued[a]}
        <3>1. StoreClock - now = Lead
            BY <1>1, LeadSound DEF SignInIInv, Types
        <3>2. \A x, y \in S : x = y
            BY <1>1, <3>1 DEF SignInIInv, MarkerSound, LiveClaim, ClaimedBy
        <3> HIDE DEF S
        <3>3. Cardinality(S) <= 1
            BY <3>2, AtMostOne
        <3> QED
            BY <3>3 DEF S
    <2> QED
        BY <2>1 DEF LiveAssertionOnce
<1> QED
    BY <1>1, SignInInvariant, PTL

\* exchange under enforce: an answer without tokens leaves no session, but for a signing
\* or an undo that failed.
THEOREM SignInErrorLeavesNoSession == SignInSpec => []ErrorLeavesNoSession
<1>1. ASSUME SignInIInv, NEW r \in Request, config.enforce, request[r].answer \notin {"ok", None},
             session[r] # None
      PROVE  request[r].result = "KeyError" \/ request[r].answer = "StoreError"
    <2>1. request[r].pc = "ended"
        <3>1. request[r] \in RequestRecord
            BY <1>1 DEF SignInIInv, Types
        <3> QED
            BY <1>1, <3>1 DEF RequestRecord, RequestShape
    <2> QED
        BY <1>1, <2>1 DEF SignInIInv, SessionOf
<1>2. SignInIInv => ErrorLeavesNoSession
    BY <1>1 DEF ErrorLeavesNoSession
<1> QED
    BY <1>2, SignInInvariant, PTL

\* exchange's registration race: the loser finds the winner's user, unless it was deleted.
THEOREM SignInLoserFindsTheWinner == SignInSpec => []LoserFindsTheWinner
<1>1. SignInIInv => LoserFindsTheWinner
    BY DEF SignInIInv, RaceOf, LoserFindsTheWinner
<1> QED
    BY <1>1, SignInInvariant, PTL

-----------------------------------------------------------------------------
(* Users and their rows. *)

-----------------------------------------------------------------------------
(* Pages of an order. *)

\* R orders S linearly.
Orders(R, S) ==
    /\ \A x \in S : <<x, x>> \notin R
    /\ \A x, y, z \in S : <<x, y>> \in R /\ <<y, z>> \in R => <<x, z>> \in R
    /\ \A x, y \in S : x = y \/ <<x, y>> \in R \/ <<y, x>> \in R

Below(x, R, S) == {y \in S : <<y, x>> \in R}
Above(x, R, S) == {y \in S : <<x, y>> \in R}
FirstBy(S, n, R) == {x \in S : Cardinality(Below(x, R, S)) < n}

\* Of finitely many elements one comes first.
LEMMA LeastElement ==
    ASSUME NEW S, IsFiniteSet(S), NEW R, Orders(R, S), NEW T \in SUBSET S, T # {}
    PROVE  \E x \in T : \A y \in T : x = y \/ <<x, y>> \in R
<1> DEFINE B == {Below(x, R, S) : x \in T}
<1>1. B \subseteq FiniteSubsetsOf(S) /\ B # {}
    <2>1. \A x : Below(x, R, S) \in SUBSET S
        BY DEF Below
    <2>2. \A x : Below(x, R, S) \in FiniteSubsetsOf(S)
        BY <2>1, FS_Subset DEF FiniteSubsetsOf
    <2> QED
        BY <2>2
<1>2. PICK b \in B : \A c \in B : <<c, b>> \notin StrictSubsetOrdering(S)
    <2>1. IsWellFoundedOn(StrictSubsetOrdering(S), FiniteSubsetsOf(S))
        BY FS_StrictSubsetOrderingWellFounded
    <2> HIDE DEF B
    <2> QED
        BY <1>1, <2>1, WFMin
<1>3. PICK x \in T : b = Below(x, R, S)
    OBVIOUS
<1>4. ASSUME NEW y \in T, <<y, x>> \in R
      PROVE  FALSE
    <2>1. /\ Below(y, R, S) \subseteq Below(x, R, S) /\ y \in Below(x, R, S)
          /\ y \notin Below(y, R, S)
        BY <1>4 DEF Orders, Below
    <2>2. <<Below(y, R, S), b>> \in StrictSubsetOrdering(S)
        BY <1>3, <2>1 DEF StrictSubsetOrdering, Below
    <2> QED
        BY <1>2, <2>2
<1> QED
    BY <1>4 DEF Orders

\* And one comes last.
LEMMA GreatestElement ==
    ASSUME NEW S, IsFiniteSet(S), NEW R, Orders(R, S), NEW T \in SUBSET S, T # {}
    PROVE  \E x \in T : \A y \in T : x = y \/ <<y, x>> \in R
<1> DEFINE Q == {p \in S \X S : <<p[2], p[1]>> \in R}
<1>1. \A x, y \in S : <<x, y>> \in Q <=> <<y, x>> \in R
    OBVIOUS
<1> HIDE DEF Q
<1>2. Orders(Q, S)
    BY <1>1 DEF Orders
<1>3. PICK x \in T : \A y \in T : x = y \/ <<x, y>> \in Q
    BY <1>2, LeastElement
<1> QED
    BY <1>1, <1>3

\* The first n of a finite order come before the rest, and are n if there is a rest.
LEMMA FirstComeFirst ==
    ASSUME NEW S, IsFiniteSet(S), NEW R, Orders(R, S), NEW n \in Nat \ {0}
    PROVE  /\ \A x \in FirstBy(S, n, R), y \in S \ FirstBy(S, n, R) : <<x, y>> \in R
           /\ FirstBy(S, n, R) # S => Cardinality(FirstBy(S, n, R)) = n
           /\ Cardinality(FirstBy(S, n, R)) \in Nat
           /\ FirstBy(S, n, R) \subseteq S
<1> DEFINE P == FirstBy(S, n, R)
<1>0. P \subseteq S /\ IsFiniteSet(P) /\ Cardinality(P) \in Nat
    BY FS_Subset, FS_CardinalityType DEF FirstBy
<1>1. \A x \in S : IsFiniteSet(Below(x, R, S)) /\ Cardinality(Below(x, R, S)) \in Nat
    BY FS_Subset, FS_CardinalityType DEF Below
<1>2. ASSUME NEW x \in P, NEW y \in S \ P
      PROVE  <<x, y>> \in R
    <2>1. SUFFICES ASSUME <<y, x>> \in R
                   PROVE  FALSE
        BY <1>0 DEF Orders
    <2>2. Below(y, R, S) \in SUBSET Below(x, R, S)
        BY <1>0, <2>1 DEF Orders, Below
    <2>3. Cardinality(Below(y, R, S)) <= Cardinality(Below(x, R, S))
        BY <1>0, <1>1, <2>2, FS_Subset
    <2>4. Cardinality(Below(x, R, S)) < n /\ ~(Cardinality(Below(y, R, S)) < n)
        BY DEF FirstBy
    <2>5. Cardinality(Below(x, R, S)) \in Nat /\ Cardinality(Below(y, R, S)) \in Nat
        BY <1>0, <1>1
    <2> QED
        BY <2>3, <2>4, <2>5
<1>3. ASSUME P # S
      PROVE  Cardinality(P) = n
    <2> DEFINE T == S \ P
    <2>1. T \in SUBSET S /\ T # {} /\ \A y \in S : y \in T <=> y \notin P
        BY <1>0, <1>3
    <2> HIDE DEF P, T
    <2>2. PICK r \in T : \A y \in T : r = y \/ <<r, y>> \in R
        BY <2>1, LeastElement
    <2>3. Below(r, R, S) = P
        <3>1. \A y \in P : y \in Below(r, R, S)
            BY <1>0, <1>2, <2>1 DEF Below
        <3>2. \A y \in Below(r, R, S) : y \in P
            BY <2>1, <2>2 DEF Below, Orders
        <3> QED
            BY <3>1, <3>2
    <2>4. Cardinality(P) >= n
        BY <1>0, <1>1, <2>1, <2>2, <2>3 DEF FirstBy, P
    <2>5. PICK l \in P : \A y \in P : l = y \/ <<y, l>> \in R
        <3>1. P # {}
            BY <2>4, FS_EmptySet
        <3> QED
            BY <1>0, <3>1, GreatestElement
    <2>6. Below(l, R, S) = P \ {l}
        <3>1. \A y \in Below(l, R, S) : y \in P \ {l}
            BY <1>0, <1>2, <2>5 DEF Below, Orders
        <3>2. \A y \in P \ {l} : y \in Below(l, R, S)
            BY <1>0, <2>5 DEF Below
        <3> QED
            BY <3>1, <3>2
    <2>7. Cardinality(P \ {l}) = Cardinality(P) - 1
        BY <1>0, <2>5, FS_RemoveElement
    <2>8. Cardinality(Below(l, R, S)) < n
        BY <2>5 DEF FirstBy, P
    <2> QED
        BY <1>0, <2>4, <2>6, <2>7, <2>8
<1> QED
    BY <1>0, <1>2, <1>3

-----------------------------------------------------------------------------
(* The invariant. *)

CallState == [pc : {"idle", "read", "write", "report"}, op : Op \cup {Absent}, user : User \cup {Absent},
              seen : SUBSET Call, read : Row \cup {Absent}, attempt : Nat]

Users == {u \in User : Exists(u)}
With(s) == {u \in User : Exists(u) /\ row[u].status = s}

UserTypeOK ==
    /\ backend \in {"sqlite", "postgres", "dynamo"}
    /\ row \in [User -> Row \cup {Absent}]
    /\ guard \in [Identity -> User \cup {Absent}]
    /\ counts \in [Status -> Int]
    /\ call \in [Call -> CallState]
    /\ backfill \subseteq Users /\ old \subseteq Users /\ old \subseteq Old
    /\ buried \subseteq User
    /\ backend # "dynamo" => old = {}

\* What a call at its write has read is the row, unless the row has moved on; the identity
\* and the creation time never move.
FreshRead(p) ==
    LET r == row[call[p].user]
    IN  /\ call[p].read \in Row
        /\ call[p].read.identity = r.identity /\ call[p].read.created_at = r.created_at
        /\ call[p].read = r \/ r.version > get_version_or_default(call[p].read)

CallSound(p) ==
    call[p].pc # "idle" =>
        /\ call[p].op \in Op /\ call[p].user \in User /\ Exists(call[p].user)
        /\ call[p].pc = "write" => FreshRead(p)

\* A guard names a user of its identity; every user that is no stray has its guard.
GuardsSound ==
    /\ \A i \in Identity : guard[i] # Absent => Exists(guard[i]) /\ row[guard[i]].identity = i
    /\ backend = "dynamo" =>
          \A u \in User \ (buried \cup old) : Exists(u) => guard[row[u].identity] = u

\* The unique partial index.
IndexSound ==
    backend # "dynamo" =>
        \A u, v \in User : Standing(u) /\ Standing(v) /\ row[u].identity = row[v].identity => u = v

\* The counter item counts the rows that are not old.
CountsSound ==
    /\ IsFiniteSet(Users)
    /\ backend = "dynamo" =>
          \A s \in Status : counts[s] = Cardinality(With(s)) - (IF s = "Active" THEN Cardinality(old) ELSE 0)

\* u comes after the cursor c.
Beyond(u, c) == IF backend = "dynamo" THEN ScanBefore(c, <<u, 0>>) ELSE Follows(u, c)
Ahead(u) == Beyond(u, walk.cursor)

\* The cursor separates the users shown from those of the beginning still to be shown.
WalkSound ==
    /\ walk \in [pc : {"idle", "walking", "complete"}, cursor : (Nat \X Nat) \cup {Absent}, limit : Nat,
                 first : SUBSET Users, seen : SUBSET Users, twice : {{}}]
    /\ walk.pc = "walking" =>
          /\ walk.limit # 0
          /\ walk.cursor = Absent => walk.seen = {}
          /\ walk.cursor # Absent => /\ \A u \in walk.seen : ~Ahead(u)
                                   /\ \A u \in walk.first : u \in walk.seen \/ Ahead(u)
    /\ walk.pc = "complete" => walk.first \subseteq walk.seen

UserIInv ==
    /\ UserTypeOK
    /\ \A p \in Call : CallSound(p)
    /\ GuardsSound
    /\ IndexSound
    /\ CountsSound
    /\ WalkSound

-----------------------------------------------------------------------------
(* What the steps do to the rows. *)

\* A row appears.
NewUser(u, i, t) ==
    /\ u \in User /\ i \in Identity /\ t \in 1..2
    /\ ~Exists(u)
    /\ row' = [row EXCEPT ![u] = NewRow(i, t)]
    /\ UNCHANGED <<backend, call, backfill, old, buried, walk>>
    /\ \/ backend # "dynamo" /\ IndexAdmits(u, i) /\ UNCHANGED <<guard, counts>>
       \/ /\ backend = "dynamo" /\ guard[i] = Absent
          /\ guard' = [guard EXCEPT ![i] = u] /\ counts' = counter_adjustment(Absent, "Active")

\* A call writes what it read, patched, over what it read.
Wrote(p) ==
    LET u   == call[p].user
        new == Patched(p)
    IN  /\ p \in Call /\ call[p].pc = "write" /\ call[p].read = row[u]
        /\ row' = [row EXCEPT ![u] = new]
        /\ buried' = Buried(u, new)
        /\ Step(p, Written(p))
        /\ UNCHANGED <<backend, backfill, old, walk>>
        /\ \/ /\ backend # "dynamo" /\ UNCHANGED <<guard, counts>>
              /\ new.status = "Deleted" \/ IndexAdmits(u, new.identity)
           \/ /\ backend = "dynamo" /\ (IsDeleteTransition(p) => guard[new.identity] = u)
              /\ guard' = IF IsDeleteTransition(p) THEN [guard EXCEPT ![new.identity] = Absent] ELSE guard
              /\ counts' = IF StatusTransition(p) THEN counter_adjustment(row[u].status, new.status)
                           ELSE counts

\* A call moves on by itself.
Moved(p, c) ==
    /\ p \in Call /\ Step(p, c)
    /\ UNCHANGED <<backend, row, guard, counts, backfill, old, buried, walk>>

\* A call's next state is one of these.
Started(op, u) == [Idle EXCEPT !.pc = "read", !.op = op, !.user = u, !.seen = row[u].claims, !.attempt = 1]
Reread(p) == [call[p] EXCEPT !.pc = "write", !.read = row[call[p].user]]
Retried(p) == [call[p] EXCEPT !.pc = "read", !.read = Absent, !.attempt = @ + 1]

MoveOf(p) ==
    {Idle} \cup {Started(op, u) : op \in Op, u \in Users}
    \cup {c \in {Reread(p), Retried(p)} : call[p].pc # "idle"}

\* A row that exists is no marker.
LEMMA RowIsNotAbsent ==
    ASSUME NEW r \in Row
    PROVE  r # Absent
BY UserAssumption

\* A call whose version condition holds has read the row that is there.
LEMMA VersionMeansCurrent ==
    ASSUME UserTypeOK, NEW p \in Call, CallSound(p), call[p].pc = "write",
           \/ row[call[p].user].version = call[p].read.version
           \/ VersionHolds(p)
    PROVE  call[p].read = row[call[p].user]
<1>1. /\ call[p].user \in User /\ row[call[p].user] \in Row /\ FreshRead(p)
    BY DEF CallSound, UserTypeOK, Exists
<1>2. row[call[p].user].version \in Nat /\ call[p].read.version \in Nat
    BY <1>1 DEF Row, FreshRead
<1> QED
    BY <1>1, <1>2 DEF FreshRead, VersionHolds, get_version_or_default

\* The patch of a row that was read.
LEMMA PatchIsRow ==
    ASSUME UserTypeOK, NEW p \in Call, call[p].read \in Row, call[p].op \in Op
    PROVE  /\ Patched(p) \in Row
           /\ Patched(p).identity = call[p].read.identity
           /\ Patched(p).created_at = call[p].read.created_at
           /\ Patched(p).version = get_version_or_default(call[p].read) + 1
           /\ Patched(p).status = IF Target(call[p].op) = Absent THEN call[p].read.status
                                  ELSE Target(call[p].op)
           /\ Patched(p).email = IF call[p].op = "email" THEN p ELSE call[p].read.email
           /\ call[p].op \notin {"set_claims", "merge_claims", "clear_claims"} =>
                 Patched(p).claims = call[p].read.claims
<1>1. call[p] \in CallState
    BY DEF UserTypeOK
<1>2. call[p].seen \subseteq Call
    BY <1>1 DEF CallState
<1>3. Target(call[p].op) = Absent \/ Target(call[p].op) \in Status
    BY DEF Target, Status, Op
<1>4. get_version_or_default(call[p].read) \in Nat
    BY DEF get_version_or_default, Row
<1>5. admin_set_claims(p) \subseteq Call /\ admin_merge_claims(p) \subseteq Call
      /\ admin_clear_claims(p) \subseteq Call
    BY <1>2 DEF admin_set_claims, admin_merge_claims, admin_clear_claims
<1> DEFINE r == call[p].read
           cl == CASE call[p].op = "set_claims" -> admin_set_claims(p)
                   [] call[p].op = "merge_claims" -> admin_merge_claims(p)
                   [] call[p].op = "clear_claims" -> admin_clear_claims(p)
                   [] OTHER -> r.claims
           st == IF Target(call[p].op) = Absent THEN r.status ELSE Target(call[p].op)
           em == IF call[p].op = "email" THEN p ELSE r.email
           ve == get_version_or_default(r) + 1
<1>6. /\ cl \subseteq Call /\ st \in Status /\ em \in Call \cup {Absent} /\ ve \in Nat
      /\ call[p].op \notin {"set_claims", "merge_claims", "clear_claims"} => cl = r.claims
    BY <1>3, <1>4, <1>5 DEF Row
<1>7. Patched(p) = [r EXCEPT !.status = st, !.email = em, !.claims = cl, !.version = ve]
    BY DEF Patched
<1> HIDE DEF cl, st, em, ve
<1>8. Patched(p) = [identity |-> r.identity, status |-> st, email |-> em, claims |-> cl,
                    version |-> ve, created_at |-> r.created_at]
    BY <1>7 DEF Row
<1>9. r.identity \in Identity /\ r.created_at \in 1..2
    BY DEF Row
<1> QED
    BY <1>6, <1>8, <1>9 DEF Row, st, em, ve

\* The walk moves on.
Walked ==
    /\ (\E limit \in 1..(PageLimit + 1) : BeginWalk(limit)) \/ admin_list_users \/ EndWalk
    /\ UNCHANGED <<backend, row, guard, counts, call, backfill, old, buried>>

\* Every step is one of these.
LEMMA StepKinds ==
    ASSUME UserTypeOK, \A p \in Call : CallSound(p), UserNext
    PROVE  \/ \E u, i, t : NewUser(u, i, t)
           \/ \E p \in Call : Wrote(p)
           \/ \E p \in Call : \E c \in MoveOf(p) : Moved(p, c)
           \/ Walked
           \/ BackfillScan
           \/ \E u \in User : backfill_uniqueness_guards(u)
           \/ UNCHANGED userVars
<1>1. ASSUME NEW u \in User, NEW i \in Identity, NEW t \in Clock, admin_create_user(u, i, t)
      PROVE  NewUser(u, i, t)
    <2>1. t \in 1..2
        BY DEF Clock
    <2> QED
        BY <1>1, <2>1 DEF admin_create_user, create_user_sqlite, create_user_postgres,
            create_user_dynamo, NewUser
<1>2. ASSUME NEW p \in Call, NEW op \in Op, NEW u \in User, StartCall(p, op, u)
      PROVE  \E c \in MoveOf(p) : Moved(p, c)
    <2>1. u \in Users
        BY <1>2 DEF StartCall, Users
    <2>2. Started(op, u) \in MoveOf(p)
        BY <2>1 DEF MoveOf
    <2>3. Moved(p, Started(op, u))
        BY <1>2 DEF StartCall, Moved, Started
    <2> QED
        BY <2>2, <2>3
<1>3. ASSUME NEW p \in Call, ReadForUpdate(p)
      PROVE  \E c \in MoveOf(p) : Moved(p, c)
    <2>1. Reread(p) \in MoveOf(p)
        BY <1>3 DEF MoveOf, ReadForUpdate
    <2>2. Moved(p, Reread(p))
        BY <1>3 DEF ReadForUpdate, Moved, Reread
    <2> QED
        BY <2>1, <2>2
<1>4. ASSUME NEW p \in Call, call[p].pc = "write", retry_on_version_conflict(p),
             UNCHANGED <<backend, row, guard, counts, backfill, old, buried, walk>>
      PROVE  \E c \in MoveOf(p) : Moved(p, c)
    <2> DEFINE c == IF call[p].attempt = MaxAttempts THEN Idle
                    ELSE Retried(p)
    <2>1. c \in MoveOf(p)
        BY <1>4 DEF MoveOf
    <2>2. Moved(p, c)
        BY <1>4 DEF retry_on_version_conflict, Moved, Retried
    <2> QED
        BY <2>1, <2>2
<1>5. ASSUME NEW p \in Call, Moved(p, Idle)
      PROVE  \E c \in MoveOf(p) : Moved(p, c)
    <2>1. Idle \in MoveOf(p)
        BY DEF MoveOf
    <2> QED
        BY <1>5, <2>1
<1>6. ASSUME NEW p \in Call, SqlUpdate(p), backend # "dynamo"
      PROVE  Wrote(p) \/ \E c \in MoveOf(p) : Moved(p, c)
    <2>1. call[p].pc = "write" /\ UNCHANGED <<backend, guard, counts, backfill, old, walk>>
        BY <1>6 DEF SqlUpdate
    <2>2. CASE row[call[p].user].version # call[p].read.version
        BY <1>4, <1>6, <2>1, <2>2 DEF SqlUpdate
    <2>3. CASE row[call[p].user].version = call[p].read.version
        <3>1. call[p].read = row[call[p].user]
            BY <2>1, <2>3, VersionMeansCurrent
        <3>2. CASE Patched(p).status # "Deleted" /\ ~IndexAdmits(call[p].user, Patched(p).identity)
            <4>1. Moved(p, Idle)
                BY <1>6, <2>1, <2>3, <3>2 DEF SqlUpdate, Moved
            <4> QED
                BY <4>1, <1>5
        <3>3. CASE ~(Patched(p).status # "Deleted" /\ ~IndexAdmits(call[p].user, Patched(p).identity))
            BY <1>6, <2>1, <2>3, <3>1, <3>3 DEF SqlUpdate, Wrote
        <3> QED
            BY <3>2, <3>3
    <2> QED
        BY <2>2, <2>3
<1>7. ASSUME NEW p \in Call, update_user_dynamo(p)
      PROVE  Wrote(p) \/ \E c \in MoveOf(p) : Moved(p, c)
    <2>1. call[p].pc = "write" /\ backend = "dynamo" /\ UNCHANGED <<backend, backfill, old, walk>>
        BY <1>7 DEF update_user_dynamo
    <2> DEFINE C == VersionHolds(p) /\ (IsDeleteTransition(p) => guard[Patched(p).identity] = call[p].user)
    <2>2. CASE ~C
        <3>1. retry_on_version_conflict(p) /\ UNCHANGED <<row, guard, counts, buried>>
            BY <1>7, <2>2 DEF update_user_dynamo
        <3> QED
            BY <1>4, <2>1, <3>1
    <2>3. CASE C
        <3>1. call[p].read = row[call[p].user]
            BY <2>1, <2>3, VersionMeansCurrent
        <3> QED
            BY <1>7, <2>1, <2>3, <3>1 DEF update_user_dynamo, Wrote
    <2> QED
        BY <2>2, <2>3
<1>8. ASSUME NEW p \in Call, emit_admin_mutation_audit_event(p) \/ CallFails(p)
      PROVE  \E c \in MoveOf(p) : Moved(p, c)
    BY <1>5, <1>8 DEF emit_admin_mutation_audit_event, CallFails, Moved
<1>9. ASSUME (\E limit \in 1..(PageLimit + 1) : BeginWalk(limit)) \/ admin_list_users \/ EndWalk
      PROVE  Walked
    BY <1>9 DEF Walked, BeginWalk, admin_list_users, EndWalk
<1>10. ASSUME NEW i \in Identity, Lookup(i)
       PROVE  UNCHANGED userVars
    BY <1>10 DEF Lookup
<1>11. CASE \E u \in User, i \in Identity, t \in Clock : admin_create_user(u, i, t)
    BY <1>1, <1>11
<1>12. CASE \E p \in Call, op \in Op, u \in User : StartCall(p, op, u)
    BY <1>2, <1>12
<1>13. CASE \E p \in Call : \/ ReadForUpdate(p) \/ update_user_sqlite(p) \/ update_user_postgres(p)
                            \/ update_user_dynamo(p) \/ emit_admin_mutation_audit_event(p)
                            \/ CallFails(p)
    BY <1>3, <1>6, <1>7, <1>8, <1>13 DEF update_user_sqlite, update_user_postgres
<1> QED
    BY <1>9, <1>10, <1>11, <1>12, <1>13 DEF UserNext

-----------------------------------------------------------------------------
(* Each kind of step keeps the invariant. *)

\* What the walk relies on: no user goes away, and none moves in the order.
LEMMA WalkUndisturbed ==
    ASSUME WalkSound, walk' = walk, backend' = backend, Users \subseteq Users',
           \A v \in Users : row'[v].created_at = row[v].created_at
    PROVE  WalkSound'
<1>1. \A v \in Users : Ahead(v)' <=> Ahead(v)
    BY DEF Ahead, Beyond, Follows, ScanBefore
<1>2. walk.first \subseteq Users /\ walk.seen \subseteq Users
    BY DEF WalkSound
<1>3. walk' \in [pc : {"idle", "walking", "complete"}, cursor : (Nat \X Nat) \cup {Absent}, limit : Nat,
                 first : SUBSET Users', seen : SUBSET Users', twice : {{}}]
    <2> DEFINE U == Users
               V == Users'
    <2>1. walk \in [pc : {"idle", "walking", "complete"}, cursor : (Nat \X Nat) \cup {Absent}, limit : Nat,
                    first : SUBSET U, seen : SUBSET U, twice : {{}}]
        BY DEF WalkSound
    <2>2. U \subseteq V /\ walk' = walk
        OBVIOUS
    <2> HIDE DEF U, V
    <2>3. walk' \in [pc : {"idle", "walking", "complete"}, cursor : (Nat \X Nat) \cup {Absent}, limit : Nat,
                     first : SUBSET V, seen : SUBSET V, twice : {{}}]
        BY <2>1, <2>2
    <2> QED
        BY <2>3 DEF V
<1>4. walk'.pc = "walking" =>
          /\ walk'.limit # 0
          /\ walk'.cursor = Absent => walk'.seen = {}
          /\ walk'.cursor # Absent => /\ \A u \in walk'.seen : ~Ahead(u)'
                                    /\ \A u \in walk'.first : u \in walk'.seen \/ Ahead(u)'
    BY <1>1, <1>2 DEF WalkSound
<1> QED
    BY <1>3, <1>4 DEF WalkSound

\* create_user: the identity is free by the index or by the guard.
LEMMA CreateKeeps ==
    ASSUME UserIInv, NEW u, NEW i, NEW t, NewUser(u, i, t)
    PROVE  UserIInv'
<1>0. /\ UserTypeOK /\ u \in User /\ i \in Identity /\ t \in 1..2 /\ row[u] = Absent
      /\ row' = [row EXCEPT ![u] = NewRow(i, t)]
      /\ UNCHANGED <<backend, call, backfill, old, buried, walk>>
    BY DEF UserIInv, NewUser, Exists
<1>1. /\ NewRow(i, t) \in Row /\ NewRow(i, t).identity = i /\ NewRow(i, t).status = "Active"
    BY <1>0 DEF NewRow, Row, Status
<1>2. row' \in [User -> Row \cup {Absent}]
      /\ \A v \in User : row'[v] = IF v = u THEN NewRow(i, t) ELSE row[v]
    BY <1>0, <1>1 DEF UserTypeOK
<1>3. NewRow(i, t) # Absent
    BY <1>1, RowIsNotAbsent
<1>4. \A v \in User : Exists(v)' <=> v = u \/ Exists(v)
    BY <1>2, <1>3 DEF Exists
<1>5. Users' = Users \cup {u} /\ u \notin Users
    BY <1>0, <1>4 DEF Users, Exists
<1>6. UserTypeOK'
    <2>1. guard' \in [Identity -> User \cup {Absent}]
        BY <1>0 DEF NewUser, UserTypeOK
    <2>2. counts' \in [Status -> Int]
        BY <1>0 DEF NewUser, UserTypeOK, counter_adjustment
    <2> QED
        BY <1>0, <1>2, <1>5, <2>1, <2>2 DEF UserTypeOK
<1>7. \A p \in Call : CallSound(p)'
    <2> SUFFICES ASSUME NEW p \in Call, call[p].pc # "idle"
                 PROVE  CallSound(p)'
        BY <1>0 DEF CallSound
    <2>1. /\ CallSound(p) /\ call[p].user \in User /\ Exists(call[p].user)
        BY DEF UserIInv, CallSound
    <2>2. row'[call[p].user] = row[call[p].user]
        BY <1>0, <1>2, <2>1 DEF Exists
    <2> QED
        BY <1>0, <1>4, <2>1, <2>2 DEF CallSound, FreshRead
<1>8. GuardsSound'
    <2>1. ASSUME NEW j \in Identity, NEW g, g = guard'[j], g # Absent
          PROVE  row'[g] # Absent /\ row'[g].identity = j
        <3>1. CASE g = u /\ i = j
            BY <1>0, <1>1, <1>2, <1>3, <3>1
        <3>2. CASE g = guard[j]
            <4>1. g \in User /\ row[g] # Absent /\ row[g].identity = j
                BY <1>0, <2>1, <3>2 DEF UserIInv, GuardsSound, UserTypeOK, Exists
            <4> QED
                BY <1>0, <1>2, <4>1
        <3> QED
            BY <2>1, <3>1, <3>2, <1>0 DEF NewUser, UserTypeOK
    <2>2. ASSUME backend = "dynamo", NEW v \in User \ (buried \cup old), Exists(v)'
          PROVE  guard'[row'[v].identity] = v
        <3>1. guard[i] = Absent /\ guard' = [guard EXCEPT ![i] = u]
            BY <2>2 DEF NewUser
        <3>2. CASE v = u
            BY <1>0, <1>1, <1>2, <3>1, <3>2 DEF UserTypeOK
        <3>3. CASE v # u
            <4>1. Exists(v) /\ row'[v] = row[v] /\ row[v] \in Row
                BY <1>0, <1>2, <1>4, <2>2, <3>3 DEF UserTypeOK, Exists
            <4>2. guard[row[v].identity] = v /\ row[v].identity \in Identity
                BY <2>2, <4>1 DEF UserIInv, GuardsSound, Row
            <4>3. v # Absent
                BY <2>2, UserAssumption
            <4> QED
                BY <1>0, <3>1, <4>1, <4>2, <4>3 DEF UserTypeOK
        <3> QED
            BY <3>2, <3>3
    <2> QED
        BY <1>0, <2>1, <2>2 DEF GuardsSound, Exists
<1>9. IndexSound'
    <2> SUFFICES ASSUME backend # "dynamo", NEW v \in User, NEW w \in User, Standing(v)', Standing(w)',
                        row'[v].identity = row'[w].identity, v # w
                 PROVE  FALSE
        BY <1>0 DEF IndexSound
    <2>1. IndexAdmits(u, i)
        BY DEF NewUser
    <2>2. \A x \in User \ {u} : Standing(x)' => Standing(x) /\ row'[x] = row[x]
        BY <1>2, <1>4 DEF Standing
    <2>3. CASE v # u /\ w # u
        BY <2>2, <2>3 DEF UserIInv, IndexSound
    <2>4. CASE v = u
        BY <1>1, <1>2, <2>1, <2>2, <2>4 DEF IndexAdmits
    <2>5. CASE w = u
        BY <1>1, <1>2, <2>1, <2>2, <2>5 DEF IndexAdmits
    <2> QED
        BY <2>3, <2>4, <2>5
<1>10. CountsSound'
    <2>1. IsFiniteSet(Users) /\ IsFiniteSet(Users')
        BY <1>5, FS_AddElement DEF UserIInv, CountsSound
    <2>2. ASSUME backend = "dynamo", NEW s \in Status
          PROVE  counts'[s] = Cardinality(With(s)') - (IF s = "Active" THEN Cardinality(old) ELSE 0)
        <3>1. counts' = counter_adjustment(Absent, "Active")
            BY <2>2 DEF NewUser
        <3>2. counts'[s] = counts[s] + (IF s = "Active" THEN 1 ELSE 0)
            BY <1>0, <3>1, UserAssumption DEF counter_adjustment, UserTypeOK
        <3>3. With(s)' = IF s = "Active" THEN With(s) \cup {u} ELSE With(s)
            <4>1. \A v : v \in With(s)' <=> v \in With(s) \/ (v = u /\ s = "Active")
                BY <1>0, <1>1, <1>2, <1>3 DEF With, Exists
            <4> QED
                BY <4>1
        <3>4. With(s) \in SUBSET Users /\ u \notin With(s)
            BY <1>0 DEF With, Users, Exists
        <3>5. IsFiniteSet(With(s)) /\ Cardinality(With(s)) \in Nat
            BY <2>1, <3>4, FS_Subset, FS_CardinalityType
        <3>6. Cardinality(With(s) \cup {u}) = Cardinality(With(s)) + 1
            BY <3>4, <3>5, FS_AddElement
        <3>7. counts[s] = Cardinality(With(s)) - (IF s = "Active" THEN Cardinality(old) ELSE 0)
            BY <2>2 DEF UserIInv, CountsSound
        <3>8. Cardinality(old) \in Nat
            BY <1>0, <2>1, FS_Subset, FS_CardinalityType DEF UserTypeOK
        <3> QED
            BY <3>2, <3>3, <3>5, <3>6, <3>7, <3>8
    <2> QED
        BY <1>0, <2>1, <2>2 DEF CountsSound
<1>11. WalkSound'
    <2>1. \A v \in Users : row'[v] = row[v]
        BY <1>0, <1>2 DEF Users, Exists
    <2> QED
        BY <1>0, <1>5, <2>1, WalkUndisturbed DEF UserIInv
<1> QED
    BY <1>6, <1>7, <1>8, <1>9, <1>10, <1>11 DEF UserIInv

\* update_user: the row is patched in place, its version goes up, and the guard goes with the
\* first deletion.
LEMMA WriteKeeps ==
    ASSUME UserIInv, NEW p \in Call, Wrote(p)
    PROVE  UserIInv'
<1> DEFINE u == call[p].user
           new == Patched(p)
<1>0. /\ UserTypeOK /\ CallSound(p) /\ call[p].pc = "write" /\ call[p].read = row[u]
      /\ row' = [row EXCEPT ![u] = new] /\ buried' = Buried(u, new)
      /\ call' = [call EXCEPT ![p] = Written(p)]
      /\ UNCHANGED <<backend, backfill, old, walk>>
    BY DEF UserIInv, Wrote, Step
<1>1. u \in User /\ row[u] \in Row /\ call[p].op \in Op /\ row[u] # Absent
    BY <1>0 DEF CallSound, UserTypeOK, Exists
<1>2. /\ new \in Row /\ new.identity = row[u].identity /\ new.created_at = row[u].created_at
      /\ new.version = get_version_or_default(row[u]) + 1
      /\ new.status = IF Target(call[p].op) = Absent THEN row[u].status ELSE Target(call[p].op)
    BY <1>0, <1>1, PatchIsRow
<1>3. new # Absent
    BY <1>2, RowIsNotAbsent
<1>4. PICK a : a = u
    OBVIOUS
<1>5. PICK r : r = new
    OBVIOUS
<1>6. \A v \in User : row'[v] = IF v = a THEN r ELSE row[v]
    BY <1>0, <1>4, <1>5 DEF UserTypeOK
<1>7. /\ a \in User /\ row[a] # Absent /\ row[a] \in Row /\ r \in Row /\ r # Absent
      /\ r.identity = row[a].identity /\ r.created_at = row[a].created_at
      /\ r.version = get_version_or_default(row[a]) + 1
      /\ r.status = IF Target(call[p].op) = Absent THEN row[a].status ELSE Target(call[p].op)
    BY <1>1, <1>2, <1>3, <1>4, <1>5
<1>8. /\ call[p].read = row[a] /\ buried' = (IF r.status = "Deleted" THEN buried \cup {a} ELSE buried)
      /\ call[p].user = a
    BY <1>0, <1>4, <1>5 DEF Buried
<1>9. /\ row' \in [User -> Row \cup {Absent}]
    BY <1>0, <1>4, <1>5, <1>7 DEF UserTypeOK
<1>10. \/ /\ backend # "dynamo" /\ UNCHANGED <<guard, counts>>
          /\ r.status = "Deleted" \/ IndexAdmits(a, r.identity)
       \/ /\ backend = "dynamo" /\ (IsDeleteTransition(p) => guard[r.identity] = a)
          /\ guard' = IF IsDeleteTransition(p) THEN [guard EXCEPT ![r.identity] = Absent] ELSE guard
          /\ counts' = IF StatusTransition(p) THEN counter_adjustment(row[a].status, r.status)
                       ELSE counts
    BY <1>4, <1>5 DEF Wrote
<1> HIDE DEF u, new
<1>11. \A v \in User : Exists(v)' <=> Exists(v)
    BY <1>6, <1>7 DEF Exists
<1>12. Users' = Users
    BY <1>11 DEF Users
<1>13. /\ Written(p).pc = "report" /\ Written(p).op = call[p].op /\ Written(p).user = a
       /\ Written(p) \in CallState
    <2>1. call[p].op \in Op
        BY <1>0 DEF CallSound
    <2>2. Idle \in CallState
        BY DEF Idle, CallState
    <2> QED
        BY <1>7, <1>8, <2>1, <2>2 DEF Written, CallState
<1>14. UserTypeOK'
    <2>1. call' \in [Call -> CallState]
        BY <1>0, <1>13 DEF UserTypeOK
    <2>2. r.identity \in Identity /\ guard' \in [Identity -> User \cup {Absent}]
        BY <1>0, <1>7, <1>10 DEF UserTypeOK, Row
    <2>3. counts' \in [Status -> Int]
        BY <1>0, <1>10 DEF UserTypeOK, counter_adjustment
    <2>4. buried' \subseteq User
        BY <1>0, <1>7, <1>8 DEF UserTypeOK
    <2> QED
        BY <1>0, <1>9, <1>12, <2>1, <2>2, <2>3, <2>4 DEF UserTypeOK
<1>15. ASSUME NEW q \in Call
       PROVE  CallSound(q)'
    <2>1. CASE q = p
        <3>1. call'[q] = Written(p)
            BY <1>0, <2>1 DEF UserTypeOK
        <3> QED
            BY <1>0, <1>6, <1>7, <1>13, <3>1 DEF CallSound, Exists
    <2>2. CASE q # p
        <3>1. call'[q] = call[q] /\ CallSound(q)
            BY <1>0, <2>2 DEF UserTypeOK, UserIInv
        <3>2. CASE call[q].pc = "write"
            <4>1. FreshRead(q) /\ call[q].user \in User /\ Exists(call[q].user)
                BY <3>1, <3>2 DEF CallSound
            <4>2. call[q].read.version \in Nat /\ row[a].version \in Nat
                BY <1>7, <4>1 DEF FreshRead, Row
            <4>3. call[q].user = a => r.version > get_version_or_default(call[q].read)
                BY <1>7, <4>1, <4>2 DEF FreshRead, get_version_or_default
            <4>4. FreshRead(q)'
                BY <1>6, <1>7, <3>1, <4>1, <4>3 DEF FreshRead
            <4>5. Exists(call[q].user)'
                BY <1>6, <1>7, <3>1, <4>1 DEF Exists
            <4> QED
                BY <3>1, <3>2, <4>1, <4>4, <4>5 DEF CallSound
        <3>3. CASE call[q].pc # "write"
            BY <1>6, <1>7, <3>1, <3>3 DEF CallSound, Exists
        <3> QED
            BY <3>2, <3>3
    <2> QED
        BY <2>1, <2>2
<1>16. GuardsSound'
    <2>0. r.identity \in Identity
        BY <1>7 DEF Row
    <2>1. ASSUME NEW j \in Identity, NEW g, g = guard'[j], g # Absent
          PROVE  row'[g] # Absent /\ row'[g].identity = j
        <3>1. g = guard[j]
            BY <1>0, <1>10, <2>0, <2>1 DEF UserTypeOK
        <3>2. g \in User /\ row[g] # Absent /\ row[g].identity = j
            BY <1>0, <2>1, <3>1 DEF UserIInv, GuardsSound, UserTypeOK, Exists
        <3> QED
            BY <1>6, <1>7, <3>2
    <2>2. ASSUME backend = "dynamo", NEW v \in User \ (buried' \cup old), Exists(v)'
          PROVE  guard'[row'[v].identity] = v
        <3>1. v \notin buried /\ Exists(v) /\ row'[v].identity = row[v].identity
            BY <1>6, <1>7, <1>8, <1>11, <2>2
        <3>2. guard[row[v].identity] = v /\ row[v].identity \in Identity
            BY <1>0, <2>2, <3>1 DEF UserIInv, GuardsSound, UserTypeOK, Exists, Row
        <3>3. CASE ~IsDeleteTransition(p)
            BY <1>10, <2>2, <3>1, <3>2, <3>3
        <3>4. CASE IsDeleteTransition(p)
            <4>1. r.status = "Deleted"
                BY <1>7, <3>4, UserAssumption DEF IsDeleteTransition, Target, Status
            <4>2. v # a
                BY <1>8, <2>2, <4>1
            <4> QED
                BY <1>0, <1>10, <2>0, <2>2, <3>1, <3>2, <3>4, <4>2 DEF UserTypeOK
        <3> QED
            BY <3>3, <3>4
    <2> QED
        BY <1>0, <2>1, <2>2 DEF GuardsSound, Exists
<1>17. IndexSound'
    <2> SUFFICES ASSUME backend # "dynamo", NEW v \in User, NEW w \in User, Standing(v)', Standing(w)',
                        row'[v].identity = row'[w].identity, v # w
                 PROVE  FALSE
        BY <1>0 DEF IndexSound
    <2>1. r.status = "Deleted" \/ IndexAdmits(a, r.identity)
        BY <1>10
    <2>2. \A x \in User \ {a} : Standing(x)' => Standing(x) /\ row'[x] = row[x]
        BY <1>6, <1>11 DEF Standing
    <2>3. \A x \in {a} : Standing(x)' => r.status # "Deleted"
        BY <1>6, <1>7 DEF Standing
    <2>4. CASE v # a /\ w # a
        BY <2>2, <2>4 DEF UserIInv, IndexSound
    <2>5. CASE v = a
        BY <1>6, <2>1, <2>2, <2>3, <2>5 DEF IndexAdmits
    <2>6. CASE w = a
        BY <1>6, <2>1, <2>2, <2>3, <2>6 DEF IndexAdmits
    <2> QED
        BY <2>4, <2>5, <2>6
<1>18. CountsSound'
    <2>1. IsFiniteSet(Users) /\ IsFiniteSet(Users')
        BY <1>12 DEF UserIInv, CountsSound
    <2>2. ASSUME backend = "dynamo", NEW s \in Status
          PROVE  counts'[s] = Cardinality(With(s)') - (IF s = "Active" THEN Cardinality(old) ELSE 0)
        <3>1. With(s)' = IF s = r.status THEN With(s) \cup {a} ELSE With(s) \ {a}
            <4>1. \A v : v \in With(s)' <=> (v = a /\ s = r.status) \/ (v # a /\ v \in With(s))
                BY <1>6, <1>7 DEF With, Exists
            <4> QED
                BY <4>1
        <3>2. With(s) \in SUBSET Users /\ (a \in With(s) <=> s = row[a].status)
            BY <1>7 DEF With, Users, Exists
        <3>3. IsFiniteSet(With(s)) /\ Cardinality(With(s)) \in Nat
            BY <2>1, <3>2, FS_Subset, FS_CardinalityType
        <3>4. counts'[s] = counts[s] + (IF s = r.status THEN 1 ELSE 0) - (IF s = row[a].status THEN 1 ELSE 0)
            <4>1. counts[s] \in Int
                BY <1>0 DEF UserTypeOK
            <4>2. CASE StatusTransition(p)
                BY <1>10, <2>2, <4>1, <4>2 DEF counter_adjustment
            <4>3. CASE ~StatusTransition(p)
                <5>1. r.status = row[a].status
                    BY <1>7, <1>8, <4>3 DEF StatusTransition
                <5> QED
                    BY <1>10, <2>2, <4>1, <4>3, <5>1
            <4> QED
                BY <4>2, <4>3
        <3>5. /\ Cardinality(With(s) \cup {a}) = Cardinality(With(s)) + (IF s = row[a].status THEN 0 ELSE 1)
              /\ Cardinality(With(s) \ {a}) = Cardinality(With(s)) - (IF s = row[a].status THEN 1 ELSE 0)
            <4>1. /\ Cardinality(With(s) \cup {a}) = IF a \in With(s) THEN Cardinality(With(s))
                                                     ELSE Cardinality(With(s)) + 1
                  /\ Cardinality(With(s) \ {a}) = IF a \in With(s) THEN Cardinality(With(s)) - 1
                                                  ELSE Cardinality(With(s))
                BY <3>3, FS_AddElement, FS_RemoveElement
            <4> QED
                BY <3>2, <3>3, <4>1
        <3>6. counts[s] = Cardinality(With(s)) - (IF s = "Active" THEN Cardinality(old) ELSE 0)
            BY <2>2 DEF UserIInv, CountsSound
        <3>7. Cardinality(old) \in Nat
            BY <1>0, <2>1, FS_Subset, FS_CardinalityType DEF UserTypeOK
        <3> QED
            BY <3>1, <3>3, <3>4, <3>5, <3>6, <3>7
    <2> QED
        BY <1>0, <2>1, <2>2 DEF CountsSound
<1>19. WalkSound'
    <2>1. \A v \in Users : row'[v].created_at = row[v].created_at
        BY <1>6, <1>7 DEF Users
    <2> QED
        BY <1>0, <1>12, <2>1, WalkUndisturbed DEF UserIInv
<1> QED
    BY <1>14, <1>15, <1>16, <1>17, <1>18, <1>19 DEF UserIInv

\* A call that moves on by itself: a read is fresh when it is made.
LEMMA MoveKeeps ==
    ASSUME UserIInv, NEW p \in Call, NEW c \in MoveOf(p), Moved(p, c)
    PROVE  UserIInv'
<1>0. /\ UserTypeOK /\ CallSound(p) /\ call' = [call EXCEPT ![p] = c]
      /\ UNCHANGED <<backend, row, guard, counts, backfill, old, buried, walk>>
    BY DEF UserIInv, Moved, Step
<1> DEFINE Good == /\ c \in CallState
                   /\ c.pc # "idle" => c.op \in Op /\ c.user \in User /\ Exists(c.user)
                   /\ c.pc = "write" => c.read = row[c.user]
<1>1. Good
    <2>1. call[p] \in CallState
        BY <1>0 DEF UserTypeOK
    <2>2. CASE c = Idle
        BY <2>2, UserAssumption DEF Idle, CallState
    <2>3. ASSUME NEW op \in Op, NEW u \in Users, c = Started(op, u)
          PROVE  Good
        <3>1. u \in User /\ row[u] \in Row /\ Exists(u)
            BY <1>0 DEF Users, UserTypeOK, Exists
        <3>2. row[u].claims \in SUBSET Call
            BY <3>1 DEF Row
        <3>3. c = [pc |-> "read", op |-> op, user |-> u, seen |-> row[u].claims, read |-> Absent,
                   attempt |-> 1]
            BY <2>3 DEF Started, Idle
        <3> QED
            BY <3>1, <3>2, <3>3 DEF CallState
    <2>4. CASE call[p].pc # "idle" /\ c = Reread(p)
        <3>1. call[p].user \in User /\ row[call[p].user] \in Row /\ call[p].op \in Op
            BY <1>0, <2>4 DEF CallSound, UserTypeOK, Exists
        <3>2. c = [pc |-> "write", op |-> call[p].op, user |-> call[p].user, seen |-> call[p].seen,
                   read |-> row[call[p].user], attempt |-> call[p].attempt]
            BY <2>1, <2>4 DEF Reread, CallState
        <3> QED
            BY <1>0, <2>1, <2>4, <3>1, <3>2 DEF CallSound, CallState
    <2>5. CASE call[p].pc # "idle" /\ c = Retried(p)
        <3>1. c = [pc |-> "read", op |-> call[p].op, user |-> call[p].user, seen |-> call[p].seen,
                   read |-> Absent, attempt |-> call[p].attempt + 1]
            BY <2>1, <2>5 DEF Retried, CallState
        <3> QED
            BY <1>0, <2>1, <2>5, <3>1 DEF CallSound, CallState
    <2> QED
        BY <2>2, <2>3, <2>4, <2>5 DEF MoveOf
<1>2. UserTypeOK'
    BY <1>0, <1>1 DEF UserTypeOK, Users, Exists
<1>3. ASSUME NEW q \in Call
      PROVE  CallSound(q)'
    <2>1. CASE q # p
        BY <1>0, <2>1 DEF UserTypeOK, UserIInv, CallSound, FreshRead, Exists
    <2>2. CASE q = p
        <3>1. call'[q] = c
            BY <1>0, <2>2 DEF UserTypeOK
        <3>2. c.pc = "write" => row[c.user] \in Row
            BY <1>0, <1>1 DEF UserTypeOK, Exists
        <3> QED
            BY <1>0, <1>1, <3>1, <3>2 DEF CallSound, FreshRead, Exists
    <2> QED
        BY <2>1, <2>2
<1>4. GuardsSound' /\ IndexSound' /\ CountsSound'
    BY <1>0 DEF UserIInv, GuardsSound, IndexSound, CountsSound, Users, With, Standing, Exists
<1>5. WalkSound'
    <2>1. Users' = Users
        BY <1>0 DEF Users, Exists
    <2> QED
        BY <1>0, <2>1, WalkUndisturbed DEF UserIInv
<1> QED
    BY <1>2, <1>3, <1>4, <1>5 DEF UserIInv

\* backfill_uniqueness_guards: a guard is put only where there is none, for a user that is there.
LEMMA BackfillKeeps ==
    ASSUME UserIInv, BackfillScan \/ \E u \in User : backfill_uniqueness_guards(u)
    PROVE  UserIInv'
<1>0. /\ UserTypeOK /\ UNCHANGED <<backend, row, counts, call, old, buried, walk>>
      /\ backfill' \subseteq Users
    BY DEF UserIInv, UserTypeOK, BackfillScan, backfill_uniqueness_guards, Users
<1>1. /\ Users' = Users
      /\ \A s \in Status : With(s)' = With(s)
      /\ \A v \in User : (Exists(v)' <=> Exists(v)) /\ (Standing(v)' <=> Standing(v))
    BY <1>0 DEF Users, With, Standing, Exists
<1>2. \/ guard' = guard
      \/ \E u \in User : /\ Exists(u) /\ guard[row[u].identity] = Absent
                         /\ row[u].identity \in Identity
                         /\ guard' = [guard EXCEPT ![row[u].identity] = u]
    <2>1. CASE BackfillScan
        BY <2>1 DEF BackfillScan
    <2>2. ASSUME NEW u \in User, backfill_uniqueness_guards(u)
          PROVE  \/ guard' = guard
                 \/ /\ Exists(u) /\ guard[row[u].identity] = Absent
                    /\ row[u].identity \in Identity
                    /\ guard' = [guard EXCEPT ![row[u].identity] = u]
        <3>1. Exists(u) /\ row[u] \in Row
            BY <1>0, <2>2 DEF backfill_uniqueness_guards, UserTypeOK, Users, Exists
        <3> QED
            BY <2>2, <3>1 DEF backfill_uniqueness_guards, Row
    <2> QED
        BY <2>1, <2>2
<1>3. guard' \in [Identity -> User \cup {Absent}]
    BY <1>0, <1>2 DEF UserTypeOK
<1>4. UserTypeOK'
    BY <1>0, <1>1, <1>3 DEF UserTypeOK
<1>5. \A q \in Call : CallSound(q)'
    BY <1>0 DEF UserIInv, CallSound, FreshRead, Exists
<1>6. GuardsSound'
    <2>1. CASE guard' = guard
        BY <1>0, <2>1 DEF UserIInv, GuardsSound, Exists
    <2>2. ASSUME NEW u \in User, Exists(u), guard[row[u].identity] = Absent, row[u].identity \in Identity,
                 guard' = [guard EXCEPT ![row[u].identity] = u]
          PROVE  GuardsSound'
        <3>1. \A j \in Identity : guard'[j] = IF j = row[u].identity THEN u ELSE guard[j]
            BY <1>0, <2>2 DEF UserTypeOK
        <3>2. ASSUME NEW j \in Identity, NEW g, g = guard'[j], g # Absent
              PROVE  row'[g] # Absent /\ row'[g].identity = j
            BY <1>0, <2>2, <3>1, <3>2 DEF UserIInv, GuardsSound, Exists
        <3>3. ASSUME backend = "dynamo", NEW v \in User \ (buried \cup old), Exists(v)
              PROVE  guard'[row[v].identity] = v
            <4>1. guard[row[v].identity] = v /\ row[v].identity \in Identity /\ v # Absent
                BY <1>0, <3>3, UserAssumption DEF UserIInv, GuardsSound, UserTypeOK, Exists, Row
            <4> QED
                BY <2>2, <3>1, <4>1
        <3> QED
            BY <1>0, <1>1, <3>2, <3>3 DEF GuardsSound, Exists
    <2> QED
        BY <1>2, <2>1, <2>2
<1>7. IndexSound' /\ CountsSound'
    BY <1>0, <1>1 DEF UserIInv, IndexSound, CountsSound
<1>8. WalkSound'
    BY <1>0, <1>1, WalkUndisturbed DEF UserIInv
<1> QED
    BY <1>4, <1>5, <1>6, <1>7, <1>8 DEF UserIInv

\* What a page has to be: new users only, and a cursor that still separates.
PageSound(pg) ==
    /\ pg.users \subseteq Users /\ pg.users \cap walk.seen = {}
    /\ pg.next \in (Nat \X Nat) \cup {Absent}
    /\ pg.next = Absent => walk.first \subseteq walk.seen \cup pg.users
    /\ pg.next # Absent =>
          /\ \A u \in walk.seen \cup pg.users : ~Beyond(u, pg.next)
          /\ \A u \in walk.first : u \in walk.seen \cup pg.users \/ Beyond(u, pg.next)

\* The pages of SQLite and Postgres.
LEMMA SqlPageSound ==
    ASSUME UserIInv, backend # "dynamo", walk.pc = "walking"
    PROVE  PageSound(SqlPage)
<1> DEFINE left == {u \in User : Exists(u) /\ (walk.cursor # Absent => Follows(u, walk.cursor))}
           page == FirstOf(left, walk.limit, Precedes)
           last == CHOOSE u \in page : \A v \in page \ {u} : Precedes(v, u)
           next == IF page = left THEN Absent ELSE KeysetCursor(last)
           R == {e \in User \X User : Precedes(e[1], e[2])}
<1>0. /\ UserTypeOK /\ WalkSound /\ IsFiniteSet(Users) /\ walk.limit \in Nat \ {0}
      /\ walk.cursor \in (Nat \X Nat) \cup {Absent} /\ walk.first \subseteq Users /\ walk.seen \subseteq Users
    BY DEF UserIInv, CountsSound, WalkSound
<1>1. \A u \in Users : u \in Nat /\ u \in User /\ row[u].created_at \in Nat
    BY <1>0, UserAssumption DEF UserTypeOK, Users, Exists, Row
<1>2. left \subseteq Users /\ IsFiniteSet(left)
    BY <1>0, FS_Subset DEF Users
<1>3. \A u, v \in Users : <<u, v>> \in R <=> Precedes(u, v)
    BY <1>1
<1>4. \A u \in Users : u \in left <=> (walk.cursor # Absent => Follows(u, walk.cursor))
    BY DEF Users
<1>5. page = FirstBy(left, walk.limit, R)
    <2>1. \A x \in left : {y \in left : Precedes(y, x)} = Below(x, R, left)
        BY <1>2, <1>3 DEF Below
    <2> QED
        BY <2>1 DEF FirstOf, FirstBy
<1>6. SqlPage.users = page /\ SqlPage.next = next
    BY DEF SqlPage
<1>7. last = CHOOSE u \in page : \A v \in page \ {u} : Precedes(v, u)
    OBVIOUS
<1>8. next = IF page = left THEN Absent ELSE KeysetCursor(last)
    OBVIOUS
<1> HIDE DEF R, left, page, last, next
<1>9. Orders(R, left)
    <2>1. Orders(R, Users)
        BY <1>1, <1>3 DEF Orders, Precedes
    <2> QED
        BY <1>2, <2>1 DEF Orders
<1>10. /\ \A x \in page, y \in left \ page : <<x, y>> \in R
       /\ page # left => Cardinality(page) = walk.limit
       /\ page \subseteq left
    BY <1>0, <1>2, <1>5, <1>9, FirstComeFirst
<1>11. \A u \in page : u \notin walk.seen
    <2>1. walk.cursor = Absent => walk.seen = {}
        BY <1>0 DEF WalkSound
    <2>2. walk.cursor # Absent => \A u \in walk.seen : ~Follows(u, walk.cursor)
        BY <1>0 DEF WalkSound, Ahead, Beyond
    <2> QED
        BY <1>2, <1>4, <1>10, <2>1, <2>2
<1>12. \A u \in walk.first : u \in walk.seen \/ u \in left
    <2>1. walk.cursor # Absent => \A u \in walk.first : u \in walk.seen \/ Follows(u, walk.cursor)
        BY <1>0 DEF WalkSound, Ahead, Beyond
    <2> QED
        BY <1>0, <1>4, <2>1
<1>13. CASE page = left
    <2>1. next = Absent
        BY <1>8, <1>13
    <2> QED
        BY <1>2, <1>6, <1>10, <1>11, <1>12, <1>13, <2>1 DEF PageSound
<1>14. CASE page # left
    <2>1. page # {}
        BY <1>0, <1>10, <1>14, FS_EmptySet
    <2>2. \E u \in page : \A v \in page : u = v \/ <<v, u>> \in R
        BY <1>2, <1>9, <1>10, <2>1, GreatestElement
    <2>3. \E u \in page : \A v \in page \ {u} : Precedes(v, u)
        BY <1>2, <1>3, <1>10, <2>2
    <2>4. last \in page /\ \A v \in page \ {last} : Precedes(v, last)
        BY <1>7, <2>3
    <2>5. last \in Users /\ last \in left
        BY <1>2, <1>10, <2>4
    <2>6. next = <<row[last].created_at, last>> /\ next \in Nat \X Nat /\ next # Absent
        BY <1>1, <1>8, <1>14, <2>5, UserAssumption DEF KeysetCursor
    <2>7. \A u \in Users : Follows(u, next) <=> Precedes(last, u)
        BY <1>1, <2>5, <2>6 DEF Follows, Precedes
    <2>8. ASSUME NEW u \in walk.seen \cup page
          PROVE  ~Precedes(last, u)
        <3>1. CASE u \in page
            BY <1>1, <1>2, <1>10, <2>4, <2>5, <3>1 DEF Precedes
        <3>2. CASE u \in walk.seen
            <4>1. walk.cursor # Absent /\ ~Follows(u, walk.cursor) /\ walk.cursor \in Nat \X Nat
                BY <1>0, <3>2 DEF WalkSound, Ahead, Beyond
            <4>2. Follows(last, walk.cursor)
                BY <1>4, <2>5, <4>1
            <4>3. walk.cursor[1] \in Nat /\ walk.cursor[2] \in Nat /\ u \in Users
                BY <1>0, <3>2, <4>1
            <4> QED
                BY <1>1, <2>5, <4>1, <4>2, <4>3 DEF Precedes, Follows
        <3> QED
            BY <3>1, <3>2
    <2>9. ASSUME NEW u \in walk.first, u \notin walk.seen \cup page
          PROVE  Precedes(last, u)
        <3>1. u \in left \ page
            BY <1>12, <2>9
        <3> QED
            BY <1>2, <1>3, <1>10, <2>4, <2>5, <3>1
    <2>10. \A u \in Users : Beyond(u, next) <=> Precedes(last, u)
        BY <2>7 DEF Beyond
    <2> QED
        BY <1>0, <1>2, <1>6, <1>10, <1>11, <2>6, <2>8, <2>9, <2>10 DEF PageSound
<1> QED
    BY <1>13, <1>14

\* A table of finitely many users has finitely many items.
LEMMA ItemsFinite ==
    ASSUME IsFiniteSet(Users)
    PROVE  IsFiniteSet(TableItem)
<1>1. IsFiniteSet(Users \X {0, 1})
    <2>1. IsFiniteSet({0} \cup {1}) /\ {0} \cup {1} = {0, 1}
        BY FS_Singleton, FS_AddElement
    <2> QED
        BY <2>1, FS_Product
<1>2. TableItem \in SUBSET (Users \X {0, 1})
    BY DEF TableItem, Users
<1> QED
    BY <1>1, <1>2, FS_Subset

\* The pages of DynamoDB's scan.
LEMMA ScanPageSound ==
    ASSUME UserIInv, backend = "dynamo", walk.pc = "walking"
    PROVE  PageSound(list_users_dynamo)
<1> DEFINE left == {x \in TableItem : walk.cursor # Absent => ScanBefore(walk.cursor, x)}
           page == FirstOf(left, walk.limit, ScanBefore)
           last == CHOOSE x \in page : \A y \in page \ {x} : ScanBefore(y, x)
           next == IF Cardinality(page) = walk.limit THEN ScanCursor(last) ELSE Absent
           ids == {x[1] : x \in {y \in page : y[2] = 0}}
           I == Nat \X Nat
           R == {e \in I \X I : ScanBefore(e[1], e[2])}
<1>0. /\ UserTypeOK /\ WalkSound /\ IsFiniteSet(Users) /\ walk.limit \in Nat \ {0}
      /\ walk.cursor \in I \cup {Absent} /\ walk.first \subseteq Users /\ walk.seen \subseteq Users
    BY DEF UserIInv, CountsSound, WalkSound
<1>1. Users \subseteq Nat
    BY UserAssumption DEF Users
<1>2. TableItem \subseteq I
    BY <1>1 DEF TableItem, Users
<1>3. left \subseteq TableItem /\ IsFiniteSet(left)
    BY <1>0, ItemsFinite, FS_Subset
<1>4. \A x, y \in I : <<x, y>> \in R <=> ScanBefore(x, y)
    OBVIOUS
<1>5. \A x \in TableItem : x \in left <=> (walk.cursor # Absent => ScanBefore(walk.cursor, x))
    OBVIOUS
<1>6. page = FirstBy(left, walk.limit, R)
    <2>1. \A x \in left : {y \in left : ScanBefore(y, x)} = Below(x, R, left)
        BY <1>2, <1>3, <1>4 DEF Below
    <2> QED
        BY <2>1 DEF FirstOf, FirstBy
<1>7. list_users_dynamo.users = ids /\ list_users_dynamo.next = next
    BY DEF list_users_dynamo
<1>8. last = CHOOSE x \in page : \A y \in page \ {x} : ScanBefore(y, x)
    OBVIOUS
<1>9. next = IF Cardinality(page) = walk.limit THEN last ELSE Absent
    BY DEF ScanCursor
<1>10. \A u : <<u, 0>> \in TableItem <=> u \in Users
    BY DEF TableItem, Users
<1>11. \A x \in I : x = <<x[1], x[2]>> /\ x[1] \in Nat /\ x[2] \in Nat
    OBVIOUS
<1>12. \A u : u \in ids <=> <<u, 0>> \in page
    <2>1. page \subseteq I
        BY <1>2, <1>3, <1>6 DEF FirstBy
    <2> HIDE DEF page
    <2> QED
        BY <1>11, <2>1
<1> HIDE DEF R, left, page, last, next, ids
<1>13. Orders(R, left)
    <2>1. Orders(R, I)
        <3>1. \A x \in I : ~ScanBefore(x, x)
            BY <1>11 DEF ScanBefore
        <3>2. \A x, y, z \in I : ScanBefore(x, y) /\ ScanBefore(y, z) => ScanBefore(x, z)
            BY <1>11 DEF ScanBefore
        <3>3. \A x, y \in I : x = y \/ ScanBefore(x, y) \/ ScanBefore(y, x)
            BY <1>11 DEF ScanBefore
        <3> QED
            BY <1>4, <3>1, <3>2, <3>3 DEF Orders
    <2> QED
        BY <1>2, <1>3, <2>1 DEF Orders
<1>14. /\ \A x \in page, y \in left \ page : <<x, y>> \in R
       /\ page # left => Cardinality(page) = walk.limit
       /\ page \subseteq left
    BY <1>0, <1>3, <1>6, <1>13, FirstComeFirst
<1>15. page \subseteq I /\ left \subseteq I
    BY <1>2, <1>3, <1>14
<1>16. \A u \in ids : u \in Users /\ u \notin walk.seen
    <2>1. walk.cursor = Absent => walk.seen = {}
        BY <1>0 DEF WalkSound
    <2>2. walk.cursor # Absent => \A u \in walk.seen : ~ScanBefore(walk.cursor, <<u, 0>>)
        BY <1>0 DEF WalkSound, Ahead, Beyond
    <2>3. \A u \in ids : <<u, 0>> \in left /\ <<u, 0>> \in TableItem
        BY <1>3, <1>12, <1>14
    <2> QED
        BY <1>5, <1>10, <2>1, <2>2, <2>3
<1>17. \A u \in walk.first : u \in walk.seen \/ <<u, 0>> \in left
    <2>1. walk.cursor # Absent => \A u \in walk.first : u \in walk.seen \/ ScanBefore(walk.cursor, <<u, 0>>)
        BY <1>0 DEF WalkSound, Ahead, Beyond
    <2> QED
        BY <1>0, <1>5, <1>10, <2>1
<1>18. CASE Cardinality(page) # walk.limit
    <2>1. next = Absent /\ page = left
        BY <1>9, <1>14, <1>18
    <2> QED
        BY <1>7, <1>12, <1>16, <1>17, <2>1 DEF PageSound
<1>19. CASE Cardinality(page) = walk.limit
    <2>1. page # {}
        BY <1>0, <1>19, FS_EmptySet
    <2>2. \E x \in page : \A y \in page : x = y \/ <<y, x>> \in R
        BY <1>3, <1>13, <1>14, <2>1, GreatestElement
    <2>3. \E x \in page : \A y \in page \ {x} : ScanBefore(y, x)
        BY <1>4, <1>15, <2>2
    <2>4. last \in page /\ \A y \in page \ {last} : ScanBefore(y, last)
        BY <1>8, <2>3
    <2>5. last \in I /\ last \in left
        BY <1>14, <1>15, <2>4
    <2>6. next = last /\ next \in Nat \X Nat /\ next # Absent
        BY <1>9, <1>19, <2>5, UserAssumption
    <2>7. \A x, y \in I : ScanBefore(x, y) => x # y /\ ~ScanBefore(y, x)
        BY <1>11 DEF ScanBefore
    <2>8. ASSUME NEW u \in walk.seen \cup ids
          PROVE  ~ScanBefore(last, <<u, 0>>)
        <3>1. CASE u \in ids
            <4>1. <<u, 0>> \in page /\ <<u, 0>> \in I
                BY <1>12, <1>15, <3>1
            <4> QED
                BY <2>4, <2>5, <2>7, <4>1
        <3>2. CASE u \in walk.seen
            <4>1. walk.cursor # Absent /\ ~ScanBefore(walk.cursor, <<u, 0>>) /\ walk.cursor \in I
                BY <1>0, <3>2 DEF WalkSound, Ahead, Beyond
            <4>2. ScanBefore(walk.cursor, last)
                BY <1>3, <1>5, <2>5, <4>1
            <4>3. <<u, 0>> \in I
                BY <1>0, <1>1, <3>2
            <4>4. \A x, y, z \in I : ScanBefore(x, y) /\ ScanBefore(y, z) => ScanBefore(x, z)
                BY <1>11 DEF ScanBefore
            <4> QED
                BY <2>5, <4>1, <4>2, <4>3, <4>4
        <3> QED
            BY <3>1, <3>2
    <2>9. ASSUME NEW u \in walk.first, u \notin walk.seen \cup ids
          PROVE  ScanBefore(last, <<u, 0>>)
        <3>1. <<u, 0>> \in left \ page
            BY <1>12, <1>17, <2>9
        <3> QED
            BY <1>4, <1>14, <1>15, <2>4, <2>5, <3>1
    <2>10. \A u : Beyond(u, next) <=> ScanBefore(last, <<u, 0>>)
        BY <2>6 DEF Beyond
    <2> QED
        BY <1>7, <1>16, <2>6, <2>8, <2>9, <2>10 DEF PageSound
<1> QED
    BY <1>18, <1>19

\* A page of a walk, its beginning and its end.
LEMMA WalkKeeps ==
    ASSUME UserIInv, Walked
    PROVE  UserIInv'
<1>0. UNCHANGED <<backend, row, guard, counts, call, backfill, old, buried>>
    BY DEF Walked
<1>1. /\ Users' = Users
      /\ \A v \in User : (Exists(v)' <=> Exists(v)) /\ (Standing(v)' <=> Standing(v))
    BY <1>0 DEF Users, Standing, Exists
<1>2. UserTypeOK' /\ GuardsSound' /\ IndexSound' /\ CountsSound' /\ \A q \in Call : CallSound(q)'
    BY <1>0, <1>1 DEF UserIInv, UserTypeOK, GuardsSound, IndexSound, CountsSound, CallSound, FreshRead,
        With, Exists
<1> DEFINE W == [pc : {"idle", "walking", "complete"}, cursor : (Nat \X Nat) \cup {Absent}, limit : Nat,
                 first : SUBSET Users, seen : SUBSET Users, twice : {{}}]
<1>3. walk \in W
    BY DEF UserIInv, WalkSound
<1>4. WalkSound' <=>
          /\ walk' \in W
          /\ walk'.pc = "walking" =>
                /\ walk'.limit # 0
                /\ walk'.cursor = Absent => walk'.seen = {}
                /\ walk'.cursor # Absent => /\ \A u \in walk'.seen : ~Beyond(u, walk'.cursor)
                                          /\ \A u \in walk'.first : u \in walk'.seen \/ Beyond(u, walk'.cursor)
          /\ walk'.pc = "complete" => walk'.first \subseteq walk'.seen
    BY <1>0, <1>1 DEF WalkSound, Ahead, Beyond, Follows
<1>5. NoWalk \in W
    BY DEF NoWalk
<1>6. ASSUME NEW limit \in 1..(PageLimit + 1), BeginWalk(limit)
      PROVE  WalkSound'
    <2>1. clamp_admin_page_limit(limit) \in Nat \ {0}
        BY UserAssumption DEF clamp_admin_page_limit
    <2>2. walk' = [NoWalk EXCEPT !.pc = "walking", !.limit = clamp_admin_page_limit(limit), !.first = Users]
        BY <1>6 DEF BeginWalk, Users
    <2>3. walk' \in W /\ walk'.pc = "walking" /\ walk'.limit # 0
        BY <1>5, <2>1, <2>2
    <2>4. walk'.seen = {} /\ walk'.cursor = Absent
        BY <1>5, <2>2 DEF NoWalk
    <2> QED
        BY <1>4, <2>3, <2>4
<1>7. ASSUME admin_list_users
      PROVE  WalkSound'
    <2> DEFINE pg == list_users
    <2>1. PageSound(pg)
        BY <1>7, SqlPageSound, ScanPageSound DEF admin_list_users, list_users, list_users_sqlite,
            list_users_postgres, UserIInv, UserTypeOK
    <2>2. walk' = [walk EXCEPT !.seen = @ \cup pg.users, !.twice = walk.seen \cap pg.users,
                               !.cursor = pg.next, !.pc = IF pg.next = Absent THEN "complete" ELSE @]
        BY <1>7 DEF admin_list_users
    <2>3. walk.pc = "walking"
        BY <1>7 DEF admin_list_users
    <2> HIDE DEF pg
    <2>4. /\ walk.seen \cup pg.users \in SUBSET Users /\ walk.seen \cap pg.users = {}
          /\ pg.next \in (Nat \X Nat) \cup {Absent}
        BY <1>3, <2>1 DEF PageSound
    <2>5. /\ walk' \in W
          /\ walk'.seen = walk.seen \cup pg.users /\ walk'.first = walk.first /\ walk'.limit = walk.limit
          /\ walk'.cursor = pg.next
          /\ walk'.pc = IF pg.next = Absent THEN "complete" ELSE "walking"
        BY <1>3, <2>2, <2>3, <2>4
    <2>6. walk.limit # 0
        BY <2>3 DEF UserIInv, WalkSound
    <2> QED
        BY <1>4, <2>1, <2>5, <2>6 DEF PageSound
<1>8. ASSUME EndWalk
      PROVE  WalkSound'
    BY <1>4, <1>5, <1>8 DEF EndWalk, NoWalk
<1> QED
    BY <1>2, <1>6, <1>7, <1>8 DEF UserIInv, Walked

-----------------------------------------------------------------------------
(* The theorems. *)

\* A table starts empty, or (on DynamoDB) with the old users.
LEMMA StartSound ==
    ASSUME UserInit
    PROVE  UserIInv
<1>0. /\ old \in {{}, Old} /\ old \subseteq User /\ IsFiniteSet(old) /\ (backend # "dynamo" => old = {})
    BY UserAssumption, FS_EmptySet DEF UserInit
<1>1. \A i \in Identity : /\ [NewRow(i, 1) EXCEPT !.version = 0] \in Row
                          /\ [NewRow(i, 1) EXCEPT !.version = 0].status = "Active"
    BY DEF NewRow, Row, Status
<1>2. row \in [User -> Row \cup {Absent}] /\ \A u \in User : Exists(u) => row[u].status = "Active"
    <2> DEFINE N == {[NewRow(i, 1) EXCEPT !.version = 0] : i \in Identity}
    <2>1. N \subseteq Row /\ \A r \in N : r.status = "Active"
        BY <1>1
    <2>2. row \in [User -> {Absent} \cup N]
        BY DEF UserInit
    <2> HIDE DEF N
    <2> QED
        BY <2>1, <2>2 DEF Exists
<1>3. Users = old
    BY <1>0 DEF UserInit, Users
<1>4. /\ \A s \in Status : With(s) = IF s = "Active" THEN old ELSE {}
    <2>1. \A s \in Status : \A u : u \in With(s) <=> u \in old /\ s = "Active"
        BY <1>2, <1>3 DEF With, Users
    <2> QED
        BY <2>1
<1>5. UserTypeOK
    BY <1>0, <1>2, <1>3 DEF UserInit, UserTypeOK, Idle, CallState
<1>6. CountsSound
    <2>1. Cardinality(old) \in Nat /\ Cardinality({}) = 0
        BY <1>0, FS_EmptySet, FS_CardinalityType
    <2>2. \A s \in Status : counts[s] = 0 /\ Cardinality(With(s)) = IF s = "Active" THEN Cardinality(old) ELSE 0
        BY <1>4, <2>1 DEF UserInit
    <2> QED
        BY <1>0, <1>3, <2>1, <2>2 DEF CountsSound
<1>7. GuardsSound /\ IndexSound /\ \A p \in Call : CallSound(p)
    BY <1>0, <1>3 DEF UserInit, GuardsSound, IndexSound, CallSound, Idle, Standing, Users
<1>8. WalkSound
    BY DEF UserInit, WalkSound, NoWalk
<1> QED
    BY <1>5, <1>6, <1>7, <1>8 DEF UserIInv

\* The inductive invariant of the user stores.
THEOREM UserInvariant == UserSpec => []UserIInv
<1>1. UserInit => UserIInv
    BY StartSound
<1>2. UserIInv /\ [UserNext]_userVars => UserIInv'
    <2> SUFFICES ASSUME UserIInv, [UserNext]_userVars
                 PROVE  UserIInv'
        OBVIOUS
    <2>1. CASE UNCHANGED userVars
        BY <2>1 DEF userVars, UserIInv, UserTypeOK, CallSound, FreshRead, GuardsSound, IndexSound, CountsSound,
            WalkSound, Ahead, Beyond, Follows, With, Users, Standing, Exists
    <2>2. CASE UserNext
        BY <2>1, <2>2, StepKinds, CreateKeeps, WriteKeeps, MoveKeeps, WalkKeeps, BackfillKeeps DEF UserIInv
    <2> QED
        BY <2>1, <2>2
<1> QED
    BY <1>1, <1>2, PTL DEF UserSpec

\* One standing user per identity, and lookups that find it, on each of the three adapters and for
\* any number of concurrent registrations, deletions and administration calls.
THEOREM UserOnePerIdentity == UserSpec => []OneUserPerIdentity
<1>1. UserIInv => OneUserPerIdentity
    <2> SUFFICES ASSUME UserIInv
                 PROVE  OneUserPerIdentity
        OBVIOUS
    <2>0. UserTypeOK /\ GuardsSound /\ IndexSound
        BY DEF UserIInv
    <2>1. \A u \in User : Exists(u) => row[u] \in Row /\ row[u].identity \in Identity /\ u # Absent
        BY <2>0, UserAssumption DEF UserTypeOK, Exists, Row
    <2>2. CASE backend = "dynamo"
        BY <2>0, <2>1, <2>2 DEF OneUserPerIdentity, LookupFindsTheUser, get_user_by_external_id,
            FoundByGuard, Strays, GuardsSound, Standing
    <2>3. CASE backend # "dynamo"
        <3>1. ASSUME NEW i \in Identity, NEW u \in User, Standing(u), row[u].identity = i
              PROVE  FoundBySql(i) = u
            <4>1. {v \in User : Standing(v) /\ row[v].identity = i} = {u}
                BY <2>0, <2>3, <3>1 DEF IndexSound
            <4> QED
                BY <4>1 DEF FoundBySql
        <3>2. ASSUME NEW i \in Identity, NEW u, u = FoundBySql(i), u # Absent
              PROVE  u \in User /\ Standing(u) /\ row[u].identity = i
            <4> DEFINE found == {v \in User : Standing(v) /\ row[v].identity = i}
            <4>1. found # {} /\ u = CHOOSE v \in found : TRUE
                BY <3>2 DEF FoundBySql
            <4>2. u \in found
                <5> HIDE DEF found
                <5> QED
                    BY <4>1
            <4> QED
                BY <4>2
        <3>3. LookupFindsTheUser
            BY <2>1, <2>3, <3>1, <3>2 DEF LookupFindsTheUser, get_user_by_external_id, Strays, Standing
        <3> QED
            BY <2>0, <2>3, <3>3 DEF OneUserPerIdentity, IndexSound
    <2> QED
        BY <2>2, <2>3
<1> QED
    BY <1>1, UserInvariant, PTL

\* The statistics are the numbers of rows, on each adapter, and it is known when
\* DynamoDB's are refused.
THEOREM UserCountersMatchRows == UserSpec => []CountersMatchRows
<1>1. UserIInv => CountersMatchRows
    <2> SUFFICES ASSUME UserIInv
                 PROVE  CountersMatchRows
        OBVIOUS
    <2>0. UserTypeOK /\ CountsSound /\ IsFiniteSet(Users)
        BY DEF UserIInv, CountsSound
    <2>1. \A s \in Status : /\ With(s) \in SUBSET Users /\ IsFiniteSet(With(s))
                            /\ Cardinality(With(s)) \in Nat
        <3>1. \A s \in Status : With(s) \in SUBSET Users
            BY DEF With, Users
        <3> QED
            BY <2>0, <3>1, FS_Subset, FS_CardinalityType
    <2>2. IsFiniteSet(old) /\ Cardinality(old) \in Nat
        BY <2>0, FS_Subset, FS_CardinalityType DEF UserTypeOK
    <2>3. \A s \in Status :
             count_by_status(s) = Cardinality(With(s)) - (IF s = "Active" THEN Cardinality(old) ELSE 0)
        <3>1. CASE backend = "dynamo"
            BY <2>0, <3>1 DEF count_by_status, CountsSound
        <3>2. CASE backend # "dynamo"
            <4>1. Cardinality(old) = 0
                BY <2>0, <3>2, FS_EmptySet DEF UserTypeOK
            <4>2. \A s \in Status : count_by_status(s) = Cardinality(With(s))
                BY <3>2 DEF count_by_status, count_by_status_sql, With
            <4> QED
                BY <2>1, <4>1, <4>2
        <3> QED
            BY <3>1, <3>2
    <2>4. Cardinality(Users) = Cardinality(With("Active")) + Cardinality(With("Suspended"))
                               + Cardinality(With("Deleted"))
        <3> DEFINE A == With("Active")
                   B == With("Suspended")
                   D == With("Deleted")
        <3>1. Users = (A \cup B) \cup D /\ A \cap B = {} /\ (A \cup B) \cap D = {}
            <4>1. \A u \in Users : row[u].status \in Status
                BY <2>0 DEF UserTypeOK, Users, Exists, Row
            <4> QED
                BY <4>1 DEF Users, With, Status
        <3>2. /\ IsFiniteSet(A) /\ IsFiniteSet(B) /\ IsFiniteSet(D)
              /\ Cardinality(A) \in Nat /\ Cardinality(B) \in Nat /\ Cardinality(D) \in Nat
            BY <2>1 DEF Status
        <3> HIDE DEF A, B, D
        <3>3. IsFiniteSet(A \cup B) /\ Cardinality(A \cup B) = Cardinality(A) + Cardinality(B)
            BY <3>1, <3>2, FS_Union, FS_EmptySet
        <3>4. Cardinality((A \cup B) \cup D) = Cardinality(A \cup B) + Cardinality(D)
            <4> DEFINE E == A \cup B
            <4>1. IsFiniteSet(E) /\ E \cap D = {} /\ Cardinality({}) = 0 /\ Cardinality(E) \in Nat
                BY <3>1, <3>3, FS_EmptySet, FS_CardinalityType
            <4> HIDE DEF E
            <4>2. Cardinality(E \cup D) = Cardinality(E) + Cardinality(D) - Cardinality(E \cap D)
                BY <3>2, <4>1, FS_Union
            <4>3. Cardinality(E \cap D) = 0
                BY <4>1, Zenon
            <4>4. Cardinality(E \cup D) = Cardinality(E) + Cardinality(D)
                BY <3>2, <4>1, <4>2, <4>3
            <4> QED
                BY <4>4 DEF E
        <3>5. Cardinality(Users) = Cardinality(A) + Cardinality(B) + Cardinality(D)
            BY <3>1, <3>2, <3>3, <3>4
        <3> QED
            BY <3>5 DEF A, B, D
    <2>5. count_by_status_answers <=> Cardinality(With("Active")) >= Cardinality(old)
        <3>1. CASE backend = "dynamo"
            <4>1. \A s \in Status : counts[s] = count_by_status(s)
                BY <3>1 DEF count_by_status
            <4>2. \A s \in Status : counts[s] >= 0 <=> (s = "Active" => Cardinality(With("Active")) >= Cardinality(old))
                BY <2>1, <2>2, <2>3, <4>1
            <4> QED
                BY <3>1, <4>2 DEF count_by_status_answers, Status
        <3>2. CASE backend # "dynamo"
            <4>1. Cardinality(old) = 0
                BY <2>0, <3>2, FS_EmptySet DEF UserTypeOK
            <4> QED
                BY <2>1, <3>2, <4>1 DEF count_by_status_answers, Status
        <3> QED
            BY <3>1, <3>2
    <2>6. /\ count_by_status("Active") = Cardinality(With("Active")) - Cardinality(old)
          /\ count_by_status("Suspended") = Cardinality(With("Suspended"))
          /\ count_by_status("Deleted") = Cardinality(With("Deleted"))
        BY <2>1, <2>2, <2>3 DEF Status
    <2>7. count_by_status("Active") + count_by_status("Suspended") + count_by_status("Deleted")
          = Cardinality(Users) - Cardinality(old)
        BY <2>1, <2>2, <2>4, <2>6 DEF Status
    <2>8. admin_stats = {} <=> Cardinality(With("Active")) < Cardinality(old)
        <3>1. admin_stats = {} <=> ~count_by_status_answers
            <4>1. CASE count_by_status_answers
                <5>1. PICK s : s \in admin_stats
                    BY <4>1 DEF admin_stats
                <5> QED
                    BY <4>1, <5>1
            <4>2. CASE ~count_by_status_answers
                BY <4>2 DEF admin_stats
            <4> QED
                BY <4>1, <4>2
        <3> QED
            BY <2>1, <2>2, <2>5, <3>1 DEF Status
    <2>9. \A stats \in admin_stats :
             /\ stats.active = Cardinality(With("Active")) - Cardinality(old)
             /\ stats.suspended = Cardinality(With("Suspended"))
             /\ stats.deleted = Cardinality(With("Deleted"))
             /\ stats.total = Cardinality(Users) - Cardinality(old)
        BY <2>6, <2>7 DEF admin_stats
    <2> QED
        BY <2>8, <2>9 DEF CountersMatchRows, With, Users
<1> QED
    BY <1>1, UserInvariant, PTL

\* No lost update, for any number of calls that patch the same user.
THEOREM UserNoLostUpdate == UserSpec => FieldsChangeOnlyByTheirPatch
<1> DEFINE Patches ==
       \A u \in User :
          Exists(u) /\ row'[u] # row[u] =>
             \E p \in Call :
                /\ call[p].pc = "write" /\ call[p].user = u
                /\ row'[u].version = get_version_or_default(row[u]) + 1
                /\ row'[u].email # row[u].email => call[p].op = "email" /\ row'[u].email = p
                /\ row'[u].status # row[u].status => row'[u].status = Target(call[p].op)
                /\ row'[u].claims # row[u].claims =>
                      call[p].op \in {"set_claims", "merge_claims", "clear_claims"}
<1>1. UserIInv /\ UserNext => Patches
    <2> SUFFICES ASSUME UserIInv, UserNext, NEW u \in User, Exists(u), row'[u] # row[u]
                 PROVE  \E p \in Call :
                           /\ call[p].pc = "write" /\ call[p].user = u
                           /\ row'[u].version = get_version_or_default(row[u]) + 1
                           /\ row'[u].email # row[u].email => call[p].op = "email" /\ row'[u].email = p
                           /\ row'[u].status # row[u].status => row'[u].status = Target(call[p].op)
                           /\ row'[u].claims # row[u].claims =>
                                 call[p].op \in {"set_claims", "merge_claims", "clear_claims"}
        OBVIOUS
    <2>0. UserTypeOK /\ \A p \in Call : CallSound(p)
        BY DEF UserIInv
    <2>1. \A v, i, t : ~NewUser(v, i, t)
        BY <2>0 DEF NewUser, UserTypeOK, Exists
    <2>2. PICK p \in Call : Wrote(p)
        <3>1. row' # row
            OBVIOUS
        <3> QED
            BY <2>0, <2>1, <3>1, StepKinds DEF Moved, Walked, BackfillScan, backfill_uniqueness_guards, userVars
    <2>3. /\ call[p].pc = "write" /\ call[p].read = row[call[p].user]
          /\ row' = [row EXCEPT ![call[p].user] = Patched(p)]
        BY <2>2 DEF Wrote
    <2>4. call[p].user = u /\ row'[u] = Patched(p)
        BY <2>0, <2>3 DEF UserTypeOK, CallSound
    <2>5. row[u] \in Row /\ call[p].op \in Op
        BY <2>0, <2>3 DEF UserTypeOK, CallSound, Exists
    <2> QED
        BY <2>0, <2>3, <2>4, <2>5, PatchIsRow
<1>2. UserIInv /\ [UserNext]_userVars => [Patches]_userVars
    BY <1>1
<1> QED
    BY <1>2, UserInvariant, PTL DEF UserSpec, FieldsChangeOnlyByTheirPatch

\* A walk through the pages shows every user it began with and nobody twice, for any number of
\* users and any page size.
THEOREM UserListingIsComplete == UserSpec => []ListingIsComplete
<1>1. UserIInv => ListingIsComplete
    BY DEF UserIInv, WalkSound, ListingIsComplete
<1> QED
    BY <1>1, UserInvariant, PTL
=============================================================================
