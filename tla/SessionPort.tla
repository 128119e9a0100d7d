------------------------------ MODULE SessionPort ------------------------------
(***************************************************************************)
(* The contract of the session store: the SessionRepository port of        *)
(* crates/core/src/ports/repository.rs (obligations SR1 to SR5), as a      *)
(* state machine whose steps are whole port calls.  It is the abstract     *)
(* specification the token service is written against and the storage      *)
(* adapters are held to.                                                   *)
(*                                                                         *)
(* A refresh token is represented by its SHA-256 hash.  A family is one    *)
(* sign-in; its generations share a family_id, and the latest one is live. *)
(* The caller mints hashes and family ids; being random they never repeat, *)
(* which minted and families record.                                       *)
(***************************************************************************)
EXTENDS Integers, FiniteSets

CONSTANTS
    Hash,       \* refresh-token hashes
    Family,     \* well-formed family ids ("fam_" + ULID)
    User,       \* user ids
    NoFamily,   \* the empty-string family of a pre-rotation row
    None,       \* absence of a row
    Retention,  \* refresh_reuse_retention, in seconds
    Ttl,        \* refresh_token_ttl, in seconds
    Legacy,     \* hashes stored before rotation shipped
    MaxTime     \* bound on the clock

VARIABLES
    live,       \* the sessions table: hash -> session row, or None
    retired,    \* retired_refresh_tokens: hash -> retirement record, or None
    now,        \* Utc::now()
    minted,     \* every hash ever installed
    families,   \* every family id ever installed
    closed,     \* families a revocation has reported removed
    written     \* every retirement record ever written (history)

portVars == <<live, retired, now, minted, families, closed, written>>

Session == [user_id : User, family_id : Family \cup {NoFamily},
            generation : Nat, expires_at : Nat]

RetiredRefreshToken == [family_id : Family, user_id : User, successor_hash : Hash,
                        retired_at : Nat, expires_at : Nat]

ASSUME PortAssumption ==
    /\ Retention \in Nat \ {0}
    /\ Ttl \in Nat
    /\ MaxTime \in Nat
    /\ Legacy \subseteq Hash
    /\ NoFamily \notin Family
    /\ None \notin Session
    /\ None \notin RetiredRefreshToken

-----------------------------------------------------------------------------
(* Reads. *)

Earlier(s, t) == IF s < t THEN s ELSE t

\* A retirement record is kept for the reuse retention, but never past its
\* family's deadline.
retention_deadline(retired_at, family_expires_at) ==
    Earlier(retired_at + Retention, family_expires_at)

LiveOf(f) == {h \in Hash : live[h] # None /\ live[h].family_id = f}
RetiredOf(f) == {h \in Hash : retired[h] # None /\ retired[h].family_id = f}
FamiliesOf(u) ==
    {live[h].family_id : h \in {k \in Hash : live[k] # None /\ live[k].user_id = u}}
    \cup
    {retired[h].family_id : h \in {k \in Hash : retired[k] # None /\ retired[k].user_id = u}}

\* RefreshResolution: what a presented hash is to the store.  hash and session
\* are the live generation a redemption would rotate from.
resolve_refresh_token(h) ==
    LET rec == retired[h]
    IN  CASE live[h] # None ->
               [kind |-> "Live", hash |-> h, session |-> live[h],
                retired_at |-> now, family_id |-> live[h].family_id]
          [] live[h] = None /\ (rec = None \/ rec.expires_at <= now) ->
               [kind |-> "Unknown", hash |-> h, session |-> None,
                retired_at |-> now, family_id |-> NoFamily]
          [] OTHER ->
               [kind |-> IF live[rec.successor_hash] # None THEN "Superseded" ELSE "Retired",
                hash |-> rec.successor_hash, session |-> live[rec.successor_hash],
                retired_at |-> rec.retired_at, family_id |-> rec.family_id]

\* What an operator is shown of a user: the sessions that can still be redeemed.  (The
\* order and the limit of the answer are left out.)
list_live_sessions(u) ==
    {h \in Hash : live[h] # None /\ live[h].user_id = u /\ live[h].expires_at > now}

-----------------------------------------------------------------------------
(* Writes.  Each is the effect of one successful port call.                *)

store_refresh_token(h, s) ==
    /\ live' = [live EXCEPT ![h] = s]
    /\ minted' = minted \cup {h}
    /\ families' = families \cup {s.family_id}
    /\ UNCHANGED <<retired, now, closed, written>>

\* (Mistake: the old generation is left in the table.)
RotateKeepsLive(h, h2, s, at) ==
    LET rec == [family_id |-> live[h].family_id, user_id |-> live[h].user_id,
                successor_hash |-> h2, retired_at |-> at,
                expires_at |-> retention_deadline(at, s.expires_at)]
        kept == live[h].family_id # NoFamily
    IN  /\ live[h] # None
        /\ live' = [live EXCEPT ![h2] = s]
        /\ retired' = IF kept THEN [retired EXCEPT ![h] = rec] ELSE retired
        /\ written' = IF kept THEN [written EXCEPT ![h] = rec] ELSE written
        /\ minted' = minted \cup {h2}
        /\ families' = families \cup {s.family_id}
        /\ UNCHANGED <<now, closed>>

\* (Mistake: a record is written for a legacy row too.)
RotateRecordsLegacy(h, h2, s, at) ==
    LET rec == [family_id |-> live[h].family_id, user_id |-> live[h].user_id,
                successor_hash |-> h2, retired_at |-> at,
                expires_at |-> retention_deadline(at, s.expires_at)]
    IN  /\ live[h] # None
        /\ live' = [live EXCEPT ![h] = None, ![h2] = s]
        /\ retired' = [retired EXCEPT ![h] = rec]
        /\ written' = [written EXCEPT ![h] = rec]
        /\ minted' = minted \cup {h2}
        /\ families' = families \cup {s.family_id}
        /\ UNCHANGED <<now, closed>>

\* The winning compare-and-swap: the live row leaves, its retirement record and
\* the replacement arrive, in one step.  A legacy row leaves no record.  at is the
\* clock as the adapter read it on the way.
rotate_refresh_token(h, h2, s, at) ==
    LET rec == [family_id |-> live[h].family_id, user_id |-> live[h].user_id,
                successor_hash |-> h2, retired_at |-> at,
                expires_at |-> retention_deadline(at, s.expires_at)]
        kept == live[h].family_id # NoFamily
    IN  /\ live[h] # None
        /\ live' = [live EXCEPT ![h] = None, ![h2] = s]
        /\ retired' = IF kept THEN [retired EXCEPT ![h] = rec] ELSE retired
        /\ written' = IF kept THEN [written EXCEPT ![h] = rec] ELSE written
        /\ minted' = minted \cup {h2}
        /\ families' = families \cup {s.family_id}
        /\ UNCHANGED <<now, closed>>

\* The live row only: retirement records stay.
revoke_session(h) ==
    /\ live' = [live EXCEPT ![h] = None]
    /\ UNCHANGED <<retired, now, minted, families, closed, written>>

\* The live generation and every record of the family.
revoke_family(f) ==
    /\ live' = [h \in Hash |-> IF h \in LiveOf(f) THEN None ELSE live[h]]
    /\ retired' = [h \in Hash |-> IF h \in RetiredOf(f) THEN None ELSE retired[h]]
    /\ closed' = closed \cup {f}
    /\ UNCHANGED <<now, minted, families, written>>

revoke_all_user_sessions(u) ==
    /\ live' = [h \in Hash |-> IF live[h] # None /\ live[h].user_id = u
                               THEN None ELSE live[h]]
    /\ retired' = [h \in Hash |-> IF retired[h] # None /\ retired[h].user_id = u
                                  THEN None ELSE retired[h]]
    /\ closed' = closed \cup (FamiliesOf(u) \ {NoFamily})
    /\ UNCHANGED <<now, minted, families, written>>

\* A transaction of the reaper's sweep, with the clock as the adapter read it: of the
\* rows and records of gone, those past their deadline leave.  gone is everything
\* unless the store sweeps in batches.
cleanup_expired_sessions(at, gone) ==
    /\ live' = [h \in Hash |-> IF h \in gone /\ live[h] # None /\ live[h].expires_at < at
                               THEN None ELSE live[h]]
    /\ retired' = [h \in Hash |-> IF h \in gone /\ retired[h] # None /\ retired[h].expires_at < at
                                  THEN None ELSE retired[h]]
    /\ UNCHANGED <<now, minted, families, closed, written>>

Tick ==
    /\ now < MaxTime
    /\ now' = now + 1
    /\ UNCHANGED <<live, retired, minted, families, closed, written>>

-----------------------------------------------------------------------------
(* The contract: which calls the core makes. *)

LegacyRow(u) == [user_id |-> u, family_id |-> NoFamily, generation |-> 0, expires_at |-> Ttl]

PortInit ==
    /\ live \in [Hash -> {None} \cup {LegacyRow(u) : u \in User}]
    /\ \A h \in Hash : live[h] # None <=> h \in Legacy
    /\ retired = [h \in Hash |-> None]
    /\ now = 0
    /\ minted = Legacy
    /\ families = {}
    /\ closed = {}
    /\ written = [h \in Hash |-> None]

\* A sign-in: generation 0 of a new family.
SignIn ==
    \E h \in Hash \ minted, f \in Family \ families, u \in User :
        store_refresh_token(h, [user_id |-> u, family_id |-> f, generation |-> 0,
                                expires_at |-> now + Ttl])

\* A redemption: the next generation, same user and deadline, same family
\* unless the row is a legacy one, which gets a new family.
Redeem ==
    \E h \in Hash, h2 \in Hash \ minted, f \in Family, at \in 0..now :
        /\ live[h] # None
        /\ IF live[h].family_id = NoFamily THEN f \notin families
                                           ELSE f = live[h].family_id
        /\ rotate_refresh_token(h, h2,
               [user_id |-> live[h].user_id, family_id |-> f,
                generation |-> live[h].generation + 1,
                expires_at |-> live[h].expires_at], at)

PortNext ==
    \/ SignIn
    \/ Redeem
    \/ \E h \in Hash : revoke_session(h)
    \/ \E f \in families : revoke_family(f)
    \/ \E u \in User : revoke_all_user_sessions(u)
    \* (a store may count the deadline itself as past)
    \/ \E at \in 0..(now + 1), gone \in SUBSET Hash : cleanup_expired_sessions(at, gone)
    \/ Tick

PortSpec == PortInit /\ [][PortNext]_portVars

-----------------------------------------------------------------------------
(* What the contract promises. *)

PortTypeOK ==
    /\ live \in [Hash -> Session \cup {None}]
    /\ retired \in [Hash -> RetiredRefreshToken \cup {None}]
    /\ now \in Nat
    /\ minted \subseteq Hash
    /\ families \subseteq Family
    /\ closed \subseteq families
    /\ written \in [Hash -> RetiredRefreshToken \cup {None}]

\* SR3.  However redemptions and revocations interleave, two different hashes
\* are never live generations of one family (repository.rs, "single live
\* generation"; a legacy row is a family of its own).
SingleLiveGeneration ==
    \A h1, h2 \in Hash :
        /\ live[h1] # None /\ live[h2] # None
        /\ live[h1].family_id = live[h2].family_id
        /\ live[h1].family_id # NoFamily
        => h1 = h2

\* SR5.  Once revoke_family or revoke_all_user_sessions has reported a family
\* removed, no generation of it is live and no record of it is kept, then or
\* ever after: no redemption already under way brings it back.
ClosedFamilyStaysDead ==
    \A f \in closed : LiveOf(f) = {} /\ RetiredOf(f) = {}

\* SR4 and the retention rule.  A superseded generation stays detectable as
\* reuse until its retention deadline, whatever happens to the live generation
\* in between (a further rotation, a logout), unless its family is revoked.
ReuseStaysDetectable ==
    \A h \in Hash :
        /\ written[h] # None
        /\ written[h].family_id \notin closed
        /\ now < written[h].expires_at
        => retired[h] = written[h]

\* A retired generation is dead: no hash is both live and retired, and the
\* successor a record names was installed.
RetiredIsNotLive ==
    \A h \in Hash : retired[h] # None =>
        /\ live[h] = None
        /\ retired[h].successor_hash \in minted \ {h}

\* The absolute deadline: no step gives a family a later (or an earlier)
\* deadline than the one its live generation had, and none skips or repeats a
\* generation (mint_replacement's postconditions, across all interleavings).
DeadlineNeverMoves ==
    [][\A h1, h2 \in Hash :
          /\ live[h1] # None /\ live'[h2] # None /\ live'[h2] # live[h2]
          /\ live[h1].family_id = live'[h2].family_id
          => /\ live'[h2].expires_at = live[h1].expires_at
             /\ live'[h2].generation = live[h1].generation + 1]_portVars
=============================================================================
