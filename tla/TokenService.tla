----------------------------- MODULE TokenService ------------------------------
(***************************************************************************)
(* The token service of crates/core/src/service (exchange.rs, refresh.rs,  *)
(* revoke.rs, and the status half of user_admin.rs) over the session store *)
(* of SessionPort and the user store.  Requests run concurrently; each     *)
(* action below is the code of one request from one await to the next, so  *)
(* every answer a request acts on may be stale by then.                    *)
(*                                                                         *)
(* Any await may fail (a store error, a signing failure, an audit sink     *)
(* failure under audit.durability = enforce): FailRequest and FailAdmin.   *)
(***************************************************************************)
EXTENDS SessionPort

CONSTANTS
    Client,           \* concurrent requests of clients
    Admin,            \* concurrent requests of operators
    Grace,            \* refresh_rotation_grace, in seconds
    RefreshRotation,  \* the settings of [token] refresh_rotation deployed over time
    Enforce,          \* audit.durability = enforce
    MaxRequests       \* bound on the number of client requests

ASSUME ServiceAssumption ==
    /\ Grace \in Nat \ {0}
    /\ RefreshRotation \subseteq BOOLEAN
    /\ Enforce \in BOOLEAN
    /\ MaxRequests \in Nat

VARIABLES
    rotation,    \* [token] refresh_rotation of the running process
    status,      \* user store: the status of each user
    req,         \* client requests in flight
    adm,         \* operator requests in flight
    delivered,   \* hashes of the refresh tokens clients have received
    arrived,     \* how many client requests were received
    presented,   \* how often each hash was presented for refresh (history)
    wins,        \* swaps: presented, consumed and installed hash (history)
    ended,       \* hashes whose live row a logout removed (history)
    alarmed,     \* families a RefreshTokenReuse event names (history)
    unswept      \* users whose sessions a failed admin request left (history)

requestVars == <<req, arrived, delivered, presented, wins, ended, alarmed>>
adminVars == <<status, adm, unswept>>
vars == <<portVars, requestVars, adminVars, rotation>>

Status == {"Active", "Suspended", "Deleted"}

Resolution ==
    [kind : {"Live", "Superseded", "Retired", "Unknown"}, hash : Hash,
     session : Session \cup {None}, retired_at : Nat, family_id : Family \cup {NoFamily}]

Idle == [pc |-> "idle", presented |-> None, res |-> None, user |-> None,
         seen |-> None, fresh |-> None]

Request ==
    [pc : {"idle", "resolved", "gated", "rotated", "alarm",
           "admitted", "stored", "undo", "logout"},
     presented : Hash \cup {None}, res : Resolution \cup {None},
     user : User \cup {None}, seen : Status \cup {None}, fresh : Hash \cup {None}]

Quiet == [pc |-> "idle", user |-> None, target |-> None, current |-> None,
          family |-> None]

AdminRequest ==
    [pc : {"idle", "write", "revoke", "revokeOne"}, user : User \cup {None},
     target : Status \cup {None}, current : Status \cup {None},
     family : Family \cup {None}]

-----------------------------------------------------------------------------
(* Refresh. *)

\* (Mistake: the last second of the window is outside it.)
WithinGraceExclusive(retired_at) == now - retired_at < Grace

within_grace(retired_at) == now - retired_at <= Grace

\* (Mistake: every rotation starts a new lifetime.)
MintSlidingDeadline(s, f) ==
    [user_id |-> s.user_id,
     family_id |-> IF s.family_id = NoFamily THEN f ELSE s.family_id,
     generation |-> s.generation + 1,
     expires_at |-> now + Ttl]

\* The next generation of a live session; a legacy row moves to a new family f.
mint_replacement(s, f) ==
    [user_id |-> s.user_id,
     family_id |-> IF s.family_id = NoFamily THEN f ELSE s.family_id,
     generation |-> s.generation + 1,
     expires_at |-> s.expires_at]

\* (Mistake: the grace window is honoured with rotation switched off.)
MayRotateWhenOff(r) ==
    r.kind = "Live" \/ (r.kind = "Superseded" /\ within_grace(r.retired_at))

\* What refresh() decides for the resolution a request holds.
MayRotate(r) ==
    \/ r.kind = "Live"
    \/ rotation /\ r.kind = "Superseded" /\ within_grace(r.retired_at)
IsReuse(r) ==
    /\ rotation
    /\ (r.kind = "Retired") \/ (r.kind = "Superseded" /\ ~within_grace(r.retired_at))

\* Steps that change nothing but the request.
Local == UNCHANGED <<portVars, adminVars, rotation, arrived, delivered, presented, wins, ended, alarmed>>

\* A client's request arrives at slot c and starts as r.
Receive(c, r) ==
    /\ req[c].pc = "idle"
    /\ arrived < MaxRequests
    /\ arrived' = arrived + 1
    /\ req' = [req EXCEPT ![c] = r]

\* refresh(): hash the presented token and classify it.  A client presents a
\* token it received; a string that never was one resolves like a token whose
\* rows are gone.
Present(c, h) ==
    /\ h \in delivered
    /\ Receive(c, [Idle EXCEPT !.pc = "resolved", !.presented = h,
                               !.res = resolve_refresh_token(h)])
    /\ presented' = [presented EXCEPT ![h] = @ + 1]
    /\ UNCHANGED <<portVars, adminVars, rotation, delivered, wins, ended, alarmed>>

\* Unknown, or retired with rotation switched off: refused in silence.
RefuseUnknown(c) ==
    /\ req[c].pc = "resolved"
    /\ ~MayRotate(req[c].res) /\ ~IsReuse(req[c].res)
    /\ req' = [req EXCEPT ![c] = Idle]
    /\ Local

\* The expiry gate, before any write.
RefuseExpired(c) ==
    /\ req[c].pc = "resolved"
    /\ MayRotate(req[c].res)
    /\ req[c].res.session.expires_at < now
    /\ req' = [req EXCEPT ![c] = Idle]
    /\ Local

\* Past the expiry gate: read the user.
ReadUser(c) ==
    /\ req[c].pc = "resolved"
    /\ MayRotate(req[c].res)
    /\ req[c].res.session.expires_at >= now
    /\ req' = [req EXCEPT ![c].pc = "gated",
                          ![c].seen = status[req[c].res.session.user_id]]
    /\ Local

\* The user gate: PrincipalSuspended.
RefuseSuspended(c) ==
    /\ req[c].pc = "gated"
    /\ req[c].seen # "Active"
    /\ req' = [req EXCEPT ![c] = Idle]
    /\ Local

\* The compare-and-swap wins.  (A swap whose answer is lost is a swap followed by
\* FailRequest, as is a signing or audit failure after it.)
Swap(c, h2, f) ==
    LET r == req[c].res
    IN  /\ req[c].pc = "gated"
        /\ req[c].seen = "Active"
        /\ rotation
        /\ live[r.hash] # None
        /\ h2 \notin minted
        /\ IF r.session.family_id = NoFamily THEN f \notin families
                                             ELSE f = r.session.family_id
        /\ rotate_refresh_token(r.hash, h2, mint_replacement(r.session, f), now)
        /\ wins' = wins \cup {<<req[c].presented, r.hash, h2>>}
        /\ req' = [req EXCEPT ![c].pc = "rotated", ![c].fresh = h2]
        /\ UNCHANGED <<adminVars, rotation, arrived, delivered, presented, ended, alarmed>>

\* (Mistake: a lost swap is only provided for on the grace path.)
LoseSwapOnGrace(c) ==
    /\ req[c].pc = "gated"
    /\ req[c].seen = "Active"
    /\ rotation
    /\ req[c].res.kind = "Superseded"
    /\ live[req[c].res.hash] = None
    /\ req' = [req EXCEPT ![c] = Idle]
    /\ Local

\* The compare-and-swap loses: refused, nothing revoked, no alarm.
LoseSwap(c) ==
    /\ req[c].pc = "gated"
    /\ req[c].seen = "Active"
    /\ rotation
    /\ live[req[c].res.hash] = None
    /\ req' = [req EXCEPT ![c] = Idle]
    /\ Local

\* refresh_without_rotation(): an access token only, nothing is written.
RespondWithoutRotation(c) ==
    /\ req[c].pc = "gated"
    /\ req[c].seen = "Active"
    /\ ~rotation
    /\ req' = [req EXCEPT ![c] = Idle]
    /\ Local

\* Signing and the mandatory audit record succeed: the client gets its tokens.
Respond(c) ==
    /\ req[c].pc \in {"rotated", "stored"}
    /\ delivered' = delivered \cup {req[c].fresh}
    /\ req' = [req EXCEPT ![c] = Idle]
    /\ UNCHANGED <<portVars, adminVars, rotation, arrived, presented, wins, ended, alarmed>>

\* (Mistake: reuse ends the successor's session, not the family.)
RevokeSuccessorForReuse(c) ==
    /\ req[c].pc = "resolved"
    /\ IsReuse(req[c].res)
    /\ revoke_session(req[c].res.hash)
    /\ req' = [req EXCEPT ![c].pc = "alarm"]
    /\ UNCHANGED <<adminVars, rotation, arrived, delivered, presented, wins, ended, alarmed>>

\* revoke_family_for_reuse(): the revocation, before the event.
RevokeForReuse(c) ==
    /\ req[c].pc = "resolved"
    /\ IsReuse(req[c].res)
    /\ revoke_family(req[c].res.family_id)
    /\ req' = [req EXCEPT ![c].pc = "alarm"]
    /\ UNCHANGED <<adminVars, rotation, arrived, delivered, presented, wins, ended, alarmed>>

\* The RefreshTokenReuse event; the client sees an unknown token.
RaiseAlarm(c) ==
    /\ req[c].pc = "alarm"
    /\ alarmed' = alarmed \cup {req[c].res.family_id}
    /\ req' = [req EXCEPT ![c] = Idle]
    /\ UNCHANGED <<portVars, adminVars, rotation, arrived, delivered, presented, wins, ended>>

-----------------------------------------------------------------------------
(* Exchange, from the user lookup on. *)

\* The user is found and active (or has just been registered).
Admit(c, u) ==
    /\ status[u] = "Active"
    /\ Receive(c, [Idle EXCEPT !.pc = "admitted", !.user = u])
    /\ UNCHANGED <<portVars, adminVars, rotation, delivered, presented, wins, ended, alarmed>>

\* Mint the family and store its generation 0.
StoreSession(c, h, f) ==
    /\ req[c].pc = "admitted"
    /\ h \notin minted
    /\ f \notin families
    /\ store_refresh_token(h, [user_id |-> req[c].user, family_id |-> f,
                               generation |-> 0, expires_at |-> now + Ttl])
    /\ req' = [req EXCEPT ![c].pc = "stored", ![c].fresh = h]
    /\ UNCHANGED <<adminVars, rotation, arrived, delivered, presented, wins, ended, alarmed>>

\* The terminal audit record is refused under enforce: take the session back.
AuditRejected(c) ==
    /\ req[c].pc = "stored"
    /\ Enforce
    /\ req' = [req EXCEPT ![c].pc = "undo"]
    /\ Local

UndoStore(c) ==
    /\ req[c].pc = "undo"
    /\ revoke_session(req[c].fresh)
    /\ req' = [req EXCEPT ![c] = Idle]
    /\ UNCHANGED <<adminVars, rotation, arrived, delivered, presented, wins, ended, alarmed>>

-----------------------------------------------------------------------------
(* Revocation by clients. *)

\* revoke_refresh_token(): look the presented token up ...
LookupForRevoke(c, h) ==
    /\ h \in delivered
    /\ live[h] # None
    /\ Receive(c, [Idle EXCEPT !.pc = "logout", !.presented = h])
    /\ UNCHANGED <<portVars, adminVars, rotation, delivered, presented, wins, ended, alarmed>>

\* ... and delete that row.
RevokeRefreshToken(c) ==
    /\ req[c].pc = "logout"
    /\ revoke_session(req[c].presented)
    /\ ended' = ended \cup {req[c].presented}
    /\ req' = [req EXCEPT ![c] = Idle]
    /\ UNCHANGED <<adminVars, rotation, arrived, delivered, presented, wins, alarmed>>

\* revoke_access_token(): the sid of a valid access token names a family.
RevokeAccessToken(c, f) ==
    /\ f \in families
    /\ Receive(c, Idle)
    /\ revoke_family(f)
    /\ UNCHANGED <<adminVars, rotation, delivered, presented, wins, ended, alarmed>>

FailRequest(c) ==
    /\ req[c].pc # "idle"
    /\ req' = [req EXCEPT ![c] = Idle]
    /\ Local

-----------------------------------------------------------------------------
(* Operators. *)

can_transition_to(from, to) == from # "Deleted"

\* apply_validated_patch(): read the user and check the transition ...
AdminRead(a, u, target) ==
    /\ adm[a].pc = "idle"
    /\ can_transition_to(status[u], target)
    /\ adm' = [adm EXCEPT ![a] = [Quiet EXCEPT !.pc = "write", !.user = u,
                                      !.target = target, !.current = status[u]]]
    /\ UNCHANGED <<portVars, requestVars, rotation, status, unswept>>

\* (Mistake: only deletion ends the user's sessions.)
AdminWriteNoSweep(a) ==
    LET t == adm[a].target
    IN  /\ adm[a].pc = "write"
        /\ status' = [status EXCEPT ![adm[a].user] = t]
        /\ adm' = [adm EXCEPT ![a] = IF t = "Deleted" THEN [@ EXCEPT !.pc = "revoke"]
                                                     ELSE Quiet]
        /\ UNCHANGED <<portVars, requestVars, rotation, unswept>>

\* ... write the patch, and revoke only if the status read above differs ...
AdminWrite(a) ==
    LET t == adm[a].target
        entered == t # adm[a].current /\ t \in {"Suspended", "Deleted"}
    IN  /\ adm[a].pc = "write"
        /\ status' = [status EXCEPT ![adm[a].user] = t]
        /\ adm' = [adm EXCEPT ![a] = IF entered THEN [@ EXCEPT !.pc = "revoke"] ELSE Quiet]
        /\ UNCHANGED <<portVars, requestVars, rotation, unswept>>

\* ... all of the user's sessions.  Also the tail of admin_revoke_user_sessions.
AdminRevokeAll(a) ==
    /\ adm[a].pc = "revoke"
    /\ revoke_all_user_sessions(adm[a].user)
    /\ unswept' = unswept \ {adm[a].user}
    /\ adm' = [adm EXCEPT ![a] = Quiet]
    /\ UNCHANGED <<requestVars, rotation, status>>

\* The user is there and not deleted.
load_live_user(u) == status[u] # "Deleted"

\* What operators see of a user's sessions: none of the ones that predate families.
admin_list_user_sessions(u) ==
    {h \in list_live_sessions(u) : load_live_user(u) /\ live[h].family_id # NoFamily}

\* admin_revoke_user_sessions(): load_live_user, then revoke them all.
AdminEndSessions(a, u) ==
    /\ adm[a].pc = "idle"
    /\ load_live_user(u)
    /\ adm' = [adm EXCEPT ![a] = [Quiet EXCEPT !.pc = "revoke", !.user = u]]
    /\ UNCHANGED <<portVars, requestVars, rotation, status, unswept>>

\* admin_revoke_user_session(): find the family among the listed sessions ...
AdminFindSession(a, u, h) ==
    /\ adm[a].pc = "idle"
    /\ h \in admin_list_user_sessions(u)
    /\ adm' = [adm EXCEPT ![a] = [Quiet EXCEPT !.pc = "revokeOne", !.user = u,
                                      !.family = live[h].family_id]]
    /\ UNCHANGED <<portVars, requestVars, rotation, status, unswept>>

\* ... and revoke it.
AdminRevokeSession(a) ==
    /\ adm[a].pc = "revokeOne"
    /\ revoke_family(adm[a].family)
    /\ adm' = [adm EXCEPT ![a] = Quiet]
    /\ UNCHANGED <<requestVars, rotation, status, unswept>>

FailAdmin(a) ==
    /\ adm[a].pc # "idle"
    /\ adm' = [adm EXCEPT ![a] = Quiet]
    /\ unswept' = IF adm[a].pc = "revoke" THEN unswept \cup {adm[a].user} ELSE unswept
    /\ UNCHANGED <<portVars, requestVars, rotation, status>>

\* The process stops, or is redeployed with another setting: every request in
\* flight is cut where it stands.
Restart ==
    /\ rotation' \in RefreshRotation
    /\ req' = [c \in Client |-> Idle]
    /\ adm' = [a \in Admin |-> Quiet]
    /\ unswept' = unswept \cup {adm[a].user : a \in {b \in Admin : adm[b].pc = "revoke"}}
    /\ UNCHANGED <<portVars, arrived, delivered, presented, wins, ended, alarmed, status>>

-----------------------------------------------------------------------------
Init ==
    /\ PortInit
    /\ rotation \in RefreshRotation
    /\ status = [u \in User |-> "Active"]
    /\ req = [c \in Client |-> Idle]
    /\ adm = [a \in Admin |-> Quiet]
    /\ delivered = Legacy
    /\ arrived = 0
    /\ presented = [h \in Hash |-> 0]
    /\ wins = {}
    /\ ended = {}
    /\ alarmed = {}
    /\ unswept = {}

\* The steps a request takes by itself once it has been received.
ClientStep(c) ==
    \/ RefuseUnknown(c) \/ RefuseExpired(c) \/ ReadUser(c) \/ RefuseSuspended(c)
    \/ \E h2 \in Hash, f \in Family : Swap(c, h2, f)
    \/ LoseSwap(c) \/ RespondWithoutRotation(c) \/ Respond(c)
    \/ RevokeForReuse(c) \/ RaiseAlarm(c)
    \/ \E h \in Hash, f \in Family : StoreSession(c, h, f)
    \/ AuditRejected(c) \/ UndoStore(c)
    \/ RevokeRefreshToken(c)

AdminStep(a) == AdminWrite(a) \/ AdminRevokeAll(a) \/ AdminRevokeSession(a)

Arrival ==
    \/ \E c \in Client, h \in Hash : Present(c, h) \/ LookupForRevoke(c, h)
    \/ \E c \in Client, u \in User : Admit(c, u)
    \/ \E c \in Client, f \in Family : RevokeAccessToken(c, f)
    \/ \E a \in Admin, u \in User, t \in Status : AdminRead(a, u, t)
    \/ \E a \in Admin, u \in User : AdminEndSessions(a, u)
    \/ \E a \in Admin, u \in User, h \in Hash : AdminFindSession(a, u, h)

Failure == (\E c \in Client : FailRequest(c)) \/ (\E a \in Admin : FailAdmin(a))

\* The reaper and the clock.
Environment ==
    /\ cleanup_expired_sessions(now, Hash) \/ Tick
    /\ UNCHANGED <<requestVars, adminVars, rotation>>

Next ==
    \/ \E c \in Client : ClientStep(c)
    \/ \E a \in Admin : AdminStep(a)
    \/ Arrival
    \/ Failure
    \/ Restart
    \/ Environment

Spec == Init /\ [][Next]_vars

\* A request's future is polled to completion; the await it stands at answers.
FairSpec == Spec /\ \A c \in Client : WF_vars(ClientStep(c))

-----------------------------------------------------------------------------
(* Properties. *)

TypeOK ==
    /\ PortTypeOK
    /\ rotation \in BOOLEAN
    /\ status \in [User -> Status]
    /\ req \in [Client -> Request]
    /\ adm \in [Admin -> AdminRequest]
    /\ delivered \subseteq minted
    /\ arrived \in Nat
    /\ presented \in [Hash -> Nat]
    /\ wins \subseteq Hash \X Hash \X Hash
    /\ ended \subseteq Hash
    /\ alarmed \subseteq Family
    /\ unswept \subseteq User

\* One redemption per generation: however many requests hold the same token or
\* a token it superseded, a live row is consumed by one swap at most, and one
\* presented token is answered by at most two swaps (the redemption, and one
\* rotation forward inside the grace window).
RedeemedOnce ==
    /\ \A w1, w2 \in wins : w1[2] = w2[2] => w1 = w2
    /\ \A w1, w2, w3 \in wins :
           w1[1] = w2[1] /\ w2[1] = w3[1] => w1 = w2 \/ w2 = w3 \/ w1 = w3

\* Revocation precedes the alarm: a family named by a RefreshTokenReuse event
\* is dead at that moment and for good, also when the request that detected
\* the reuse raced rotations of the same family.
AlarmedFamilyIsDead ==
    \A f \in alarmed : LiveOf(f) = {} /\ RetiredOf(f) = {}

\* One retry is safe: a client whose answer was lost and who presents the same
\* token once more inside the grace window never loses its family to the reuse
\* response, unless the successor was used, or this token had itself been
\* consumed by a replay of its predecessor (the replay takes the retry's place).
OneRetryIsSafe ==
    [][\A c \in Client :
          LET r == req[c].res
          IN  req[c].pc = "resolved" /\ req'[c].pc = "alarm"
                 /\ now - r.retired_at <= Grace
              => \/ presented[req[c].presented] > 2
                 \/ presented[r.hash] > 0
                 \/ r.hash \in ended
                 \/ \E w \in wins : w[2] = req[c].presented /\ w[1] # req[c].presented]_vars

\* Switching rotation off does not bring superseded tokens back: a generation
\* retired while it was on never earns an access token while it is off.
RetiredStaysRefusedWhenOff ==
    \A c \in Client :
        req[c].pc = "gated" /\ ~rotation => retired[req[c].presented] = None

\* A pre-rotation token is redeemed once and leaves no trace: presenting it
\* again, or losing the race for it, never costs the new family its life.
LegacyReplayIsUnknown ==
    [][\A c \in Client :
          req[c].presented \in Legacy /\ req[c].pc = "resolved" => req'[c].pc # "alarm"]_vars

\* A rotation in flight cannot survive a suspension: once an operator's
\* suspension or deletion of a user has completed, no live session of the user
\* is a rotated one, also if a refresh had passed the user gate before it.
RotationCannotSurviveSuspension ==
    \A u \in User :
        /\ status[u] # "Active"
        /\ u \notin unswept
        /\ \A a \in Admin : adm[a].user # u
        => \A h \in Hash : live[h] # None /\ live[h].user_id = u =>
               live[h].generation = 0 /\ live[h].family_id # NoFamily

\* Every request ends: no outcome of a lookup, a gate or a lost race leaves a
\* request without an answer.
RequestsEnd == \A c \in Client : (req[c].pc # "idle") ~> (req[c].pc = "idle")
=============================================================================
