---------------------------- MODULE DynamoSessions -----------------------------
(***************************************************************************)
(* The session half of the DynamoDB adapter                                *)
(* (crates/adapters/src/dynamo/mod.rs): SESSION# and RETIRED# items, and   *)
(* the roster on the user's item that revocations enumerate.               *)
(*                                                                         *)
(* Of DynamoDB (external) the adapter relies on this: GetItem with         *)
(* consistent_read sees every committed write; TransactWriteItems is       *)
(* atomic and fails as a whole when one condition does; BatchWriteItem     *)
(* deletes its keys one by one and may leave some unprocessed; a Scan      *)
(* reads its pages at different times; TTL deletes an expired item at some *)
(* later moment; an update of a nested path fails if its root is absent,   *)
(* and so does one that puts the empty string in a set.                    *)
(***************************************************************************)
EXTENDS SessionPort

CONSTANTS
    Call,         \* concurrent calls of the port
    MaxAttempts,  \* REVOCATION_MAX_ATTEMPTS
    Ops           \* the calls made: {"rotate", "revoke", "family", "all"}

\* A token hash is never the empty string, and the markers are no hashes.
ASSUME DynamoAssumption == None \notin Hash /\ NoFamily \notin Hash /\ None # NoFamily

VARIABLES
    roster,   \* the USER#<id>/USER items
    call,     \* the calls in progress
    revoking  \* families a revocation has begun to delete (history)

dynamoVars == <<portVars, roster, call, revoking>>

Blank == NoFamily  \* the empty string, as a live pointer

\* FamilyRoster: live (a hash or Blank; None for an absent entry) and members.
NoEntry == [live |-> None, members |-> {}]

\* UserRoster.  item: there is such an item.  root: it has its families attribute.
EmptyRoster == [sessions |-> {}, families |-> [f \in Family |-> NoEntry],
                item |-> TRUE, root |-> TRUE]
\* Of a user who predates rosters.
NoRoster == [EmptyRoster EXCEPT !.item = FALSE, !.root = FALSE]

Item == {"SESSION", "RETIRED"} \X Hash

\* hash, fresh: rotate's arguments.  old: the live row it read, and at, the clock
\* then.  read: the roster read.  todo: keys not deleted yet, or not scanned yet.
Done == [pc |-> "done", hash |-> None, fresh |-> None, old |-> None, user |-> None,
         family |-> None, read |-> None, todo |-> {}, attempt |-> 0, at |-> 0]

FreshHash == Hash \ (minted \cup {call[p].fresh : p \in Call})
FreshFamily == Family \ (families \cup {call[p].family : p \in Call})

Step(p, c) == call' = [call EXCEPT ![p] = c]
Goto(p, pc) == Step(p, [call[p] EXCEPT !.pc = pc])

\* The migration, one user of its scan at a time: a roster is put where there is no item.
backfill_session_rosters(u) ==
    /\ ~roster[u].item
    /\ roster' = [roster EXCEPT ![u] = EmptyRoster]
    /\ UNCHANGED <<portVars, call, revoking>>

-----------------------------------------------------------------------------
(* Reads: consistent GetItems, and a BatchGetItem. *)

get_session_item(h) == live[h]
get_retired_record(h) == retired[h]

\* The three reads of resolve_refresh_token, as if no write came in between.
resolve_refresh_token_dynamo(h) ==
    LET rec == get_retired_record(h)
    IN  CASE get_session_item(h) # None -> "Live"
          [] get_session_item(h) = None /\ (rec = None \/ rec.expires_at <= now) -> "Unknown"
          [] OTHER -> IF get_session_item(rec.successor_hash) # None
                      THEN "Superseded" ELSE "Retired"

\* The items the family entries of the roster point at.  (Retried for unprocessed keys,
\* or an error.)  A legacy session has no entry and is not listed.
list_live_sessions_dynamo(u) ==
    {h \in {roster[u].families[f].live : f \in Family} \ {Blank, None} :
        get_session_item(h) # None /\ get_session_item(h).expires_at > now}

-----------------------------------------------------------------------------
(* store_refresh_token: the item and the roster in one transaction. *)

\* The item of a sign-in's first generation.
session_to_item(u, f) ==
    [user_id |-> u, family_id |-> f, generation |-> 0, expires_at |-> now + Ttl]

store_refresh_token_dynamo(h, f, u) ==
    /\ roster[u].root
    /\ store_refresh_token(h, session_to_item(u, f))
    /\ roster' = [roster EXCEPT ![u].sessions = @ \cup {h},
                                ![u].families[f] = [live |-> h, members |-> {h}]]
    /\ UNCHANGED <<call, revoking>>

-----------------------------------------------------------------------------
(* rotate_refresh_token. *)

\* The call, from its read of the live row (gone: Ok(false), and nothing changes).  The
\* core gives a legacy row a new family, and keeps a row's own otherwise.
CallRotate(p, h, h2, f) ==
    /\ call[p].pc = "done" /\ "rotate" \in Ops
    /\ live[h] # None
    /\ IF live[h].family_id = NoFamily THEN f \in FreshFamily ELSE f = live[h].family_id
    /\ Step(p, [Done EXCEPT !.pc = "read roster", !.hash = h, !.fresh = h2, !.family = f,
                   !.user = live[h].user_id, !.old = live[h], !.at = now])
    /\ UNCHANGED <<portVars, roster, revoking>>

\* The roster, from which the new sessions set is computed.  The assertion that it
\* names the live generation ends the call when it fails.
ReadRosterForRotate(p) ==
    LET r == roster[call[p].user]
    IN  /\ call[p].pc = "read roster"
        /\ Step(p, IF call[p].old.family_id = NoFamily \/ call[p].hash \in r.sessions
                   THEN [call[p] EXCEPT !.pc = "transact", !.read = r] ELSE Done)
        /\ UNCHANGED <<portVars, roster, revoking>>

\* The record of the generation a rotation c consumes, dated when c read the row.
retirement_record(c) ==
    [family_id |-> c.old.family_id, user_id |-> c.user, successor_hash |-> c.fresh,
     retired_at |-> c.at, expires_at |-> retention_deadline(c.at, c.old.expires_at)]

\* The replacement the core asked for.
Generation(s, f) == [s EXCEPT !.family_id = f, !.generation = @ + 1]

\* (Mistake: the members are set, not added to.)
MovedEntryAlone(e, c) == [live |-> c.fresh, members |-> {c.fresh}]

\* The family's entry after the rotation: a legacy row's new family gets a first entry.
MovedEntry(e, c) ==
    [live |-> c.fresh,
     members |-> IF c.old.family_id = NoFamily THEN {c.fresh}
                 ELSE e.members \cup {c.hash, c.fresh}]

\* One TransactWriteItems: delete the live item if it exists (the compare-and-swap),
\* put the replacement and, unless the row is a legacy one, the record; install the
\* sessions set computed from the earlier read; move the family entry.
TransactRotate(p) ==
    LET c      == call[p]
        legacy == c.old.family_id = NoFamily
        rec    == retirement_record(c)
        entry  == roster[c.user].families[c.family]
    IN  /\ c.pc = "transact"
        /\ live[c.hash] # None
        /\ roster[c.user].root /\ (~legacy => entry.live # None)
        /\ live' = [live EXCEPT ![c.hash] = None, ![c.fresh] = Generation(c.old, c.family)]
        /\ retired' = IF legacy THEN retired ELSE [retired EXCEPT ![c.hash] = rec]
        /\ written' = IF legacy THEN written ELSE [written EXCEPT ![c.hash] = rec]
        /\ roster' = [roster EXCEPT
               ![c.user].sessions = (c.read.sessions \ {c.hash}) \cup {c.fresh},
               ![c.user].families[c.family] =
                   MovedEntry(@, c)]
        /\ minted' = minted \cup {c.fresh}
        /\ families' = families \cup {c.family}
        /\ Step(p, Done)
        /\ UNCHANGED <<now, closed, revoking>>

-----------------------------------------------------------------------------
(* revoke_session: read, then one transaction. *)

CallRevoke(p, h) ==
    /\ call[p].pc = "done" /\ "revoke" \in Ops
    /\ live[h] # None
    /\ Step(p, [Done EXCEPT !.pc = "logout", !.hash = h, !.old = live[h], !.user = live[h].user_id])
    /\ UNCHANGED <<portVars, roster, revoking>>

\* The item (if it exists), its place in the sessions set, and the live pointer of its
\* family: a nested path, which needs the entry.
TransactRevoke(p) ==
    LET c == call[p]
        f == c.old.family_id
    IN  /\ c.pc = "logout"
        /\ live[c.hash] # None
        /\ roster[c.user].item
        /\ f # NoFamily => roster[c.user].families[f].live # None
        /\ revoke_session(c.hash)
        /\ roster' = [roster EXCEPT ![c.user].sessions = @ \ {c.hash},
                        ![c.user].families = IF f = NoFamily THEN @
                                             ELSE [@ EXCEPT ![f].live = Blank]]
        /\ Step(p, Done)
        /\ UNCHANGED revoking

-----------------------------------------------------------------------------
(* revoke_family. *)

CallRevokeFamily(p, f) ==
    /\ call[p].pc = "done" /\ "family" \in Ops
    /\ Step(p, [Done EXCEPT !.pc = "scan", !.family = f, !.todo = Item])
    /\ UNCHANGED <<portVars, roster, revoking>>

OwnerIn(keys, f) ==
    {live[k[2]].user_id : k \in {i \in keys : i[1] = "SESSION" /\ live[i[2]] # None
                                              /\ live[i[2]].family_id = f}}
    \cup
    {retired[k[2]].user_id : k \in {i \in keys : i[1] = "RETIRED" /\ retired[i[2]] # None
                                                 /\ retired[i[2]].family_id = f}}

\* The table in one page, or cut between the two kinds of item, in either order.
FirstPage == {Item, {"SESSION"} \X Hash, {"RETIRED"} \X Hash}

\* user_ids_for_family: a page of the table at a time.
\* A family has one owner, so the walk over the owners found is one owner's.
user_ids_for_family(p) ==
    LET c == call[p]
    IN  /\ c.pc = "scan" /\ c.todo # {}
        /\ \E page \in IF c.todo = Item THEN FirstPage ELSE {c.todo} :
              LET owners == OwnerIn(page, c.family)
                  rest   == c.todo \ page
              IN  Step(p, IF owners # {}
                          THEN [c EXCEPT !.pc = "read entry", !.todo = {}, !.attempt = 1,
                                         !.user = CHOOSE u \in owners : TRUE]
                          ELSE IF rest = {} THEN Done ELSE [c EXCEPT !.todo = rest])
        /\ UNCHANGED <<portVars, roster, revoking>>

\* The entry names what to delete.  No entry: Ok with what was counted so far; the
\* budget spent: an error.
ReadEntry(p) ==
    LET c == call[p]
        e == roster[c.user].families[c.family]
    IN  /\ c.pc = "read entry"
        /\ IF \/ c.attempt > MaxAttempts \/ e.live = None
              \/ e.live # Blank /\ e.live \notin roster[c.user].sessions
           THEN Step(p, Done) /\ UNCHANGED revoking
           ELSE /\ Step(p, [c EXCEPT !.pc = "delete entry", !.read = roster[c.user],
                       !.todo = (IF e.live = Blank THEN {} ELSE {<<"SESSION", e.live>>})
                                \cup {<<"RETIRED", h>> : h \in e.members \ {e.live}}])
                /\ revoking' = revoking \cup {c.family}
        /\ UNCHANGED <<portVars, roster>>

\* BatchWriteItem processes a key.
DeleteItem(p) ==
    LET c == call[p]
    IN  /\ c.pc \in {"delete entry", "delete all"} /\ c.todo # {}
        /\ \E k \in c.todo :
              /\ live' = IF k[1] = "SESSION" THEN [live EXCEPT ![k[2]] = None] ELSE live
              /\ retired' = IF k[1] = "RETIRED" THEN [retired EXCEPT ![k[2]] = None] ELSE retired
              /\ Step(p, [c EXCEPT !.todo = @ \ {k}])
        /\ UNCHANGED <<now, minted, families, closed, written, roster, revoking>>

\* (Mistake: the entry is cleared without looking again.)
ConfirmEntryBlindly(p) ==
    /\ call[p].pc = "delete entry" /\ call[p].todo = {}
    /\ Goto(p, "clear entry")
    /\ UNCHANGED <<portVars, roster, revoking>>

\* The confirming read: a rotation in between means another attempt.
ConfirmEntry(p) ==
    LET c == call[p]
    IN  /\ c.pc = "delete entry" /\ c.todo = {}
        /\ Step(p, IF roster[c.user].families[c.family] = c.read.families[c.family]
                   THEN [c EXCEPT !.pc = "clear entry"]
                   ELSE [c EXCEPT !.pc = "read entry", !.attempt = @ + 1, !.read = None])
        /\ UNCHANGED <<portVars, roster, revoking>>

\* DELETE sessions :live REMOVE families.#f, then Ok.  (With a blank live pointer the
\* update is refused, since no set holds the empty string: that call only Fails.)
ClearEntry(p) ==
    LET c == call[p]
        h == c.read.families[c.family].live
    IN  /\ c.pc = "clear entry"
        /\ h # Blank /\ roster[c.user].root
        /\ roster' = [roster EXCEPT ![c.user].sessions = @ \ {h},
                                    ![c.user].families[c.family] = NoEntry]
        /\ closed' = closed \cup {c.family}
        /\ Step(p, Done)
        /\ UNCHANGED <<live, retired, now, minted, families, written, revoking>>

-----------------------------------------------------------------------------
(* revoke_all_user_sessions: the same protocol over the whole roster. *)

NamedFamilies(r) == {f \in Family : r.families[f].live # None}

CallRevokeAll(p, u) ==
    /\ call[p].pc = "done" /\ "all" \in Ops
    /\ Step(p, [Done EXCEPT !.pc = "read all", !.user = u, !.attempt = 1])
    /\ UNCHANGED <<portVars, roster, revoking>>

ReadAll(p) ==
    LET c     == call[p]
        r     == roster[c.user]
        lives == {r.families[f].live : f \in NamedFamilies(r)}
        past  == (UNION {r.families[f].members : f \in NamedFamilies(r)}) \ lives
    IN  /\ c.pc = "read all"
        /\ IF c.attempt > MaxAttempts \/ (r.sessions = {} /\ NamedFamilies(r) = {})
           THEN Step(p, Done) /\ UNCHANGED revoking
           ELSE /\ Step(p, [c EXCEPT !.pc = "delete all", !.read = r,
                       !.todo = {<<"SESSION", h>> : h \in r.sessions}
                                \cup {<<"RETIRED", h>> : h \in past}])
                /\ revoking' = revoking \cup NamedFamilies(r)
        /\ UNCHANGED <<portVars, roster>>

ConfirmAll(p) ==
    LET c == call[p]
    IN  /\ c.pc = "delete all" /\ c.todo = {}
        /\ Step(p, IF /\ roster[c.user].sessions = c.read.sessions
                      /\ roster[c.user].families = c.read.families
                   THEN [c EXCEPT !.pc = "clear all"]
                   ELSE [c EXCEPT !.pc = "read all", !.attempt = @ + 1, !.read = None])
        /\ UNCHANGED <<portVars, roster, revoking>>

\* REMOVE sessions, families, on no condition but that the item exists.
ClearAll(p) ==
    LET c == call[p]
    IN  /\ c.pc = "clear all"
        /\ roster[c.user].item
        /\ roster' = [roster EXCEPT ![c.user] = [EmptyRoster EXCEPT !.root = FALSE]]
        /\ Step(p, Done)
        /\ UNCHANGED <<portVars, revoking>>

-----------------------------------------------------------------------------
\* A request is refused, a condition fails, a retry budget is spent, or the process
\* dies: what the call did stays done.
Fails(p) ==
    /\ call[p].pc # "done"
    /\ Step(p, Done)
    /\ UNCHANGED <<portVars, roster, revoking>>

\* (Mistake: what is about to expire is deleted too.)
ExpireEarly(h) ==
    /\ live[h] # None \/ retired[h] # None
    /\ cleanup_expired_sessions(now + 2, {h})
    /\ UNCHANGED <<roster, call, revoking>>

\* TTL or a batch of cleanup_expired_sessions: the roster is not told.
Expire(h) ==
    /\ \/ live[h] # None /\ live[h].expires_at < now
       \/ retired[h] # None /\ retired[h].expires_at < now
    /\ cleanup_expired_sessions(now, {h})
    /\ UNCHANGED <<roster, call, revoking>>

DynamoInit ==
    /\ PortInit
    /\ roster = [u \in User |-> IF \E h \in Legacy : live[h].user_id = u
                                THEN NoRoster ELSE EmptyRoster]
    /\ call = [p \in Call |-> Done]
    /\ revoking = {}

CallStep(p) ==
    \/ ReadRosterForRotate(p) \/ TransactRotate(p) \/ TransactRevoke(p)
    \/ user_ids_for_family(p) \/ ReadEntry(p) \/ DeleteItem(p) \/ ConfirmEntry(p) \/ ClearEntry(p)
    \/ ReadAll(p) \/ ConfirmAll(p) \/ ClearAll(p)

NewCall(p) ==
    \/ \E h \in Hash, h2 \in FreshHash, f \in Family : CallRotate(p, h, h2, f)
    \/ \E h \in Hash : CallRevoke(p, h)
    \/ \E f \in families : CallRevokeFamily(p, f)
    \/ \E u \in User : CallRevokeAll(p, u)

DynamoNext ==
    \/ \E p \in Call : CallStep(p) \/ NewCall(p) \/ Fails(p)
    \/ \E h \in FreshHash, f \in FreshFamily, u \in User : store_refresh_token_dynamo(h, f, u)
    \/ \E h \in Hash : Expire(h)
    \/ \E u \in User : backfill_session_rosters(u)
    \/ Tick /\ UNCHANGED <<roster, call, revoking>>

DynamoSpec == DynamoInit /\ [][DynamoNext]_dynamoVars

-----------------------------------------------------------------------------
\* What revoke_family relies on when it trusts the roster: as long as a family has an
\* entry, the entry names the family's live item and remembers every record, through
\* rotations built on an older read, logouts and revocations; so the listing of the
\* user shows the session.
RosterEntryIsCurrent ==
    \A u \in User, f \in Family, h \in Hash :
        LET e == roster[u].families[f]
        IN  e.live # None =>
              /\ live[h] # None /\ live[h].family_id = f /\ live[h].user_id = u
                    => /\ e.live = h /\ h \in e.members
                       /\ live[h].expires_at > now => h \in list_live_sessions_dynamo(u)
              /\ h \in RetiredOf(f) => h \in e.members

\* SR4.  A superseded generation stays detectable until its deadline unless a
\* revocation of its family has begun (one that fails half-way may have removed it).
ReuseDetectableUnlessRevoking ==
    \A h \in Hash :
        /\ written[h] # None
        /\ written[h].family_id \notin revoking
        /\ now < written[h].expires_at
        => /\ get_retired_record(h) = written[h]
           /\ resolve_refresh_token_dynamo(h) \in {"Superseded", "Retired"}

\* What create_user says of the seed it writes: it "is what lets every later roster
\* write succeed" (dynamo/mod.rs).
RosterAcceptsSignIn == \A u \in User : roster[u].item => roster[u].root
=============================================================================
