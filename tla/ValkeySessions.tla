---------------------------- MODULE ValkeySessions -----------------------------
(***************************************************************************)
(* The session half of the Valkey adapter                                  *)
(* (crates/adapters/src/valkey/mod.rs): session and retired keys with a    *)
(* TTL, the index sets user_sessions:<user> and family:<family>, and the   *)
(* active_sessions counter.  A call is a sequence of commands; only the    *)
(* rotation is a script.                                                   *)
(*                                                                         *)
(* Of Valkey (external) the adapter relies on this: a command or a script  *)
(* is atomic; a key is gone when its TTL is over; a set with no member is  *)
(* no key; the commands of a pipeline run in order, with commands of other *)
(* clients in between.  SCAN and its pages are one step here.              *)
(*                                                                         *)
(* A key lives by its TTL, a number of whole seconds that the adapter has  *)
(* truncated before it sends the command, and not by the expires_at in its *)
(* fields.  So now, Ttl and Retention count ticks, Second of them to a     *)
(* second, and every key has a deadline of its own.                        *)
(***************************************************************************)
EXTENDS SessionPort

CONSTANTS
    Call,        \* concurrent calls of the port
    Second,      \* ticks of the clock in a second, even (the server rounds at the half)
    MaxDelay,    \* bound on the ticks from a reading of the clock to the command it is for
    MaxRemovals  \* bound on the number of revocations and sweeps

ASSUME ValkeyAssumption ==
    /\ Second \in Nat \ {0} /\ Second % 2 = 0
    /\ MaxDelay \in Nat
    /\ MaxRemovals \in Nat
    /\ IsFiniteSet(Legacy)
    /\ None \notin Nat

VARIABLES
    userSet,    \* user_sessions:<user>, {} when there is no such key
    familySet,  \* family:<family>
    userTtl,    \* when the set expires
    familyTtl,
    sessionTtl, \* when the session key of a hash expires
    retiredTtl, \* when its retired key does
    counter,    \* active_sessions
    call,       \* the calls in progress
    begun,      \* how many removing calls of each kind have begun
    sentenced   \* the families and users some call has begun to remove (history)

ttlVars == <<userTtl, familyTtl, sessionTtl, retiredTtl>>
setVars == <<userSet, familySet, ttlVars>>
\* (closed, which no property of this module is about, is not kept; sentenced is.)
historyVars == <<minted, families, closed, written>>
valkeyVars == <<portVars, setVars, counter, call, begun, sentenced>>

\* of: the family, user or hash the call is about.  cur, owner: the member being
\* removed, and its user.  members: hashes read and not yet dealt with.  todo:
\* set keys a scan found.  count: keys deleted, keys counted, or a TTL.
\* next: where to go on after the counter.
Done == [pc |-> "done", of |-> None, cur |-> None, owner |-> None, members |-> {},
         todo |-> {}, count |-> 0, next |-> "done"]

Removal == {"session", "family", "user", "cleanup"}

Begin(kind) ==
    /\ begun["session"] + begun["family"] + begun["user"] + begun["cleanup"] < MaxRemovals
    /\ begun' = [begun EXCEPT ![kind] = @ + 1]

FreshHash == Hash \ minted
FreshFamily == Family \ families

\* A store still in its pipeline has not answered: nobody holds its token or knows
\* its family, so no call names them yet (a sweep or a scan still meets the keys).
Storing(h) == \E p \in Call : call[p].pc = "pipeline" /\ call[p].cur = h
Addressable(f) == \A p \in Call : call[p].pc = "pipeline" => call[p].of # f

\* The clock as a process may have read it for a command that is executed now.
Readings == {at \in 0..now : now <= at + MaxDelay}

\* chrono's num_seconds truncates; the server's TTL rounds to the nearest second.
num_seconds(ticks) == ticks \div Second
TTL(deadline) == (deadline - now + Second \div 2) \div Second

\* EXPIRE key secs.
EXPIRE(secs) == now + Second * secs

\* (Mistake: without the GT, only a set's first member gives it a deadline.)
BootstrapTtl(set, ttl, secs) == IF set = {} THEN EXPIRE(secs) ELSE ttl

\* EXPIRE NX, then GT, which compares the two deadlines exactly.
extend_ttl(set, ttl, secs) == IF set = {} \/ EXPIRE(secs) > ttl THEN EXPIRE(secs) ELSE ttl

\* bump_ttl of the script compares with TTL: the set may be left with a deadline up to
\* half a second before that of the key it names.  (TTL is -1 if the set has no member left.)
bump_ttl(set, ttl, secs) == IF set = {} \/ secs > TTL(ttl) THEN EXPIRE(secs) ELSE ttl

\* HGETALL of a session or a retired key, decoded.  A session written before families
\* existed has no family_id and no generation, which read as "" and 0.
get_session_by_refresh_token(h) == live[h]
get_retired_record(h) == retired[h]

\* The reads of the three calls that only read, each as if no command came in between.
resolve_refresh_token_valkey(h) ==
    LET rec == get_retired_record(h)
    IN  CASE get_session_by_refresh_token(h) # None -> "Live"
          [] get_session_by_refresh_token(h) = None /\ (rec = None \/ rec.expires_at <= now) -> "Unknown"
          [] OTHER -> IF get_session_by_refresh_token(rec.successor_hash) # None
                      THEN "Superseded" ELSE "Retired"

\* SMEMBERS of the user's set, then a read per member.
list_live_sessions_valkey(u) ==
    {h \in userSet[u] : LET row == get_session_by_refresh_token(h)
                        IN  row # None /\ row.user_id = u /\ row.expires_at > now}

\* GET of the counter, which is read as an unsigned number: an error while negative.
count_active_sessions == IF counter < 0 THEN None ELSE counter

Unfile(sets, k, hs) == [sets EXCEPT ![k] = @ \ hs]

-----------------------------------------------------------------------------
(* store_refresh_token: one pipeline. *)

\* HSET, EXPIRE; SADD and EXPIRE of the user's set ...  The exchange read the clock for
\* the deadline, and the adapter read it again for the TTL, which must not be under a
\* second (SESSION_TTL_SECONDS_MIN).
StoreSessionKey(p, h, f, u) ==
    \E issued, at \in Readings :
        LET secs == num_seconds(issued + Ttl - at)
        IN  /\ call[p].pc = "done"
            /\ issued <= at
            /\ secs >= 1
            /\ store_refresh_token(h, [user_id |-> u, family_id |-> f, generation |-> 0,
                                       expires_at |-> issued + Ttl])
            /\ sessionTtl' = [sessionTtl EXCEPT ![h] = EXPIRE(secs)]
            /\ userSet' = [userSet EXCEPT ![u] = @ \cup {h}]
            /\ userTtl' = [userTtl EXCEPT ![u] = extend_ttl(userSet[u], @, secs)]
            /\ call' = [call EXCEPT ![p] = [Done EXCEPT !.pc = "pipeline", !.of = f, !.cur = h,
                                                        !.count = secs]]
            /\ UNCHANGED <<familySet, familyTtl, retiredTtl, counter, begun, sentenced>>

\* ... INCR; SADD and EXPIRE of the family's set.
StoreFamilyKey(p) ==
    LET f == call[p].of
    IN  /\ call[p].pc = "pipeline"
        /\ counter' = counter + 1
        /\ familySet' = [familySet EXCEPT ![f] = @ \cup {call[p].cur}]
        /\ familyTtl' = [familyTtl EXCEPT ![f] = extend_ttl(familySet[f], @, call[p].count)]
        /\ call' = [call EXCEPT ![p] = Done]
        /\ UNCHANGED <<portVars, userSet, userTtl, sessionTtl, retiredTtl, begun, sentenced>>

-----------------------------------------------------------------------------
(* rotate_refresh_token: one script. *)

\* ROTATION_SCRIPT, when it answers 1.  (At 0 it has written nothing, and a fresh
\* replacement is never there already.)
RotationScript(h, h2, s, at, secs, retired_secs) ==
    LET u == s.user_id
        kept == live[h].family_id # NoFamily
        users == userSet[u] \ {h}
    IN  /\ live[h] # None
        /\ rotate_refresh_token(h, h2, s, at)
        /\ sessionTtl' = [sessionTtl EXCEPT ![h2] = EXPIRE(secs)]
        /\ retiredTtl' = IF kept THEN [retiredTtl EXCEPT ![h] = EXPIRE(retired_secs)] ELSE retiredTtl
        /\ userSet' = [userSet EXCEPT ![u] = users \cup {h2}]
        /\ userTtl' = [userTtl EXCEPT ![u] = bump_ttl(users, @, secs)]
        /\ familySet' = [familySet EXCEPT ![s.family_id] = @ \cup {h2} \cup (IF kept THEN {h} ELSE {})]
        /\ familyTtl' = [familyTtl EXCEPT ![s.family_id] = bump_ttl(familySet[s.family_id], @, secs)]
        /\ UNCHANGED <<counter, call, begun, sentenced>>

\* The core's replacement for h, the gate on its TTL, then, by a second reading of the
\* clock, the TTL of the record (a second at least), and the script.
RotateRefreshToken(h, h2, f) ==
    LET s == [live[h] EXCEPT !.family_id = f, !.generation = @ + 1]
    IN  /\ live[h] # None /\ ~Storing(h)
        /\ IF live[h].family_id = NoFamily THEN f \in FreshFamily ELSE f = live[h].family_id
        /\ \E first, at \in Readings :
              LET secs == num_seconds(s.expires_at - first)
                  kept_for == num_seconds(retention_deadline(at, s.expires_at) - at)
              IN  /\ first <= at
                  /\ secs >= 1
                  /\ RotationScript(h, h2, s, at, secs, IF kept_for < 1 THEN 1 ELSE kept_for)

-----------------------------------------------------------------------------
(* decr_counter_clamped: DECRBY, and SET 0 if the answer is negative. *)

Decr(p) ==
    /\ call[p].pc = "decr"
    /\ counter' = counter - call[p].count
    /\ call' = [call EXCEPT ![p].pc = IF counter' < 0 THEN "clamp" ELSE call[p].next]
    /\ UNCHANGED <<portVars, setVars, begun, sentenced>>

Clamp(p) ==
    /\ call[p].pc = "clamp"
    /\ counter' = 0
    /\ call' = [call EXCEPT ![p].pc = call[p].next]
    /\ UNCHANGED <<portVars, setVars, begun, sentenced>>

-----------------------------------------------------------------------------
(* revoke_session. *)

\* (Mistake: the counter is decremented whether or not DEL removed a key.)
DeleteSessionUncounted(p, h) ==
    /\ call[p].pc = "done"
    /\ Begin("session")
    /\ live' = [live EXCEPT ![h] = None]
    /\ call' = [call EXCEPT ![p] = [Done EXCEPT !.pc = "decr", !.cur = h, !.count = 1,
                    !.owner = IF live[h] = None THEN None ELSE live[h].user_id,
                    !.next = IF live[h] = None THEN "done" ELSE "unfile"]]
    /\ UNCHANGED <<retired, now, historyVars, setVars, counter, sentenced>>

\* (Mistake: the retirement records that name the session go with it.)
DeleteSessionAndRecords(p, h) ==
    /\ call[p].pc = "done"
    /\ Begin("session")
    /\ live[h] # None /\ ~Storing(h)
    /\ live' = [live EXCEPT ![h] = None]
    /\ retired' = [k \in Hash |-> IF retired[k] # None /\ retired[k].successor_hash = h
                                  THEN None ELSE retired[k]]
    /\ call' = [call EXCEPT ![p] = [Done EXCEPT !.pc = "decr", !.cur = h, !.count = 1,
                    !.owner = live[h].user_id, !.next = "unfile"]]
    /\ UNCHANGED <<now, historyVars, setVars, counter, sentenced>>

\* HGET of the user (which never changes) and DEL.
DeleteSession(p, h) ==
    /\ call[p].pc = "done"
    /\ Begin("session")
    /\ live[h] # None /\ ~Storing(h)
    /\ live' = [live EXCEPT ![h] = None]
    /\ call' = [call EXCEPT ![p] = [Done EXCEPT !.pc = "decr", !.cur = h, !.count = 1,
                    !.owner = live[h].user_id, !.next = "unfile"]]
    /\ UNCHANGED <<retired, now, historyVars, setVars, counter, sentenced>>

\* DEL finds nothing: the counter stays.  If HGET had still seen the session, it is
\* taken out of its user's set all the same.
DeleteNothing(p, h) ==
    /\ call[p].pc = "done"
    /\ live[h] = None
    /\ \/ UNCHANGED <<call, begun>>
       \/ \E u \in User :
             /\ Begin("session")
             /\ h \in minted /\ h \in userSet[u] /\ ~Storing(h)
             /\ call' = [call EXCEPT ![p] = [Done EXCEPT !.pc = "unfile", !.cur = h, !.owner = u]]
    /\ UNCHANGED <<portVars, setVars, counter, sentenced>>

\* SREM from the user's set; the family's set keeps the member.
UnfileSession(p) ==
    /\ call[p].pc = "unfile"
    /\ userSet' = Unfile(userSet, call[p].owner, {call[p].cur})
    /\ call' = [call EXCEPT ![p] = Done]
    /\ UNCHANGED <<portVars, familySet, ttlVars, counter, begun, sentenced>>

-----------------------------------------------------------------------------
(* revoke_family. *)

\* SMEMBERS.
ReadFamily(p, f) ==
    /\ call[p].pc = "done"
    /\ Begin("family")
    /\ Addressable(f)
    /\ call' = [call EXCEPT ![p] = [Done EXCEPT !.pc = "familyMember", !.of = f,
                                                !.members = familySet[f]]]
    /\ sentenced' = sentenced \cup {f}
    /\ UNCHANGED <<portVars, setVars, counter>>

\* HGET and DEL of the session key; if that removed nothing, DEL of the record.
\* (A hash that is not live never becomes live or retired again, so the two DELs
\* are one step.)
DeleteMember(p, h) ==
    /\ call[p].pc = "familyMember"
    /\ h \in call[p].members
    /\ live' = [live EXCEPT ![h] = None]
    /\ retired' = IF live[h] # None THEN retired ELSE [retired EXCEPT ![h] = None]
    /\ call' = [call EXCEPT ![p] = [call[p] EXCEPT !.pc = "familyUnfile", !.cur = h,
                    !.owner = IF live[h] = None THEN None ELSE live[h].user_id,
                    !.members = @ \ {h}, !.count = IF live[h] = None THEN @ ELSE @ + 1]]
    /\ UNCHANGED <<now, historyVars, setVars, counter, begun, sentenced>>

UnfileMember(p) ==
    LET c == call[p]
    IN  /\ c.pc = "familyUnfile"
        /\ userSet' = IF c.owner = None THEN userSet ELSE Unfile(userSet, c.owner, {c.cur})
        /\ familySet' = Unfile(familySet, c.of, {c.cur})
        /\ call' = [call EXCEPT ![p].pc = "familyMember", ![p].cur = None, ![p].owner = None]
        /\ UNCHANGED <<portVars, ttlVars, counter, begun, sentenced>>

\* After the last member: the counter, if a session was deleted.
MembersDone(p) ==
    /\ call[p].pc = "familyMember"
    /\ call[p].members = {}
    /\ call' = [call EXCEPT ![p].pc = IF call[p].count > 0 THEN "decr" ELSE "familyCard",
                            ![p].next = "familyCard"]
    /\ UNCHANGED <<portVars, setVars, counter, begun, sentenced>>

\* SCARD; DEL only if it was 0; Ok either way.
CardFamily(p) ==
    /\ call[p].pc = "familyCard"
    /\ call' = [call EXCEPT ![p] = IF familySet[call[p].of] = {}
                                   THEN [call[p] EXCEPT !.pc = "familyDrop"] ELSE Done]
    /\ UNCHANGED <<portVars, setVars, counter, begun, sentenced>>

DropFamily(p) ==
    /\ call[p].pc = "familyDrop"
    /\ familySet' = [familySet EXCEPT ![call[p].of] = {}]
    /\ call' = [call EXCEPT ![p] = Done]
    /\ UNCHANGED <<portVars, userSet, ttlVars, counter, begun, sentenced>>

-----------------------------------------------------------------------------
(* revoke_all_user_sessions. *)

\* SMEMBERS.
ReadUserSet(p, u) ==
    /\ call[p].pc = "done"
    /\ Begin("user")
    /\ call' = [call EXCEPT ![p] = [Done EXCEPT !.pc = "userDelete", !.of = u,
                                                !.members = userSet[u]]]
    /\ sentenced' = sentenced \cup {u}
    /\ UNCHANGED <<portVars, setVars, counter>>

\* One DEL of all their keys, and the counter by what it removed.
DeleteUserKeys(p) ==
    LET gone == {h \in call[p].members : live[h] # None}
    IN  /\ call[p].pc = "userDelete"
        /\ live' = [h \in Hash |-> IF h \in gone THEN None ELSE live[h]]
        /\ call' = [call EXCEPT ![p] = [call[p] EXCEPT !.pc = IF gone = {} THEN "userDrop" ELSE "decr",
                        !.next = "userDrop", !.count = Cardinality(gone), !.members = {}]]
        /\ UNCHANGED <<retired, now, historyVars, setVars, counter, begun, sentenced>>

\* DEL of the user's set.
DropUserSet(p) ==
    /\ call[p].pc = "userDrop"
    /\ userSet' = [userSet EXCEPT ![call[p].of] = {}]
    /\ call' = [call EXCEPT ![p].pc = "userScan", ![p].count = 0]
    /\ UNCHANGED <<portVars, familySet, ttlVars, counter, begun, sentenced>>

\* SCAN retired:*.
ScanRecords(p) ==
    /\ call[p].pc = "userScan"
    /\ call' = [call EXCEPT ![p].pc = "userRecord",
                            ![p].members = {h \in Hash : retired[h] # None}]
    /\ UNCHANGED <<portVars, setVars, counter, begun, sentenced>>

\* HGETALL and DEL of one of the user's records; those of other users are skipped.
DeleteRecord(p, h) ==
    LET mine == retired[h] # None /\ retired[h].user_id = call[p].of
    IN  /\ call[p].pc = "userRecord"
        /\ h \in call[p].members
        /\ retired' = IF mine THEN [retired EXCEPT ![h] = None] ELSE retired
        /\ call' = [call EXCEPT ![p] = [call[p] EXCEPT !.members = @ \ {h},
                        !.pc = IF mine THEN "userUnfile" ELSE "userRecord",
                        !.todo = IF mine THEN {retired[h].family_id} ELSE {},
                        !.cur = IF mine THEN h ELSE None]]
        /\ UNCHANGED <<live, now, historyVars, setVars, counter, begun, sentenced>>

UnfileRecord(p) ==
    /\ call[p].pc = "userUnfile"
    /\ familySet' = [f \in Family |-> IF f \in call[p].todo THEN familySet[f] \ {call[p].cur}
                                                           ELSE familySet[f]]
    /\ call' = [call EXCEPT ![p] = [call[p] EXCEPT !.pc = "userRecord", !.todo = {}, !.cur = None]]
    /\ UNCHANGED <<portVars, userSet, ttlVars, counter, begun, sentenced>>

RecordsDone(p) ==
    /\ call[p].pc = "userRecord"
    /\ call[p].members = {}
    /\ call' = [call EXCEPT ![p] = Done]
    /\ UNCHANGED <<portVars, setVars, counter, begun, sentenced>>

-----------------------------------------------------------------------------
(* cleanup_expired_sessions. *)

\* Pass 1: SCAN user_sessions:* ...
ScanUserSets(p) ==
    /\ call[p].pc = "done"
    /\ Begin("cleanup")
    /\ call' = [call EXCEPT ![p] = [Done EXCEPT !.pc = "pruneUser",
                                                !.todo = {u \in User : userSet[u] # {}}]]
    /\ UNCHANGED <<portVars, setVars, counter, sentenced>>

\* ... SMEMBERS and EXISTS: a dead member stays dead, so one step ...
PruneUser(p, u) ==
    /\ call[p].pc = "pruneUser"
    /\ u \in call[p].todo
    /\ call' = [call EXCEPT ![p] = [call[p] EXCEPT !.pc = "sremUser", !.of = u, !.todo = @ \ {u},
                    !.members = {h \in userSet[u] : live[h] = None}]]
    /\ UNCHANGED <<portVars, setVars, counter, begun, sentenced>>

\* ... SREM, SCARD ...
SremUser(p) ==
    LET u == call[p].of
        rest == userSet[u] \ call[p].members
    IN  /\ call[p].pc = "sremUser"
        /\ userSet' = [userSet EXCEPT ![u] = rest]
        /\ call' = [call EXCEPT ![p] = [call[p] EXCEPT !.members = {},
                        !.pc = IF rest = {} THEN "dropUser" ELSE "pruneUser"]]
        /\ UNCHANGED <<portVars, familySet, ttlVars, counter, begun, sentenced>>

\* ... and DEL of a set that SCARD said is empty.
DropUser(p) ==
    /\ call[p].pc = "dropUser"
    /\ userSet' = [userSet EXCEPT ![call[p].of] = {}]
    /\ call' = [call EXCEPT ![p].pc = "pruneUser"]
    /\ UNCHANGED <<portVars, familySet, ttlVars, counter, begun, sentenced>>

\* Pass 1b: the same for family:*, where a member lives by its record as well.
ScanFamilySets(p) ==
    /\ call[p].pc = "pruneUser"
    /\ call[p].todo = {}
    /\ call' = [call EXCEPT ![p] = [Done EXCEPT !.pc = "pruneFamily",
                                                !.todo = {f \in Family : familySet[f] # {}}]]
    /\ UNCHANGED <<portVars, setVars, counter, begun, sentenced>>

\* (Mistake: a member whose session key is gone counts as dead.)
PruneFamilySessionsOnly(p, f) ==
    /\ call[p].pc = "pruneFamily"
    /\ f \in call[p].todo
    /\ call' = [call EXCEPT ![p] = [call[p] EXCEPT !.pc = "sremFamily", !.of = f, !.todo = @ \ {f},
                    !.members = {h \in familySet[f] : live[h] = None}]]
    /\ UNCHANGED <<portVars, setVars, counter, begun, sentenced>>

PruneFamily(p, f) ==
    /\ call[p].pc = "pruneFamily"
    /\ f \in call[p].todo
    /\ call' = [call EXCEPT ![p] = [call[p] EXCEPT !.pc = "sremFamily", !.of = f, !.todo = @ \ {f},
                    !.members = {h \in familySet[f] : live[h] = None /\ retired[h] = None}]]
    /\ UNCHANGED <<portVars, setVars, counter, begun, sentenced>>

SremFamily(p) ==
    LET f == call[p].of
        rest == familySet[f] \ call[p].members
    IN  /\ call[p].pc = "sremFamily"
        /\ familySet' = [familySet EXCEPT ![f] = rest]
        /\ call' = [call EXCEPT ![p] = [call[p] EXCEPT !.members = {},
                        !.pc = IF rest = {} THEN "dropFamily" ELSE "pruneFamily"]]
        /\ UNCHANGED <<portVars, userSet, ttlVars, counter, begun, sentenced>>

DropEmptyFamily(p) ==
    /\ call[p].pc = "dropFamily"
    /\ familySet' = [familySet EXCEPT ![call[p].of] = {}]
    /\ call' = [call EXCEPT ![p].pc = "pruneFamily"]
    /\ UNCHANGED <<portVars, userSet, ttlVars, counter, begun, sentenced>>

\* Pass 2: count the session keys, SET the counter, GET it for the assertion (the
\* call ends there whether it holds or panics).
ScanSessions(p) ==
    /\ call[p].pc = "pruneFamily"
    /\ call[p].todo = {}
    /\ call' = [call EXCEPT ![p] = [Done EXCEPT !.pc = "setCounter",
                    !.count = Cardinality({h \in Hash : live[h] # None})]]
    /\ UNCHANGED <<portVars, setVars, counter, begun, sentenced>>

SetCounter(p) ==
    /\ call[p].pc = "setCounter"
    /\ counter' = call[p].count
    /\ call' = [call EXCEPT ![p].pc = "getCounter"]
    /\ UNCHANGED <<portVars, setVars, begun, sentenced>>

GetCounter(p) ==
    /\ call[p].pc = "getCounter"
    /\ call' = [call EXCEPT ![p] = Done]
    /\ UNCHANGED <<portVars, setVars, counter, begun, sentenced>>

-----------------------------------------------------------------------------
\* Any command may fail, and the process may die; what was done stays.  (A
\* pipeline has been sent: the server completes it.)
Abandon(p) ==
    /\ call[p].pc \notin {"done", "pipeline"}
    /\ call' = [call EXCEPT ![p] = Done]
    /\ UNCHANGED <<portVars, setVars, counter, begun, sentenced>>

\* The clock, and the keys whose TTL ends with it.
Expire ==
    /\ now < MaxTime
    /\ now' = now + 1
    /\ live' = [h \in Hash |-> IF sessionTtl[h] > now' THEN live[h] ELSE None]
    /\ retired' = [h \in Hash |-> IF retiredTtl[h] > now' THEN retired[h] ELSE None]
    /\ userSet' = [u \in User |-> IF userTtl[u] > now' THEN userSet[u] ELSE {}]
    /\ familySet' = [f \in Family |-> IF familyTtl[f] > now' THEN familySet[f] ELSE {}]
    /\ UNCHANGED <<historyVars, ttlVars, counter, call, begun, sentenced>>

ValkeyInit ==
    /\ PortInit
    /\ userSet = [u \in User |-> {h \in Legacy : live[h].user_id = u}]
    /\ familySet = [f \in Family |-> {}]
    /\ userTtl = [u \in User |-> Second * num_seconds(Ttl)]
    /\ familyTtl = [f \in Family |-> 0]
    /\ sessionTtl = [h \in Hash |-> IF h \in Legacy THEN Second * num_seconds(Ttl) ELSE 0]
    /\ retiredTtl = [h \in Hash |-> 0]
    /\ counter = Cardinality(Legacy)
    /\ call = [p \in Call |-> Done]
    /\ begun = [k \in Removal |-> 0]
    /\ sentenced = {}

Revocation(p) ==
    \/ Decr(p) \/ Clamp(p)
    \/ \E h \in Hash : DeleteSession(p, h) \/ DeleteNothing(p, h)
    \/ UnfileSession(p)
    \/ \E f \in families : ReadFamily(p, f)
    \/ \E h \in Hash : DeleteMember(p, h)
    \/ UnfileMember(p) \/ MembersDone(p) \/ CardFamily(p) \/ DropFamily(p)
    \/ \E u \in User : ReadUserSet(p, u)
    \/ DeleteUserKeys(p) \/ DropUserSet(p) \/ ScanRecords(p)
    \/ \E h \in Hash : DeleteRecord(p, h)
    \/ UnfileRecord(p) \/ RecordsDone(p)

Cleanup(p) ==
    \/ ScanUserSets(p)
    \/ \E u \in User : PruneUser(p, u)
    \/ SremUser(p) \/ DropUser(p) \/ ScanFamilySets(p)
    \/ \E f \in Family : PruneFamily(p, f)
    \/ SremFamily(p) \/ DropEmptyFamily(p)
    \/ ScanSessions(p) \/ SetCounter(p) \/ GetCounter(p)

ValkeyNext ==
    \/ \E p \in Call : Revocation(p) \/ Cleanup(p) \/ Abandon(p) \/ StoreFamilyKey(p)
    \/ \E p \in Call, h \in FreshHash, f \in FreshFamily, u \in User : StoreSessionKey(p, h, f, u)
    \/ \E h \in Hash, h2 \in FreshHash, f \in Family : RotateRefreshToken(h, h2, f)
    \/ Expire

ValkeySpec == ValkeyInit /\ [][ValkeyNext]_valkeyVars

-----------------------------------------------------------------------------
\* revoke_family can find what it has to remove: every live generation and every
\* retained record with a second or more to its expires_at is a member of its family's
\* set, whatever removals, sweeps, failures and expiries have happened (a sign-in still
\* in its pipeline aside).  In the last second the set may be gone before the key.
FamilyIndexComplete ==
    \A h \in Hash :
        /\ live[h] # None /\ live[h].family_id # NoFamily
           /\ ~Storing(h) /\ now + Second <= live[h].expires_at
           => h \in familySet[live[h].family_id]
        /\ retired[h] # None /\ now + Second <= retired[h].expires_at
           => h \in familySet[retired[h].family_id]

\* A superseded generation stays detectable for its retention window, the last second
\* aside, unless somebody has set out to revoke its family or all its user's sessions:
\* no logout, sweep, failed call or removal of others costs the record.
ReuseDetectableUnlessRevoked ==
    \A h \in Hash :
        /\ written[h] # None /\ now + Second <= written[h].expires_at
        /\ written[h].family_id \notin sentenced /\ written[h].user_id \notin sentenced
        => /\ get_retired_record(h) = written[h]
           /\ resolve_refresh_token_valkey(h) \in {"Superseded", "Retired"}

\* revoke_all_user_sessions and list_live_sessions can find what they are about: the
\* listing of a user shows every session of the user that can be redeemed for another
\* second, as long as nobody has set out to delete a whole set (revoke_all_user_sessions,
\* the sweep).
UserIndexComplete ==
    begun["user"] = 0 /\ begun["cleanup"] = 0
    => \A u \in User : {h \in list_live_sessions(u) : now + Second <= live[h].expires_at}
                        \subseteq list_live_sessions_valkey(u)

\* The counter only drifts upward (cleanup_expired_sessions, pass 2): with no call
\* in flight it is at least the number of live sessions.  Logouts and family
\* revocations keep that; a sweep, which SETs an old count, and a revocation of
\* all sessions, which may overtake a sign-in's INCR and clamp, do not.
CounterNeverBelowLive ==
    /\ begun["user"] = 0 /\ begun["cleanup"] = 0
    /\ \A p \in Call : call[p].pc = "done"
    => /\ count_active_sessions # None
       /\ count_active_sessions >= Cardinality({h \in Hash : live[h] # None})

=============================================================================
