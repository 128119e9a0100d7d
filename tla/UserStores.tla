------------------------------ MODULE UserStores -------------------------------
(***************************************************************************)
(* User rows in the SQLite, Postgres and DynamoDB adapters, under          *)
(* concurrent administration (service/user_admin.rs) and registration.     *)
(*                                                                         *)
(* SQL keeps identities unique with a partial index over the rows that are *)
(* not deleted; DynamoDB has no such index, and keeps a guard item per     *)
(* identity and a counter item per table in the same transactions as the   *)
(* profile.  In all three, update_user reads, patches and writes back on   *)
(* the condition that the row's version is the one it read.                *)
(*                                                                         *)
(* Of the databases (external) the adapters rely on this: a statement, a   *)
(* conditional PutItem and a TransactWriteItems are atomic.                *)
(***************************************************************************)
EXTENDS Integers, FiniteSets

CONSTANTS
    User,         \* user ids, in their order
    Identity,     \* (provider, external_id) pairs
    Call,         \* concurrent calls; a call's own id stands for the values it writes
    Absent,
    Old,          \* users whose items predate versions, guards and counters (DynamoDB)
    MaxAttempts,  \* UPDATE_MAX_ATTEMPTS
    MaxVersion,   \* bound on a row's version
    PageLimit     \* MAX_ADMIN_PAGE_SIZE

VARIABLES
    backend,  \* the adapter in use
    row,      \* users / USER#<id> PROFILE: the row, or Absent
    guard,    \* EXT#<provider>#<external_id> UNIQUE: the owner, or Absent
    counts,   \* STATS#USERS COUNTS
    call,     \* the calls in progress
    walk,     \* an operator's walk through the pages of list_users
    backfill, \* profiles a page of backfill_uniqueness_guards has yet to guard
    old,      \* the users of Old that are there from the start (history)
    buried    \* users that were ever deleted (history)

userVars == <<backend, row, guard, counts, call, walk, backfill, old, buried>>

Status == {"Active", "Suspended", "Deleted"}
Op == {"suspend", "activate", "delete", "email", "set_claims", "merge_claims", "clear_claims"}

\* email and claims hold the calls that wrote them.  version 0: no version attribute.
Row == [identity : Identity, status : Status, email : Call \cup {Absent},
        claims : SUBSET Call, version : Nat, created_at : 1..2]

ASSUME UserAssumption ==
    /\ User \subseteq Nat /\ Old \subseteq User /\ IsFiniteSet(Old)
    /\ PageLimit \in Nat \ {0}
    /\ MaxAttempts \in Nat \ {0}
    /\ MaxVersion \in Nat \ {0}
    /\ Absent \notin Row \cup User \cup Call \cup Status
    /\ Absent \notin Nat \X Nat  \* nor a cursor

Idle == [pc |-> "idle", op |-> Absent, user |-> Absent, seen |-> {}, read |-> Absent, attempt |-> 0]
Step(p, c) == call' = [call EXCEPT ![p] = c]

NoWalk == [pc |-> "idle", cursor |-> Absent, limit |-> 0, first |-> {}, seen |-> {}, twice |-> {}]

Exists(u) == row[u] # Absent
Standing(u) == Exists(u) /\ row[u].status # "Deleted"

\* Users the guards do not vouch for: the old ones, and (in DynamoDB) those that were
\* deleted and may have been brought back.
Strays == IF backend = "dynamo" THEN buried \cup old ELSE {}

\* A missing version attribute reads as INITIAL_USER_VERSION.
get_version_or_default(r) == IF r.version = 0 THEN 1 ELSE r.version

-----------------------------------------------------------------------------
(* Lookups. *)

\* SELECT ... WHERE external_id, provider AND status != 'deleted'
FoundBySql(i) ==
    LET found == {u \in User : Standing(u) /\ row[u].identity = i}
    IN  IF found = {} THEN Absent ELSE CHOOSE u \in found : TRUE

\* The guard, then the profile it names: whatever its status.
FoundByGuard(i) == guard[i]

get_user_by_external_id(i) == IF backend = "dynamo" THEN FoundByGuard(i) ELSE FoundBySql(i)

Lookup(i) == get_user_by_external_id(i) \in User \cup {Absent} /\ UNCHANGED userVars

-----------------------------------------------------------------------------
(* create_user. *)

\* created_at is the clock of the instance that creates the user; clocks need not agree.
\* (Nothing on DynamoDB is ordered by it.)
Clock == IF backend = "dynamo" THEN {1} ELSE 1..2

NewRow(i, t) == [identity |-> i, status |-> "Active", email |-> Absent, claims |-> {}, version |-> 1,
                 created_at |-> t]

\* The unique partial index: no other standing row has the identity.  (Broken, the
\* statement fails with Conflict.)
IndexAdmits(u, i) == \A v \in User \ {u} : Standing(v) => row[v].identity # i

create_user_sqlite(u, i, t) ==
    /\ backend = "sqlite"
    /\ ~Exists(u)
    /\ IndexAdmits(u, i)
    /\ row' = [row EXCEPT ![u] = NewRow(i, t)]
    /\ UNCHANGED <<backend, guard, counts, call, backfill, old, buried, walk>>

create_user_postgres(u, i, t) ==
    /\ backend = "postgres"
    /\ ~Exists(u)
    /\ IndexAdmits(u, i)
    /\ row' = [row EXCEPT ![u] = NewRow(i, t)]
    /\ UNCHANGED <<backend, guard, counts, call, backfill, old, buried, walk>>

\* The counter item moved by one row.
counter_adjustment(from, to) ==
    [s \in Status |-> counts[s] + (IF s = to THEN 1 ELSE 0) - (IF s = from THEN 1 ELSE 0)]

\* (Mistake: the guard is put without its condition.)
CreateOverGuard(u, i, t) ==
    /\ backend = "dynamo"
    /\ ~Exists(u)
    /\ row' = [row EXCEPT ![u] = NewRow(i, t)]
    /\ guard' = [guard EXCEPT ![i] = u]
    /\ counts' = counter_adjustment(Absent, "Active")
    /\ UNCHANGED <<backend, call, backfill, old, buried, walk>>

\* Profile, guard, roster seed (DynamoSessions) and counter in one transaction.
create_user_dynamo(u, i, t) ==
    /\ backend = "dynamo"
    /\ ~Exists(u)
    /\ guard[i] = Absent
    /\ row' = [row EXCEPT ![u] = NewRow(i, t)]
    /\ guard' = [guard EXCEPT ![i] = u]
    /\ counts' = counter_adjustment(Absent, "Active")
    /\ UNCHANGED <<backend, call, backfill, old, buried, walk>>

\* The mandatory audit event comes after the write: refused, it fails the call and leaves
\* the user.  The sign-in's registration (SignIn) calls the same create_user.
admin_create_user(u, i, t) ==
    create_user_sqlite(u, i, t) \/ create_user_postgres(u, i, t) \/ create_user_dynamo(u, i, t)

-----------------------------------------------------------------------------
(* The administration calls. *)

\* "Deleted is strictly terminal".
can_transition_to(from, to) == from # "Deleted"

Target(op) ==
    CASE op = "suspend" -> "Suspended" [] op = "activate" -> "Active" [] op = "delete" -> "Deleted"
      [] OTHER -> Absent

\* A call begins: the user is loaded and a status change validated (admin_update_user,
\* admin_delete_user); merge_claims keeps the claims it saw.
StartCall(p, op, u) ==
    /\ call[p].pc = "idle"
    /\ walk.pc = "idle"
    /\ Exists(u)
    /\ row[u].version < MaxVersion
    /\ Target(op) # Absent => can_transition_to(row[u].status, Target(op))
    /\ Step(p, [Idle EXCEPT !.pc = "read", !.op = op, !.user = u, !.seen = row[u].claims,
                            !.attempt = 1])
    /\ UNCHANGED <<backend, row, guard, counts, backfill, old, buried, walk>>

\* The claims a call writes: a map of its own, what it saw with its own key, or none.
admin_set_claims(p) == {p}
admin_merge_claims(p) == call[p].seen \cup {p}
admin_clear_claims(p) == {}

\* (Mistake: a patch rewrites every field of the row.)
PatchedWhole(p) ==
    LET c == call[p]
    IN  [c.read EXCEPT
           !.status = IF Target(c.op) = Absent THEN @ ELSE Target(c.op),
           !.email = IF c.op = "email" THEN p ELSE Absent,
           !.claims = CASE c.op = "set_claims" -> admin_set_claims(p)
                        [] c.op = "merge_claims" -> admin_merge_claims(p)
                        [] c.op = "clear_claims" -> admin_clear_claims(p)
                        [] OTHER -> @,
           !.version = get_version_or_default(c.read) + 1]

\* The row read, with the patch applied.
Patched(p) ==
    LET c == call[p]
    IN  [c.read EXCEPT
           !.status = IF Target(c.op) = Absent THEN @ ELSE Target(c.op),
           !.email = IF c.op = "email" THEN p ELSE @,
           !.claims = CASE c.op = "set_claims" -> admin_set_claims(p)
                        [] c.op = "merge_claims" -> admin_merge_claims(p)
                        [] c.op = "clear_claims" -> admin_clear_claims(p)
                        [] OTHER -> @,
           !.version = get_version_or_default(c.read) + 1]

\* update_user, one attempt: the read ...
ReadForUpdate(p) ==
    /\ call[p].pc = "read"
    /\ Step(p, [call[p] EXCEPT !.pc = "write", !.read = row[call[p].user]])
    /\ UNCHANGED <<backend, row, guard, counts, backfill, old, buried, walk>>

\* A lost write is retried from the read until the budget is spent (Conflict).
retry_on_version_conflict(p) ==
    Step(p, IF call[p].attempt = MaxAttempts THEN Idle
            ELSE [call[p] EXCEPT !.pc = "read", !.read = Absent, !.attempt = @ + 1])

\* The write took effect; what is left of the call is its report.
Written(p) == [Idle EXCEPT !.pc = "report", !.op = call[p].op, !.user = call[p].user]

Buried(u, r) == IF r.status = "Deleted" THEN buried \cup {u} ELSE buried

\* ... and the write: UPDATE ... WHERE id = ? AND version = ?.  A row that would break
\* the unique index (a deleted one made active again) fails the call.
SqlUpdate(p) ==
    LET u   == call[p].user
        new == Patched(p)
    IN  /\ call[p].pc = "write"
        /\ IF row[u].version = call[p].read.version
           THEN IF new.status # "Deleted" /\ ~IndexAdmits(u, new.identity)
                THEN Step(p, Idle) /\ UNCHANGED <<row, buried>>
                ELSE /\ row' = [row EXCEPT ![u] = new]
                     /\ buried' = Buried(u, new)
                     /\ Step(p, Written(p))
           ELSE retry_on_version_conflict(p) /\ UNCHANGED <<row, buried>>
        /\ UNCHANGED <<backend, guard, counts, backfill, old, walk>>

update_user_sqlite(p) == backend = "sqlite" /\ SqlUpdate(p)
update_user_postgres(p) == backend = "postgres" /\ SqlUpdate(p)

\* (Mistake: the put has no version condition.)
VersionHoldsAlways(p) == TRUE

\* version = :read_version OR attribute_not_exists(version)
VersionHolds(p) ==
    LET r == row[call[p].user] IN r.version = 0 \/ r.version = get_version_or_default(call[p].read)

\* A status change moves the counters.
StatusTransition(p) ==
    Target(call[p].op) # Absent /\ Target(call[p].op) # call[p].read.status

\* The first write of Deleted also deletes the guard, which must name this user.
IsDeleteTransition(p) == call[p].op = "delete" /\ call[p].read.status # "Deleted"

update_user_dynamo(p) ==
    LET u   == call[p].user
        new == Patched(p)
        i   == new.identity
    IN  /\ backend = "dynamo"
        /\ call[p].pc = "write"
        /\ IF VersionHolds(p) /\ (IsDeleteTransition(p) => guard[i] = u)
           THEN /\ row' = [row EXCEPT ![u] = new]
                /\ guard' = IF IsDeleteTransition(p) THEN [guard EXCEPT ![i] = Absent] ELSE guard
                /\ counts' = IF StatusTransition(p)
                             THEN counter_adjustment(call[p].read.status, new.status) ELSE counts
                /\ buried' = Buried(u, new)
                /\ Step(p, Written(p))
           ELSE retry_on_version_conflict(p) /\ UNCHANGED <<row, guard, counts, buried>>
        /\ UNCHANGED <<backend, backfill, old, walk>>

\* The mandatory audit event and the notification of user sync.  A refused event fails the
\* call (CallFails) and undoes nothing.
emit_admin_mutation_audit_event(p) ==
    /\ call[p].pc = "report"
    /\ Step(p, Idle)
    /\ UNCHANGED <<backend, row, guard, counts, walk, backfill, old, buried>>

\* A call fails, or its process dies, between two of its statements.
CallFails(p) ==
    /\ call[p].pc # "idle"
    /\ Step(p, Idle)
    /\ UNCHANGED <<backend, row, guard, counts, backfill, old, buried, walk>>

\* SELECT status, COUNT(*) ... GROUP BY status
count_by_status_sql(s) == Cardinality({u \in User : Exists(u) /\ row[u].status = s})

\* On DynamoDB the counter item, each attribute parsed as a u64: a negative one is a
\* StoreError.
count_by_status_answers == backend = "dynamo" => \A s \in Status : counts[s] >= 0
count_by_status(s) == IF backend = "dynamo" THEN counts[s] ELSE count_by_status_sql(s)

\* What operators are shown, or an error (the sessions' part is count_active_sessions of
\* each store).
admin_stats ==
    IF count_by_status_answers
    THEN {[total |-> count_by_status("Active") + count_by_status("Suspended") + count_by_status("Deleted"),
           active |-> count_by_status("Active"), suspended |-> count_by_status("Suspended"),
           deleted |-> count_by_status("Deleted")]}
    ELSE {}

-----------------------------------------------------------------------------
(* admin_list_users and the three list_users. *)

\* A requested limit is clamped; 0 is refused.
clamp_admin_page_limit(limit) == IF limit < PageLimit THEN limit ELSE PageLimit

\* KeysetCursor and ScanCursor: the place of the last row or item of a page.
KeysetCursor(u) == <<row[u].created_at, u>>
ScanCursor(item) == item

\* ORDER BY created_at DESC, id DESC
Precedes(u, v) == row[u].created_at > row[v].created_at
                  \/ (row[u].created_at = row[v].created_at /\ u > v)

\* (Mistake: the cursor compares the creation time alone.)
FollowsInTime(u, c) == row[u].created_at < c[1]

\* WHERE created_at < ? OR (created_at = ? AND id < ?)
Follows(u, c) == row[u].created_at < c[1] \/ (row[u].created_at = c[1] /\ u < c[2])

\* The first n elements of S in an order.
FirstOf(S, n, Before(_, _)) == {x \in S : Cardinality({y \in S : Before(y, x)}) < n}

\* LIMIT n + 1, of which the last only tells that there is more.
SqlPage ==
    LET left == {u \in User : Exists(u) /\ (walk.cursor # Absent => Follows(u, walk.cursor))}
        page == FirstOf(left, walk.limit, Precedes)
        last == CHOOSE u \in page : \A v \in page \ {u} : Precedes(v, u)
    IN  [users |-> page, next |-> IF page = left THEN Absent ELSE KeysetCursor(last)]

list_users_sqlite == SqlPage
list_users_postgres == SqlPage

\* The items of a table in the order of a scan: here a user's PROFILE (0) and roster (1)
\* item, one user after the other.  The guards and sessions among them are as the rosters:
\* items that a scan reads and its filter drops.
TableItem == {<<u, 0>> : u \in {v \in User : Exists(v)}}
             \cup {<<u, 1>> : u \in {v \in User \ old : Exists(v)}}
ScanBefore(x, y) == x[1] < y[1] \/ (x[1] = y[1] /\ x[2] < y[2])

\* Limit counts the items read; LastEvaluatedKey is there whenever the limit was reached.
list_users_dynamo ==
    LET left == {x \in TableItem : walk.cursor # Absent => ScanBefore(walk.cursor, x)}
        page == FirstOf(left, walk.limit, ScanBefore)
        last == CHOOSE x \in page : \A y \in page \ {x} : ScanBefore(y, x)
    IN  [users |-> {x[1] : x \in {y \in page : y[2] = 0}},
         next |-> IF Cardinality(page) = walk.limit THEN ScanCursor(last) ELSE Absent]

list_users ==
    CASE backend = "sqlite" -> list_users_sqlite
      [] backend = "postgres" -> list_users_postgres
      [] backend = "dynamo" -> list_users_dynamo

\* Bound (here and in StartCall): registrations run during a walk, updates do not.  What an
\* update changes, no listing reads.
BeginWalk(limit) ==
    /\ walk.pc = "idle"
    /\ \A p \in Call : call[p].pc = "idle"
    /\ walk' = [NoWalk EXCEPT !.pc = "walking", !.limit = clamp_admin_page_limit(limit),
                              !.first = {u \in User : Exists(u)}]
    /\ UNCHANGED <<backend, row, guard, counts, call, backfill, old, buried>>

\* A page; without a cursor it was the last one.
admin_list_users ==
    /\ walk.pc = "walking"
    /\ walk' = [walk EXCEPT !.seen = @ \cup list_users.users,
                            !.twice = walk.seen \cap list_users.users,
                            !.cursor = list_users.next,
                            !.pc = IF list_users.next = Absent THEN "complete" ELSE @]
    /\ UNCHANGED <<backend, row, guard, counts, call, backfill, old, buried>>

EndWalk ==
    /\ walk.pc # "idle"
    /\ walk' = NoWalk
    /\ UNCHANGED <<backend, row, guard, counts, call, backfill, old, buried>>

-----------------------------------------------------------------------------
(* backfill_uniqueness_guards, the migration that guards the old users. *)

\* A page of the scan ...
BackfillScan ==
    /\ backend = "dynamo" /\ old # {} /\ backfill = {}
    /\ backfill' = {u \in User : Exists(u)}
    /\ UNCHANGED <<backend, row, guard, counts, call, old, buried, walk>>

\* ... and, for each profile of it, a put conditional on the guard's absence.
backfill_uniqueness_guards(u) ==
    /\ u \in backfill
    /\ backfill' = backfill \ {u}
    /\ guard' = IF guard[row[u].identity] = Absent THEN [guard EXCEPT ![row[u].identity] = u]
                ELSE guard
    /\ UNCHANGED <<backend, row, counts, call, old, buried, walk>>

-----------------------------------------------------------------------------
UserInit ==
    /\ backend \in {"sqlite", "postgres", "dynamo"}
    /\ row \in [User -> {Absent} \cup {[NewRow(i, 1) EXCEPT !.version = 0] : i \in Identity}]
    /\ old \in IF backend = "dynamo" THEN {{}, Old} ELSE {{}}
    /\ \A u \in User : Exists(u) <=> u \in old
    /\ \A u, v \in old : Exists(u) /\ Exists(v) /\ u # v => row[u].identity # row[v].identity
    /\ guard = [i \in Identity |-> Absent]
    /\ counts = [s \in Status |-> 0]
    /\ call = [p \in Call |-> Idle]
    /\ walk = NoWalk
    /\ backfill = {}
    /\ buried = {}

UserNext ==
    \/ \E u \in User, i \in Identity, t \in Clock : admin_create_user(u, i, t)
    \/ \E i \in Identity : Lookup(i)
    \/ \E p \in Call, op \in Op, u \in User : StartCall(p, op, u)
    \/ \E p \in Call : \/ ReadForUpdate(p) \/ update_user_sqlite(p) \/ update_user_postgres(p)
                       \/ update_user_dynamo(p) \/ emit_admin_mutation_audit_event(p) \/ CallFails(p)
    \/ (\E limit \in 1..(PageLimit + 1) : BeginWalk(limit)) \/ admin_list_users \/ EndWalk
    \/ BackfillScan
    \/ \E u \in User : backfill_uniqueness_guards(u)

UserSpec == UserInit /\ [][UserNext]_userVars

-----------------------------------------------------------------------------
\* Part of OneUserPerIdentity: a lookup finds the standing user of an identity, and in
\* DynamoDB nobody else's (but for a user brought back, or one of the old ones):
\* registration is refused exactly when a sign-in finds the user.
LookupFindsTheUser ==
    /\ \A u \in User \ Strays : Standing(u) => get_user_by_external_id(row[u].identity) = u
    /\ \A i \in Identity :
          LET u == get_user_by_external_id(i) IN u # Absent => Exists(u) /\ row[u].identity = i

\* An identity has one standing user, however registrations, deletions and
\* administration interleave.  In SQL always; in DynamoDB unless an administrator who
\* looked before a deletion has brought the deleted user back (no guard stands for it,
\* and no index stops it), or users without guards are not backfilled yet.
\* And a lookup finds the user a registration is refused for.
OneUserPerIdentity ==
    /\ \A u, v \in User :
          /\ Standing(u) /\ Standing(v) /\ u # v
          /\ row[u].identity = row[v].identity
          => {u, v} \cap Strays # {}
    /\ LookupFindsTheUser

\* What operators are shown adds up: the statistics are the numbers of rows per status,
\* less (on DynamoDB) the rows the counter item never counted: no retry, lost race or
\* failed call moves them apart.  They are refused just when more of the uncounted users
\* have stopped being active than counted ones are: never where every user was counted.
CountersMatchRows ==
    LET uncounted == Cardinality(old)
        Rows(s) == {u \in User : Exists(u) /\ row[u].status = s}
    IN  /\ admin_stats = {} <=> Cardinality(Rows("Active")) < uncounted
        /\ \A stats \in admin_stats :
              /\ stats.active = Cardinality(Rows("Active")) - uncounted
              /\ stats.suspended = Cardinality(Rows("Suspended"))
              /\ stats.deleted = Cardinality(Rows("Deleted"))
              /\ stats.total = Cardinality({u \in User : Exists(u)}) - uncounted

\* No lost update: a field changes only by the write of a call that patches it, to the
\* value that call brought, and every write moves the version by one.
FieldsChangeOnlyByTheirPatch ==
    [][\A u \in User :
          Exists(u) /\ row'[u] # row[u] =>
             \E p \in Call :
                /\ call[p].pc = "write" /\ call[p].user = u
                /\ row'[u].version = get_version_or_default(row[u]) + 1
                /\ row'[u].email # row[u].email => call[p].op = "email" /\ row'[u].email = p
                /\ row'[u].status # row[u].status => row'[u].status = Target(call[p].op)
                /\ row'[u].claims # row[u].claims =>
                      call[p].op \in {"set_claims", "merge_claims", "clear_claims"}]_userVars

\* A walk through the pages shows every user that was there when it began, and nobody
\* twice, whoever registers meanwhile: on SQL by the order of
\* (created_at, id), on DynamoDB by the order of the scan, whose pages may be empty.
ListingIsComplete ==
    /\ walk.twice = {}
    /\ walk.pc = "complete" => walk.first \subseteq walk.seen
=============================================================================
