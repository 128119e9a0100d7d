---------------------------- MODULE SqliteSessions -----------------------------
(***************************************************************************)
(* The session half of the SQLite adapter                                  *)
(* (crates/adapters/src/sqlite/mod.rs): the statements and transactions    *)
(* behind each call of the SessionRepository port, on a pool of several    *)
(* connections to one database in WAL mode.                                *)
(*                                                                         *)
(* Of SQLite (external) the adapter relies on this: a statement outside a  *)
(* transaction is atomic; the writes of a transaction appear at its        *)
(* commit; there is one writer at a time; a transaction that began with a  *)
(* read is refused the write lock, without waiting, if another connection  *)
(* holds it or has committed since that read.                              *)
(***************************************************************************)
EXTENDS SessionPort

CONSTANTS Call  \* concurrent calls of the port

ASSUME SqliteAssumption == None \notin Call

VARIABLES
    call,    \* the calls in progress
    writer,  \* the call that holds the write lock, or None
    stale    \* open read transactions another connection has overtaken

sqliteVars == <<portVars, call, writer, stale>>

\* row and fresh: what rotate_refresh_token was given.  old: the row its SELECT
\* read.  rec: the retirement record read, or about to be written.  answer: what
\* the last resolve_refresh_token on this slot returned.
Done == [pc |-> "done", hash |-> None, rec |-> None, row |-> None, old |-> None,
         fresh |-> None, family |-> None, sweep |-> None, answer |-> None]

\* A commit overtakes every read transaction still open.
Overtake == stale' = {p \in Call : call[p].pc = "selected"}

\* Hashes and families are random: no two calls are given the same fresh one.
FreshHash == Hash \ (minted \cup {call[p].fresh : p \in Call})
FreshFamily == Family \ (families \cup {call[p].family : p \in Call})

\* SELECT of a sessions row; a row from before the family columns reads as the legacy
\* row of SessionPort.
get_session_by_refresh_token(h) == live[h]

\* SELECT ... WHERE user_id AND expires_at > now, and SELECT COUNT: one query each.
list_live_sessions_sqlite(u) ==
    {h \in Hash : LET row == get_session_by_refresh_token(h)
                  IN  row # None /\ row.user_id = u /\ row.expires_at > now}
count_active_sessions ==
    Cardinality({h \in Hash : live[h] # None /\ live[h].expires_at > now})

-----------------------------------------------------------------------------
(* resolve_refresh_token: three reads, each a query of its own. *)

ReadPresented(p, h) ==
    /\ call[p].pc = "done"
    /\ call' = [call EXCEPT ![p] =
           IF get_session_by_refresh_token(h) # None
           THEN [Done EXCEPT !.hash = h, !.answer = "Live"]
           ELSE [Done EXCEPT !.hash = h, !.pc = "record"]]
    /\ UNCHANGED <<portVars, writer, stale>>

get_retired_record(p) ==
    LET rec == retired[call[p].hash]
    IN  /\ call[p].pc = "record"
        /\ call' = [call EXCEPT ![p] =
               IF rec = None \/ rec.expires_at <= now
               THEN [Done EXCEPT !.hash = call[p].hash, !.answer = "Unknown"]
               ELSE [@ EXCEPT !.pc = "successor", !.rec = rec]]
        /\ UNCHANGED <<portVars, writer, stale>>

\* (Mistake: any live generation of the family makes the presented one Superseded.)
ReadFamilyLive(p) ==
    /\ call[p].pc = "successor"
    /\ call' = [call EXCEPT ![p] =
           [Done EXCEPT !.hash = call[p].hash,
                        !.answer = IF LiveOf(call[p].rec.family_id) # {}
                                   THEN "Superseded" ELSE "Retired"]]
    /\ UNCHANGED <<portVars, writer, stale>>

ReadSuccessor(p) ==
    /\ call[p].pc = "successor"
    /\ call' = [call EXCEPT ![p] =
           [Done EXCEPT !.hash = call[p].hash,
                        !.answer = IF get_session_by_refresh_token(call[p].rec.successor_hash) # None
                                   THEN "Superseded" ELSE "Retired"]]
    /\ UNCHANGED <<portVars, writer, stale>>

-----------------------------------------------------------------------------
(* Writes outside a transaction. *)

store_refresh_token_sqlite(h, f, u) ==
    /\ writer = None
    /\ store_refresh_token(h, [user_id |-> u, family_id |-> f, generation |-> 0,
                               expires_at |-> now + Ttl])
    /\ Overtake
    /\ UNCHANGED <<call, writer>>

revoke_session_sqlite(h) ==
    /\ writer = None
    /\ revoke_session(h)
    /\ Overtake
    /\ UNCHANGED <<call, writer>>

-----------------------------------------------------------------------------
(* rotate_refresh_token. *)

\* The core calls with the row it resolved h to and the generation it minted.
CallRotate(p, h, h2, f) ==
    /\ call[p].pc = "done"
    /\ live[h] # None
    /\ IF live[h].family_id = NoFamily THEN f \in FreshFamily ELSE f = live[h].family_id
    /\ call' = [call EXCEPT ![p] = [Done EXCEPT !.pc = "rotate", !.hash = h, !.fresh = h2,
                    !.row = [live[h] EXCEPT !.family_id = f, !.generation = @ + 1],
                    !.family = f]]
    /\ UNCHANGED <<portVars, writer, stale>>

\* BEGIN; SELECT: the transaction's snapshot.  No row: Ok(false).
RotateSelect(p) ==
    /\ call[p].pc = "rotate"
    /\ call' = [call EXCEPT ![p] = IF live[@.hash] = None THEN Done
                                   ELSE [@ EXCEPT !.pc = "selected", !.old = live[call[p].hash]]]
    /\ UNCHANGED <<portVars, writer, stale>>

\* (Mistake: the lock is granted on an overtaken snapshot.)
RotateDeleteStale(p) ==
    /\ call[p].pc = "selected"
    /\ writer = None
    /\ writer' = p
    /\ call' = [call EXCEPT ![p].pc = "deleted"]
    /\ UNCHANGED <<portVars, stale>>

\* DELETE: the first write takes the lock.  (On the snapshot of the SELECT the
\* row is still there, so the zero-rows branch is dead code on this store.)
RotateDelete(p) ==
    /\ call[p].pc = "selected"
    /\ writer = None /\ p \notin stale
    /\ writer' = p
    /\ call' = [call EXCEPT ![p].pc = "deleted"]
    /\ UNCHANGED <<portVars, stale>>

\* ... or is refused it: Err(StoreError).
RotateBusy(p) ==
    /\ call[p].pc = "selected"
    /\ writer # None \/ p \in stale
    /\ call' = [call EXCEPT ![p] = Done]
    /\ stale' = stale \ {p}
    /\ UNCHANGED <<portVars, writer>>

\* The record of the generation that leaves, with Utc::now().
retirement_record(c) ==
    [family_id |-> c.old.family_id, user_id |-> c.old.user_id, successor_hash |-> c.fresh,
     retired_at |-> now, expires_at |-> retention_deadline(now, c.row.expires_at)]

\* The two INSERTs: the record, unless the row is a legacy one, and the
\* replacement ...
RotateInsert(p) ==
    /\ call[p].pc = "deleted"
    /\ call' = [call EXCEPT ![p].pc = "commit",
                            ![p].rec = IF call[p].old.family_id = NoFamily THEN None
                                       ELSE retirement_record(call[p])]
    /\ UNCHANGED <<portVars, writer, stale>>

\* ... and COMMIT: Ok(true).
RotateCommit(p) ==
    LET c == call[p]
    IN  /\ c.pc = "commit"
        /\ live' = [live EXCEPT ![c.hash] = None, ![c.fresh] = c.row]
        /\ retired' = IF c.rec = None THEN retired ELSE [retired EXCEPT ![c.hash] = c.rec]
        /\ written' = IF c.rec = None THEN written ELSE [written EXCEPT ![c.hash] = c.rec]
        /\ minted' = minted \cup {c.fresh}
        /\ families' = families \cup {c.row.family_id}
        /\ UNCHANGED <<now, closed>>
        /\ writer' = None
        /\ Overtake
        /\ call' = [call EXCEPT ![p] = Done]

-----------------------------------------------------------------------------
(* revoke_family, revoke_all_user_sessions and cleanup_expired_sessions: one  *)
(* transaction of DELETEs each.                                              *)

\* cleanup_expired_sessions reads the clock before it begins.
CallSweep(p, s) ==
    /\ call[p].pc = "done"
    /\ s.kind = "expired" => s.of = now
    /\ call' = [call EXCEPT ![p] = [Done EXCEPT !.pc = "sweep", !.sweep = s]]
    /\ UNCHANGED <<portVars, writer, stale>>

\* The first DELETE waits for the write lock and reads the state it then finds.
SweepSessions(p) ==
    /\ call[p].pc = "sweep"
    /\ writer = None
    /\ writer' = p
    /\ call' = [call EXCEPT ![p].pc = "sweeping"]
    /\ UNCHANGED <<portVars, stale>>

\* The remaining DELETEs and COMMIT.
SweepCommit(p) ==
    LET s == call[p].sweep
    IN  /\ call[p].pc = "sweeping"
        /\ \/ s.kind = "family" /\ revoke_family(s.of)
           \/ s.kind = "user" /\ revoke_all_user_sessions(s.of)
           \/ s.kind = "expired" /\ cleanup_expired_sessions(s.of, Hash)
        /\ writer' = None
        /\ Overtake
        /\ call' = [call EXCEPT ![p] = Done]

\* Any statement may fail, and the process may die: the transaction is undone.
RollBack(p) ==
    /\ call[p].pc # "done"
    /\ call' = [call EXCEPT ![p] = Done]
    /\ writer' = IF writer = p THEN None ELSE writer
    /\ stale' = stale \ {p}
    /\ UNCHANGED portVars

-----------------------------------------------------------------------------
SqliteInit ==
    /\ PortInit
    /\ call = [p \in Call |-> Done]
    /\ writer = None
    /\ stale = {}

CallStep(p) ==
    \/ get_retired_record(p) \/ ReadSuccessor(p)
    \/ RotateSelect(p) \/ RotateDelete(p) \/ RotateBusy(p) \/ RotateInsert(p) \/ RotateCommit(p)
    \/ SweepSessions(p) \/ SweepCommit(p)

NewCall(p) ==
    \/ \E h \in minted : ReadPresented(p, h)
    \/ \E h \in Hash, h2 \in FreshHash, f \in Family : CallRotate(p, h, h2, f)
    \/ \E f \in families : CallSweep(p, [kind |-> "family", of |-> f])
    \/ \E u \in User : CallSweep(p, [kind |-> "user", of |-> u])
    \/ CallSweep(p, [kind |-> "expired", of |-> now])

SqliteNext ==
    \/ \E p \in Call : CallStep(p) \/ NewCall(p) \/ RollBack(p)
    \/ \E h \in FreshHash, f \in FreshFamily, u \in User : store_refresh_token_sqlite(h, f, u)
    \/ \E h \in Hash : revoke_session_sqlite(h)
    \/ Tick /\ UNCHANGED <<call, writer, stale>>

SqliteSpec == SqliteInit /\ [][SqliteNext]_sqliteVars

-----------------------------------------------------------------------------
\* SR1 for resolve_refresh_token, whose three reads are separate queries: the answer
\* is what the tables say at its last read, unless the record it had read was
\* removed, or its window closed, before that; then it may still say Retired (an
\* alarm for a family already gone), but never Superseded for a dead family.
\* And whatever the transactions in between do, a listing never shows two generations of
\* a family, and the count is what the listings of all users show together.
ReadsAreCurrent ==
    [][/\ \A p \in Call :
          LET h == call'[p].hash
              kind == call'[p].answer
          IN  call'[p] # call[p] /\ kind # None
              => \/ kind = resolve_refresh_token(h).kind
                 \/ /\ call[p].pc = "successor"
                    /\ retired[h] = None \/ retired[h].expires_at <= now
                    /\ kind = "Superseded" => LiveOf(call[p].rec.family_id) # {}
       /\ \A u \in User : \A h, k \in list_live_sessions_sqlite(u) :
             live[h].family_id = live[k].family_id /\ live[h].family_id # NoFamily => h = k
       /\ count_active_sessions =
             Cardinality(UNION {list_live_sessions_sqlite(u) : u \in User})]_sqliteVars
=============================================================================
