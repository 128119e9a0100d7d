--------------------------- MODULE PostgresSessions ----------------------------
(***************************************************************************)
(* The session half of the Postgres adapter                                *)
(* (crates/adapters/src/postgres/mod.rs): the statements and transactions  *)
(* behind each call of the SessionRepository port, at READ COMMITTED, the  *)
(* isolation the adapter's comments name and never changes.                *)
(*                                                                         *)
(* Of Postgres (external) the adapter relies on this: a statement sees the *)
(* rows committed when it starts; a DELETE locks each row it removes until *)
(* its transaction ends; a DELETE that meets a locked row waits, and skips *)
(* the row if it is gone by then (it does not look for new rows); the      *)
(* writes of a transaction appear at its commit.  retired rows have no     *)
(* lock here: two transactions meeting on one both only delete it.         *)
(***************************************************************************)
EXTENDS SessionPort

CONSTANTS Call  \* concurrent calls of the port

ASSUME PostgresAssumption == None \notin Call

VARIABLES
    call,  \* the calls in progress
    lock,  \* sessions rows: the call whose open transaction has deleted it
    revoked  \* families whose revoke_family deleted every row it had seen (history)

postgresVars == <<portVars, call, lock, revoked>>

\* row and fresh: what rotate_refresh_token was given.  old: the row its SELECT
\* read.  rec: the retirement record read, or about to be written.  targets and doomed: the
\* rows a DELETE has yet to visit, and those it has deleted; skipped: revoke_family's
\* found one gone (history).  answer: what the
\* last resolve_refresh_token on this slot returned.
Done == [pc |-> "done", hash |-> None, rec |-> None, row |-> None, old |-> None,
         fresh |-> None, family |-> None, sweep |-> None, targets |-> {}, doomed |-> {},
         records |-> {}, skipped |-> FALSE, answer |-> None]

\* Hashes and families are random: no two calls are given the same fresh one.
FreshHash == Hash \ (minted \cup {call[p].fresh : p \in Call})
FreshFamily == Family \ (families \cup {call[p].family : p \in Call})

\* SELECT of a sessions row; a row from before the family columns reads as the legacy
\* row of SessionPort.
get_session_by_refresh_token(h) == live[h]

\* SELECT ... WHERE user_id AND expires_at > now, and SELECT COUNT: one query each.
list_live_sessions_postgres(u) ==
    {h \in Hash : LET row == get_session_by_refresh_token(h)
                  IN  row # None /\ row.user_id = u /\ row.expires_at > now}
count_active_sessions ==
    Cardinality({h \in Hash : live[h] # None /\ live[h].expires_at > now})

Unlock(p) == lock' = [h \in Hash |-> IF lock[h] = p THEN None ELSE lock[h]]

-----------------------------------------------------------------------------
(* resolve_refresh_token: three reads, each a query of its own. *)

ReadPresented(p, h) ==
    /\ call[p].pc = "done"
    /\ call' = [call EXCEPT ![p] =
           IF get_session_by_refresh_token(h) # None
           THEN [Done EXCEPT !.hash = h, !.answer = "Live"]
           ELSE [Done EXCEPT !.hash = h, !.pc = "record"]]
    /\ UNCHANGED <<portVars, lock, revoked>>

get_retired_record(p) ==
    LET rec == retired[call[p].hash]
    IN  /\ call[p].pc = "record"
        /\ call' = [call EXCEPT ![p] =
               IF rec = None \/ rec.expires_at <= now
               THEN [Done EXCEPT !.hash = call[p].hash, !.answer = "Unknown"]
               ELSE [@ EXCEPT !.pc = "successor", !.rec = rec]]
        /\ UNCHANGED <<portVars, lock, revoked>>

ReadSuccessor(p) ==
    /\ call[p].pc = "successor"
    /\ call' = [call EXCEPT ![p] =
           [Done EXCEPT !.hash = call[p].hash,
                        !.answer = IF get_session_by_refresh_token(call[p].rec.successor_hash) # None
                                   THEN "Superseded" ELSE "Retired"]]
    /\ UNCHANGED <<portVars, lock, revoked>>

-----------------------------------------------------------------------------
(* Writes outside a transaction. *)

store_refresh_token_postgres(h, f, u) ==
    /\ store_refresh_token(h, [user_id |-> u, family_id |-> f, generation |-> 0,
                               expires_at |-> now + Ttl])
    /\ UNCHANGED <<call, lock, revoked>>

revoke_session_postgres(h) ==
    /\ lock[h] = None
    /\ revoke_session(h)
    /\ UNCHANGED <<call, lock, revoked>>

-----------------------------------------------------------------------------
(* rotate_refresh_token. *)

\* The core calls with the row it resolved h to and the generation it minted.
CallRotate(p, h, h2, f) ==
    /\ call[p].pc = "done"
    /\ live[h] # None
    /\ IF live[h].family_id = NoFamily THEN f \in FreshFamily ELSE f = live[h].family_id
    /\ call' = [call EXCEPT ![p] = [Done EXCEPT !.pc = "rotate", !.hash = h, !.fresh = h2,
                    !.row = [live[h] EXCEPT !.family_id = f, !.generation = @ + 1],
                    !.family = f]]
    /\ UNCHANGED <<portVars, lock, revoked>>

\* BEGIN; SELECT, which takes no lock.  No row: Ok(false).
RotateSelect(p) ==
    /\ call[p].pc = "rotate"
    /\ call' = [call EXCEPT ![p] = IF live[@.hash] = None THEN Done
                                   ELSE [@ EXCEPT !.pc = "selected", !.old = live[call[p].hash]]]
    /\ UNCHANGED <<portVars, lock, revoked>>

\* (Mistake: the number of rows the DELETE removed is not looked at.)
RotateDeleteUnchecked(p) ==
    LET h == call[p].hash
    IN  /\ call[p].pc = "selected"
        /\ lock[h] = None
        /\ call' = [call EXCEPT ![p].pc = "deleted"]
        /\ lock' = [lock EXCEPT ![h] = p]
        /\ UNCHANGED <<portVars, revoked>>

\* DELETE, once no other transaction holds the row.  Zero rows: Ok(false).
RotateDelete(p) ==
    LET h == call[p].hash
    IN  /\ call[p].pc = "selected"
        /\ lock[h] = None
        /\ \/ /\ live[h] = None
              /\ call' = [call EXCEPT ![p] = Done]
              /\ UNCHANGED lock
           \/ /\ live[h] # None
              /\ call' = [call EXCEPT ![p].pc = "deleted"]
              /\ lock' = [lock EXCEPT ![h] = p]
        /\ UNCHANGED <<portVars, revoked>>

\* The record of the generation that leaves, with Utc::now().
retirement_record(c) ==
    [family_id |-> c.old.family_id, user_id |-> c.old.user_id, successor_hash |-> c.fresh,
     retired_at |-> now, expires_at |-> retention_deadline(now, c.row.expires_at)]

\* The two INSERTs: the record, unless the row is a legacy one, and the
\* replacement ...
RotateInsert(p) ==
    /\ call[p].pc = "deleted"
    /\ call' = [call EXCEPT ![p].pc = "commit",
                            ![p].rec = IF call[p].old.family_id = NoFamily THEN None
                                       ELSE retirement_record(call[p])]
    /\ UNCHANGED <<portVars, lock, revoked>>

\* ... and COMMIT: Ok(true).
RotateCommit(p) ==
    LET c == call[p]
    IN  /\ c.pc = "commit"
        /\ live' = [live EXCEPT ![c.hash] = None, ![c.fresh] = c.row]
        /\ retired' = IF c.rec = None THEN retired ELSE [retired EXCEPT ![c.hash] = c.rec]
        /\ written' = IF c.rec = None THEN written ELSE [written EXCEPT ![c.hash] = c.rec]
        /\ minted' = minted \cup {c.fresh}
        /\ families' = families \cup {c.row.family_id}
        /\ UNCHANGED <<now, closed>>
        /\ call' = [call EXCEPT ![p] = Done]
        /\ Unlock(p)
        /\ UNCHANGED revoked

-----------------------------------------------------------------------------
(* revoke_family, revoke_all_user_sessions and cleanup_expired_sessions: one  *)
(* transaction each, DELETE FROM sessions before DELETE FROM                  *)
(* retired_refresh_tokens.                                                   *)

Matches(row, s) ==
    /\ row # None
    /\ \/ s.kind = "family" /\ row.family_id = s.of
       \/ s.kind = "user" /\ row.user_id = s.of
       \/ s.kind = "expired" /\ row.expires_at < s.of

\* BEGIN (whose time NOW() is), and the snapshot of the first DELETE.
SweepSessions(p, s) ==
    /\ call[p].pc = "done"
    /\ call' = [call EXCEPT ![p] = [Done EXCEPT !.pc = "sweeping", !.sweep = s,
                    !.targets = {h \in Hash : Matches(live[h], s)}]]
    /\ UNCHANGED <<portVars, lock, revoked>>

\* (Mistake: rows locked by another transaction are not waited for.)
SweepRowUnlocked(p, h) ==
    /\ call[p].pc = "sweeping"
    /\ h \in call[p].targets
    /\ call' = [call EXCEPT ![p].targets = @ \ {h},
                            ![p].doomed = IF live[h] = None THEN @ ELSE @ \cup {h},
                            ![p].skipped = @ \/ (call[p].sweep.kind = "family" /\ live[h] = None)]
    /\ lock' = [lock EXCEPT ![h] = IF live[h] = None THEN None ELSE p]
    /\ UNCHANGED <<portVars, revoked>>

\* The first DELETE visits a row of its snapshot: deletes it, or skips it if it
\* has gone.
SweepRow(p, h) ==
    /\ call[p].pc = "sweeping"
    /\ h \in call[p].targets
    /\ lock[h] = None
    /\ call' = [call EXCEPT ![p].targets = @ \ {h},
                            ![p].doomed = IF live[h] = None THEN @ ELSE @ \cup {h},
                            ![p].skipped = @ \/ (call[p].sweep.kind = "family" /\ live[h] = None)]
    /\ lock' = [lock EXCEPT ![h] = IF live[h] = None THEN None ELSE p]
    /\ UNCHANGED <<portVars, revoked>>

\* The second DELETE, with a snapshot of its own.
SweepRecords(p) ==
    /\ call[p].pc = "sweeping"
    /\ call[p].targets = {}
    /\ call' = [call EXCEPT ![p].pc = "swept",
                            ![p].records = {h \in Hash : Matches(retired[h], call[p].sweep)}]
    /\ UNCHANGED <<portVars, lock, revoked>>

\* COMMIT, and success reported: for the family, or for every family of the
\* user of which the transaction removed something.
SweepCommit(p) ==
    LET c == call[p]
        touched == {live[h].family_id : h \in c.doomed}
                   \cup {retired[h].family_id : h \in {k \in c.records : retired[k] # None}}
        reported == CASE c.sweep.kind = "family" -> {c.sweep.of}
                      [] c.sweep.kind = "user" -> touched \ {NoFamily}
                      [] OTHER -> {}
    IN  /\ c.pc = "swept"
        /\ live' = [h \in Hash |-> IF h \in c.doomed THEN None ELSE live[h]]
        /\ retired' = [h \in Hash |-> IF h \in c.records THEN None ELSE retired[h]]
        /\ closed' = closed \cup reported
        /\ revoked' = IF c.sweep.kind = "family" /\ ~c.skipped THEN revoked \cup {c.sweep.of} ELSE revoked
        /\ call' = [call EXCEPT ![p] = Done]
        /\ Unlock(p)
        /\ UNCHANGED <<now, minted, families, written>>

\* Any statement may fail (a deadlock broken by the server included), and the
\* process may die: the transaction is undone.
RollBack(p) ==
    /\ call[p].pc # "done"
    /\ call' = [call EXCEPT ![p] = Done]
    /\ Unlock(p)
    /\ UNCHANGED <<portVars, revoked>>

-----------------------------------------------------------------------------
PostgresInit ==
    /\ PortInit
    /\ call = [p \in Call |-> Done]
    /\ lock = [h \in Hash |-> None]
    /\ revoked = {}

CallStep(p) ==
    \/ get_retired_record(p) \/ ReadSuccessor(p)
    \/ RotateSelect(p) \/ RotateDelete(p) \/ RotateInsert(p) \/ RotateCommit(p)
    \/ \E h \in Hash : SweepRow(p, h)
    \/ SweepRecords(p) \/ SweepCommit(p)

NewCall(p) ==
    \/ \E h \in minted : ReadPresented(p, h)
    \/ \E h \in Hash, h2 \in FreshHash, f \in Family : CallRotate(p, h, h2, f)
    \/ \E f \in families : SweepSessions(p, [kind |-> "family", of |-> f])
    \/ \E u \in User : SweepSessions(p, [kind |-> "user", of |-> u])
    \/ SweepSessions(p, [kind |-> "expired", of |-> now])

PostgresNext ==
    \/ \E p \in Call : CallStep(p) \/ NewCall(p) \/ RollBack(p)
    \/ \E h \in FreshHash, f \in FreshFamily, u \in User : store_refresh_token_postgres(h, f, u)
    \/ \E h \in Hash : revoke_session_postgres(h)
    \/ Tick /\ UNCHANGED <<call, lock, revoked>>

PostgresSpec == PostgresInit /\ [][PostgresNext]_postgresVars

-----------------------------------------------------------------------------
\* The two statements of rotate_refresh_token that precede its writes leave no
\* gap: a transaction about to commit a rotation still has its row, and is the
\* only one to have deleted it, whoever read that row before (SR2, SR3).
RotationOwnsItsRow ==
    \A p \in Call : call[p].pc \in {"deleted", "commit"} =>
        /\ live[call[p].hash] # None
        /\ \A q \in Call \ {p} :
               /\ call[p].hash \notin call[q].doomed
               /\ call[q].pc \in {"deleted", "commit"} => call[q].hash # call[p].hash

\* SR5 for one family: when revoke_family has deleted every row it saw and reported
\* success, no generation of the family is live or comes back.  (A row it saw and then
\* found gone may have been rotated: see the README.)
RevokedFamilyIsDead == \A f \in revoked : LiveOf(f) = {}

\* SR3 as an operator sees it: however rotations and revocations interleave, the
\* listing of a user shows at most one generation of each family, and the count of
\* active sessions is what the listings of all users show together.
ListingHasOneGeneration ==
    /\ \A u \in User : \A h, k \in list_live_sessions_postgres(u) :
          live[h].family_id = live[k].family_id /\ live[h].family_id # NoFamily => h = k
    /\ count_active_sessions = Cardinality(UNION {list_live_sessions_postgres(u) : u \in User})
=============================================================================
