---------------------------- MODULE PostgresProofs -----------------------------
(***************************************************************************)
(* The Postgres adapter at READ COMMITTED, for any number of concurrent    *)
(* calls and every value of the other constants.  It does not implement    *)
(* the whole of SessionPort: revoke_family may miss a row rotated under    *)
(* it.  What does hold is proved here: a rotation owns its row, a family   *)
(* has one live generation, and a family whose revocation found every row  *)
(* it had seen is dead.                                                    *)
(*                                                                         *)
(* The argument is about row locks: a row that an open transaction has     *)
(* deleted leaves the table only by that transaction's commit (LocksHold), *)
(* so a sweep of a family either still has every live row of it before     *)
(* itself or locked, or meets a row that has gone (Covered).               *)
(***************************************************************************)
EXTENDS PostgresSessions, SessionPortProofs

Sweeping == {"sweeping", "swept"}

CallRecord ==
    [pc : {"done", "record", "successor", "rotate", "selected", "deleted", "commit",
           "sweeping", "swept"},
     hash : Hash \cup {None}, rec : RetiredRefreshToken \cup {None},
     row : Session \cup {None}, old : Session \cup {None}, fresh : Hash \cup {None},
     family : Family \cup {None},
     sweep : [kind : {"family", "user", "expired"}, of : Family \cup User \cup Nat] \cup {None},
     targets : SUBSET Hash, doomed : SUBSET Hash, records : SUBSET Hash,
     skipped : BOOLEAN,
     answer : {"Live", "Unknown", "Superseded", "Retired", None}]

\* The tables, with what the adapter's own writes keep of SessionPort's promises.
Tables ==
    /\ live \in [Hash -> Session \cup {None}]
    /\ retired \in [Hash -> RetiredRefreshToken \cup {None}]
    /\ now \in Nat
    /\ minted \subseteq Hash
    /\ families \subseteq Family
    /\ \A h \in Hash : live[h] # None =>
           h \in minted /\ live[h].family_id \in families \cup {NoFamily}
    /\ SingleLiveGeneration

\* What a call has deleted in its open transaction is there, and locked by it.
LocksHold(p) ==
    LET c == call[p]
    IN  /\ c.pc \in {"deleted", "commit"} => lock[c.hash] = p /\ live[c.hash] # None
        /\ \A h \in c.doomed : lock[h] = p
        /\ c.pc \notin Sweeping => c.doomed = {}

\* A sweep of a family has met a row that was gone, or will, or every live
\* generation of the family is one it has deleted or has yet to visit.
Covered(p) ==
    LET c == call[p]
    IN  c.pc \in Sweeping =>
          /\ c.targets \subseteq minted
          /\ c.pc = "swept" => c.targets = {}
          /\ c.sweep.kind = "family" =>
               /\ c.sweep.of \in families
               /\ \/ c.skipped
                  \/ \E h \in c.targets : live[h] = None
                  \/ LiveOf(c.sweep.of) \subseteq c.targets \cup c.doomed

\* What the statements of a call read, as far as the types depend on it.
ReadsFit(p) ==
    LET c == call[p]
    IN  /\ c.pc \in {"record", "successor"} => c.hash \in Hash
        /\ c.pc \in {"selected", "deleted"} => c.old \in Session

CallSound(p) == RotationFits(call[p]) /\ LocksHold(p) /\ Covered(p) /\ ReadsFit(p)

\* No two rotations install the same hash, or move rows to the same new family.
RotationsDiffer ==
    \A p, q \in Call :
        call[p].pc \in Rotating /\ call[q].pc \in Rotating /\ p # q =>
            /\ call[p].fresh # call[q].fresh
            /\ MovesLegacy(call[p]) => call[p].family # call[q].family

RevokedStaysDead == \A f \in revoked : f \in families /\ LiveOf(f) = {}

PostgresIInv ==
    /\ Tables
    /\ call \in [Call -> CallRecord]
    /\ lock \in [Hash -> Call \cup {None}]
    /\ \A p \in Call : CallSound(p)
    /\ RotationsDiffer
    /\ RevokedStaysDead

-----------------------------------------------------------------------------
\* A call that has ended, as a record.
LEMMA DoneSound == Done \in CallRecord /\ Done.pc = "done" /\ Done.doomed = {}
BY DEF Done, CallRecord

\* The inductive invariant holds of a fresh or pre-rotation database.
LEMMA InitPostgres == PostgresInit => PostgresIInv
<1> SUFFICES ASSUME PostgresInit PROVE PostgresIInv
    OBVIOUS
<1>1. PortIInv
    BY InitPort DEF PostgresInit
<1>2. Tables
    BY <1>1 DEF Tables, PortIInv, PortTypeOK, HoldsMinted
<1>3. call \in [Call -> CallRecord] /\ lock \in [Hash -> Call \cup {None}]
    BY DoneSound DEF PostgresInit
<1>4. \A p \in Call : call[p] = Done
    BY DEF PostgresInit
<1>5. \A p \in Call : CallSound(p)
    BY <1>4, DoneSound DEF CallSound, RotationFits, LocksHold, Covered, ReadsFit, Rotating, Sweeping
<1>6. RotationsDiffer /\ RevokedStaysDead
    BY <1>4, DoneSound DEF RotationsDiffer, Rotating, RevokedStaysDead, PostgresInit
<1> QED
    BY <1>2, <1>3, <1>5, <1>6 DEF PostgresIInv

\* A step of one call that leaves the tables alone, and the locks of the others,
\* disturbs no other call.
LEMMA StepLocal ==
    ASSUME PostgresIInv, UNCHANGED <<portVars, revoked>>, NEW p \in Call, NEW m \in CallRecord,
           call' = [call EXCEPT ![p] = m],
           CallSound(p)',
           m.pc \in Rotating =>
               \A q \in Call \ {p} : call[q].pc \in Rotating =>
                   /\ m.fresh # call[q].fresh
                   /\ MovesLegacy(m) \/ MovesLegacy(call[q]) => m.family # call[q].family,
           lock' \in [Hash -> Call \cup {None}],
           \A q \in Call \ {p}, h \in Hash : lock[h] = q => lock'[h] = q
    PROVE  PostgresIInv'
<1>0. /\ live' = live /\ retired' = retired /\ minted' = minted /\ families' = families
      /\ now' = now /\ revoked' = revoked
      /\ call \in [Call -> CallRecord] /\ minted \subseteq Hash
    BY DEF PostgresIInv, Tables, portVars
<1>1. call' \in [Call -> CallRecord] /\ \A q \in Call \ {p} : call'[q] = call[q]
    BY <1>0
<1>2. Tables'
    BY <1>0 DEF PostgresIInv, Tables, SingleLiveGeneration
<1>3. RevokedStaysDead'
    BY <1>0 DEF PostgresIInv, RevokedStaysDead, LiveOf
<1>4. \A q \in Call : CallSound(q)'
    <2> SUFFICES ASSUME NEW q \in Call \ {p} PROVE CallSound(q)'
        OBVIOUS
    <2>1. /\ call'[q] = call[q] /\ call[q] \in CallRecord
          /\ RotationFits(call[q]) /\ LocksHold(q) /\ Covered(q) /\ ReadsFit(q)
        BY <1>0, <1>1 DEF PostgresIInv, CallSound
    <2>2. RotationFits(call[q])'
        BY <1>0, <2>1 DEF RotationFits, MovesLegacy
    <2>3. LocksHold(q)'
        <3>1. call[q].doomed \subseteq Hash
            BY <2>1 DEF CallRecord
        <3>2. call[q].pc \in {"deleted", "commit"} => call[q].hash \in Hash
            BY <1>0, <2>1 DEF RotationFits, Rotating
        <3> QED
            BY <1>0, <2>1, <3>1, <3>2 DEF LocksHold, Sweeping
    <2>4. Covered(q)'
        BY <1>0, <2>1 DEF Covered, LiveOf
    <2>5. ReadsFit(q)'
        BY <2>1 DEF ReadsFit
    <2> QED
        BY <2>2, <2>3, <2>4, <2>5 DEF CallSound
<1>5. RotationsDiffer'
    <2> SUFFICES ASSUME NEW q \in Call, NEW r \in Call, q # r,
                        call'[q].pc \in Rotating, call'[r].pc \in Rotating
                 PROVE  /\ call'[q].fresh # call'[r].fresh
                        /\ MovesLegacy(call[q])' => call'[q].family # call'[r].family
        BY DEF RotationsDiffer
    <2>1. call'[p] = m
        BY <1>0
    <2>2. CASE q # p /\ r # p
        BY <1>0, <1>1, <2>2 DEF PostgresIInv, RotationsDiffer, MovesLegacy
    <2>3. CASE q = p
        BY <1>0, <1>1, <2>1, <2>3 DEF MovesLegacy
    <2>4. CASE r = p
        BY <1>0, <1>1, <2>1, <2>4 DEF MovesLegacy
    <2> QED
        BY <2>2, <2>3, <2>4
<1> QED
    BY <1>1, <1>2, <1>3, <1>4, <1>5 DEF PostgresIInv

\* A call that is not rotating and has deleted nothing.
LEMMA StepReading ==
    ASSUME PostgresIInv, UNCHANGED <<portVars, revoked>>, NEW p \in Call, NEW m \in CallRecord,
           call' = [call EXCEPT ![p] = m],
           m.pc = "done" \/ (m.pc \in {"record", "successor"} /\ m.hash \in Hash),
           m.doomed = {},
           lock' \in [Hash -> Call \cup {None}],
           \A q \in Call \ {p}, h \in Hash : lock[h] = q => lock'[h] = q
    PROVE  PostgresIInv'
<1>1. call'[p] = m
    BY DEF PostgresIInv
<1>2. m.pc \notin Rotating
    BY DEF Rotating
<1>3. CallSound(p)'
    BY <1>1, <1>2 DEF CallSound, RotationFits, LocksHold, Covered, ReadsFit, Sweeping
<1> QED
    BY <1>2, <1>3, StepLocal

\* The three reads of resolve_refresh_token.
LEMMA StepReads ==
    ASSUME PostgresIInv, NEW p \in Call,
           \/ \E h \in minted : ReadPresented(p, h)
           \/ get_retired_record(p) \/ ReadSuccessor(p)
    PROVE  PostgresIInv'
<1>0. /\ call \in [Call -> CallRecord] /\ lock \in [Hash -> Call \cup {None}]
      /\ minted \subseteq Hash /\ retired \in [Hash -> RetiredRefreshToken \cup {None}]
    BY DEF PostgresIInv, Tables
<1>1. UNCHANGED <<portVars, revoked>> /\ lock' = lock
    BY DEF ReadPresented, get_retired_record, ReadSuccessor
<1>2. ASSUME NEW m \in CallRecord, call' = [call EXCEPT ![p] = m], m.doomed = {},
             m.pc = "done" \/ (m.pc \in {"record", "successor"} /\ m.hash \in Hash)
      PROVE  PostgresIInv'
    BY <1>0, <1>1, <1>2, StepReading
<1>3. ASSUME NEW h \in minted, ReadPresented(p, h) PROVE PostgresIInv'
    <2>1. CASE get_session_by_refresh_token(h) # None
        <3> DEFINE m == [Done EXCEPT !.hash = h, !.answer = "Live"]
        <3>1. m \in CallRecord /\ m.pc = "done" /\ m.doomed = {}
            BY <1>0, <1>3 DEF Done, CallRecord
        <3>2. call' = [call EXCEPT ![p] = m]
            BY <1>3, <2>1 DEF ReadPresented
        <3> HIDE DEF m
        <3> QED
            BY <1>2, <3>1, <3>2
    <2>2. CASE ~(get_session_by_refresh_token(h) # None)
        <3> DEFINE m == [Done EXCEPT !.hash = h, !.pc = "record"]
        <3>1. m \in CallRecord /\ m.pc = "record" /\ m.hash \in Hash /\ m.doomed = {}
            BY <1>0, <1>3 DEF Done, CallRecord
        <3>2. call' = [call EXCEPT ![p] = m]
            BY <1>3, <2>2 DEF ReadPresented
        <3> HIDE DEF m
        <3> QED
            BY <1>2, <3>1, <3>2
    <2> QED
        BY <2>1, <2>2
<1>4. ASSUME get_retired_record(p) PROVE PostgresIInv'
    <2> DEFINE rec == retired[call[p].hash]
    <2>0. call[p].hash \in Hash
        BY <1>4 DEF PostgresIInv, CallSound, ReadsFit, get_retired_record
    <2>1. CASE rec = None \/ rec.expires_at <= now
        <3> DEFINE m == [Done EXCEPT !.hash = call[p].hash, !.answer = "Unknown"]
        <3>1. m \in CallRecord /\ m.pc = "done" /\ m.doomed = {}
            BY <2>0 DEF Done, CallRecord
        <3>2. call' = [call EXCEPT ![p] = m]
            BY <1>4, <2>1 DEF get_retired_record
        <3> HIDE DEF m
        <3> QED
            BY <1>2, <3>1, <3>2
    <2>2. CASE ~(rec = None \/ rec.expires_at <= now)
        <3> DEFINE m == [call[p] EXCEPT !.pc = "successor", !.rec = rec]
        <3>1. /\ m \in CallRecord /\ m.pc = "successor" /\ m.hash = call[p].hash
              /\ m.doomed = call[p].doomed
            <4>1. call[p] \in CallRecord /\ rec \in RetiredRefreshToken \cup {None}
                BY <1>0, <2>0
            <4> QED
                BY ZenonT(60), <4>1 DEF CallRecord
        <3>2. call' = [call EXCEPT ![p] = m]
            BY <1>0, <1>4, <2>2 DEF get_retired_record
        <3> HIDE DEF m
        <3>3. CallSound(p)'
            <4>1. call'[p] = m /\ lock' = lock /\ LocksHold(p) /\ call[p].pc = "record"
                BY <1>0, <1>1, <1>4, <3>2 DEF PostgresIInv, CallSound, get_retired_record
            <4>2. LocksHold(p)'
                BY <3>1, <4>1 DEF LocksHold, Sweeping
            <4> QED
                BY <2>0, <3>1, <4>1, <4>2 DEF CallSound, RotationFits, Covered, ReadsFit, Rotating,
                    Sweeping
        <3>4. m.pc \notin Rotating
            BY <3>1 DEF Rotating
        <3> QED
            BY <1>0, <1>1, <3>1, <3>2, <3>3, <3>4, StepLocal
    <2> QED
        BY <2>1, <2>2
<1>5. ASSUME ReadSuccessor(p) PROVE PostgresIInv'
    <2> DEFINE kind == IF get_session_by_refresh_token(call[p].rec.successor_hash) # None
                       THEN "Superseded" ELSE "Retired"
               m == [Done EXCEPT !.hash = call[p].hash, !.answer = kind]
    <2>1. m \in CallRecord /\ m.pc = "done" /\ m.doomed = {}
        BY <1>0 DEF Done, CallRecord
    <2>2. call' = [call EXCEPT ![p] = m]
        BY <1>5 DEF ReadSuccessor
    <2> HIDE DEF m
    <2> QED
        BY <1>2, <2>1, <2>2
<1> QED
    BY <1>3, <1>4, <1>5

\* A rotation is called with the live row, and its new hash and family are its own.
LEMMA StepCallRotate ==
    ASSUME PostgresIInv, NEW p \in Call, NEW h \in Hash, NEW h2 \in FreshHash, NEW f \in Family,
           CallRotate(p, h, h2, f)
    PROVE  PostgresIInv'
<1> DEFINE row == [live[h] EXCEPT !.family_id = f, !.generation = @ + 1]
           m == [Done EXCEPT !.pc = "rotate", !.hash = h, !.fresh = h2, !.row = row, !.family = f]
<1>0. /\ UNCHANGED <<portVars, revoked>> /\ lock' = lock
      /\ live' = live /\ minted' = minted /\ families' = families
      /\ live[h] # None /\ call' = [call EXCEPT ![p] = m]
    BY DEF CallRotate, portVars
<1>1. /\ call \in [Call -> CallRecord] /\ lock \in [Hash -> Call \cup {None}]
      /\ minted \subseteq Hash /\ live[h] \in Session /\ h \in minted
      /\ live[h].family_id \in families \cup {NoFamily}
    BY <1>0 DEF PostgresIInv, Tables
<1>2. /\ row \in Session /\ row.family_id = f /\ row.user_id = live[h].user_id
      /\ row.generation = live[h].generation + 1 /\ row.expires_at = live[h].expires_at
    <2>1. PICK g \in Nat : g = live[h].generation + 1
        BY <1>1 DEF Session
    <2>2. row = [live[h] EXCEPT !.family_id = f, !.generation = g]
        BY <2>1
    <2> HIDE DEF row
    <2> QED
        BY <1>1, <2>1, <2>2 DEF Session
<1>3. /\ m \in CallRecord /\ m.pc = "rotate" /\ m.hash = h /\ m.fresh = h2 /\ m.row = row
      /\ m.family = f /\ m.doomed = {}
    BY <1>2 DEF Done, CallRecord, FreshHash
<1>4. h2 \in Hash \ minted /\ \A q \in Call : call[q].fresh # h2
    BY DEF FreshHash
<1>5. /\ live[h].family_id # NoFamily => f = live[h].family_id
      /\ live[h].family_id = NoFamily => f \notin families /\ \A q \in Call : call[q].family # f
    BY DEF CallRotate, FreshFamily
<1> HIDE DEF row, m
<1>6. call'[p] = m
    BY <1>0, <1>1
<1>7. CallSound(p)'
    <2>1. RotationFits(call[p])'
        BY <1>0, <1>1, <1>2, <1>3, <1>4, <1>5, <1>6 DEF RotationFits, MovesLegacy
    <2> QED
        BY <1>3, <1>6, <2>1 DEF CallSound, LocksHold, Covered, ReadsFit, Sweeping
<1>8. ASSUME NEW q \in Call \ {p}, call[q].pc \in Rotating
      PROVE  /\ m.fresh # call[q].fresh
             /\ MovesLegacy(m) \/ MovesLegacy(call[q]) => m.family # call[q].family
    <2>1. m.fresh # call[q].fresh
        BY <1>3, <1>4
    <2>2. CASE live[h].family_id = NoFamily
        BY <1>3, <1>5, <2>1, <2>2
    <2>3. CASE live[h].family_id # NoFamily
        <3>1. ~MovesLegacy(m) /\ f \in families
            BY <1>1, <1>3, <1>5, <2>3 DEF MovesLegacy
        <3>2. MovesLegacy(call[q]) => call[q].family \notin families
            BY <1>8 DEF PostgresIInv, CallSound, RotationFits
        <3> QED
            BY <1>3, <2>1, <3>1, <3>2
    <2> QED
        BY <2>2, <2>3
<1> QED
    BY <1>0, <1>1, <1>3, <1>7, <1>8, StepLocal

\* A rotation moves on inside its transaction; its DELETE takes the row's lock.
LEMMA StepRotating ==
    ASSUME PostgresIInv, NEW p \in Call, RotateSelect(p) \/ RotateDelete(p) \/ RotateInsert(p)
    PROVE  PostgresIInv'
<1>0. /\ UNCHANGED <<portVars, revoked>>
      /\ live' = live /\ minted' = minted /\ families' = families /\ now' = now
    BY DEF RotateSelect, RotateDelete, RotateInsert, portVars
<1>1. /\ call \in [Call -> CallRecord] /\ lock \in [Hash -> Call \cup {None}]
      /\ live \in [Hash -> Session \cup {None}]
      /\ minted \subseteq Hash /\ now \in Nat /\ CallSound(p) /\ RotationsDiffer
    BY DEF PostgresIInv, Tables
<1>2. ASSUME NEW m \in CallRecord, call' = [call EXCEPT ![p] = m], m.pc \in Rotating,
             call[p].pc \in Rotating,
             m.hash = call[p].hash, m.fresh = call[p].fresh, m.row = call[p].row,
             m.family = call[p].family,
             LocksHold(p)', ReadsFit(p)',
             lock' \in [Hash -> Call \cup {None}],
             \A q \in Call \ {p}, h \in Hash : lock[h] = q => lock'[h] = q
      PROVE  PostgresIInv'
    <2>1. call'[p] = m
        BY <1>1, <1>2
    <2>2. CallSound(p)'
        <3>1. RotationFits(call[p])'
            BY <1>0, <1>1, <1>2, <2>1 DEF CallSound, RotationFits, MovesLegacy
        <3>2. Covered(p)'
            BY <1>2, <2>1 DEF Covered, Rotating, Sweeping
        <3> QED
            BY <1>2, <3>1, <3>2 DEF CallSound
    <2>3. MovesLegacy(m) = MovesLegacy(call[p])
        BY <1>2 DEF MovesLegacy
    <2>4. \A q \in Call \ {p} : call[q].pc \in Rotating =>
              /\ m.fresh # call[q].fresh
              /\ MovesLegacy(m) \/ MovesLegacy(call[q]) => m.family # call[q].family
        BY <1>1, <1>2, <2>3 DEF RotationsDiffer
    <2> QED
        BY <1>0, <1>2, <2>2, <2>4, StepLocal
<1>3. ASSUME call' = [call EXCEPT ![p] = Done], lock' = lock PROVE PostgresIInv'
    BY <1>0, <1>1, <1>3, DoneSound, StepReading
<1>4. ASSUME RotateSelect(p) PROVE PostgresIInv'
    <2>0. call[p].pc = "rotate" /\ lock' = lock
        BY <1>4 DEF RotateSelect
    <2>1. call[p].hash \in Hash
        BY <1>1, <2>0 DEF CallSound, RotationFits, Rotating
    <2>2. CASE live[call[p].hash] = None
        BY <1>1, <1>3, <1>4, <2>0, <2>2 DEF RotateSelect
    <2>3. CASE live[call[p].hash] # None
        <3> DEFINE m == [call[p] EXCEPT !.pc = "selected", !.old = live[call[p].hash]]
        <3>1. /\ m \in CallRecord /\ m.pc = "selected" /\ m.hash = call[p].hash
              /\ m.fresh = call[p].fresh /\ m.row = call[p].row /\ m.family = call[p].family
              /\ m.old = live[call[p].hash] /\ m.doomed = call[p].doomed
            <4>1. call[p] \in CallRecord /\ live[call[p].hash] \in Session \cup {None}
                BY <1>1, <2>1
            <4> QED
                BY ZenonT(60), <4>1 DEF CallRecord
        <3>2. call' = [call EXCEPT ![p] = m]
            BY <1>1, <1>4, <2>3 DEF RotateSelect
        <3> HIDE DEF m
        <3>3. call'[p] = m /\ m.old \in Session
            BY <1>1, <2>1, <2>3, <3>1, <3>2
        <3>4. LocksHold(p)' /\ ReadsFit(p)'
            BY <1>1, <2>0, <3>1, <3>3 DEF CallSound, LocksHold, ReadsFit, Sweeping
        <3>5. m.pc \in Rotating /\ call[p].pc \in Rotating
            BY <2>0, <3>1 DEF Rotating
        <3> QED
            BY <1>1, <1>2, <2>0, <3>1, <3>2, <3>4, <3>5
    <2> QED
        BY <2>2, <2>3
<1>5. ASSUME RotateDelete(p) PROVE PostgresIInv'
    <2> DEFINE m == [call[p] EXCEPT !.pc = "deleted"]
               h == call[p].hash
    <2>0. call[p].pc = "selected" /\ lock[h] = None
        BY <1>5 DEF RotateDelete
    <2>1. h \in Hash
        BY <1>1, <2>0 DEF CallSound, RotationFits, Rotating
    <2>2. CASE live[h] = None
        BY <1>3, <1>5, <2>2 DEF RotateDelete
    <2>3. CASE live[h] # None
        <3>0. call' = [call EXCEPT ![p] = m] /\ lock' = [lock EXCEPT ![h] = p]
            BY <1>1, <1>5, <2>3 DEF RotateDelete
        <3>1. /\ m \in CallRecord /\ m.pc = "deleted" /\ m.hash = h
              /\ m.fresh = call[p].fresh /\ m.row = call[p].row /\ m.family = call[p].family
              /\ m.old = call[p].old /\ m.doomed = call[p].doomed
            <4>1. call[p] \in CallRecord
                BY <1>1
            <4> QED
                BY <4>1 DEF CallRecord
        <3> HIDE DEF m
        <3>2. call'[p] = m /\ m.doomed \subseteq Hash
            BY <1>1, <3>0, <3>1 DEF CallRecord
        <3>3. LocksHold(p)' /\ ReadsFit(p)'
            BY <1>0, <1>1, <2>0, <2>1, <2>3, <3>0, <3>1, <3>2 DEF CallSound, LocksHold, ReadsFit, Sweeping
        <3>4. m.pc \in Rotating /\ call[p].pc \in Rotating
            BY <2>0, <3>1 DEF Rotating
        <3>5. /\ lock' \in [Hash -> Call \cup {None}]
              /\ \A q \in Call \ {p}, k \in Hash : lock[k] = q => lock'[k] = q
            BY <1>1, <2>0, <2>1, <3>0, PostgresAssumption
        <3> QED
            BY <1>2, <3>0, <3>1, <3>3, <3>4, <3>5
    <2> QED
        BY <2>2, <2>3
<1>6. ASSUME RotateInsert(p) PROVE PostgresIInv'
    <2> DEFINE rec == IF call[p].old.family_id = NoFamily THEN None
                      ELSE retirement_record(call[p])
               m == [call[p] EXCEPT !.pc = "commit", !.rec = rec]
    <2>0. /\ call[p].pc = "deleted" /\ lock' = lock
          /\ call' = [call EXCEPT ![p] = m]
        BY <1>1, <1>6 DEF RotateInsert
    <2>1. call[p].old \in Session /\ call[p].row \in Session /\ call[p].fresh \in Hash
        BY <1>1, <2>0 DEF CallSound, ReadsFit, RotationFits, Rotating
    <2>2. rec \in RetiredRefreshToken \cup {None}
        <3>1. now \in Nat /\ call[p].row.expires_at \in Nat
            BY <1>1, <2>1 DEF Session
        <3>2. retention_deadline(now, call[p].row.expires_at) \in Nat
            BY <3>1, DeadlineType
        <3> QED
            BY <2>1, <3>1, <3>2 DEF retirement_record, RetiredRefreshToken, Session
    <2>3. /\ m \in CallRecord /\ m.pc = "commit" /\ m.hash = call[p].hash
          /\ m.fresh = call[p].fresh /\ m.row = call[p].row /\ m.family = call[p].family
          /\ m.doomed = call[p].doomed
        <3>1. call[p] \in CallRecord
            BY <1>1
        <3> HIDE DEF rec
        <3> QED
            BY ZenonT(60), <2>2, <3>1 DEF CallRecord
    <2> HIDE DEF m
    <2>4. call'[p] = m
        BY <1>1, <2>0
    <2>5. LocksHold(p)' /\ ReadsFit(p)'
        BY <1>0, <1>1, <2>0, <2>3, <2>4 DEF CallSound, LocksHold, ReadsFit, Sweeping
    <2>6. m.pc \in Rotating /\ call[p].pc \in Rotating
        BY <2>0, <2>3 DEF Rotating
    <2> QED
        BY <1>1, <1>2, <2>0, <2>3, <2>5, <2>6
<1> QED
    BY <1>4, <1>5, <1>6

\* The first DELETE of a sweep starts with every live row of the family before it,
\* and locks each row it removes.
LEMMA StepSweeping ==
    ASSUME PostgresIInv, NEW p \in Call,
           \/ \E f \in families : SweepSessions(p, [kind |-> "family", of |-> f])
           \/ \E u \in User : SweepSessions(p, [kind |-> "user", of |-> u])
           \/ SweepSessions(p, [kind |-> "expired", of |-> now])
           \/ \E h \in Hash : SweepRow(p, h)
           \/ SweepRecords(p)
    PROVE  PostgresIInv'
<1>0. /\ UNCHANGED <<portVars, revoked>>
      /\ live' = live /\ minted' = minted /\ families' = families /\ now' = now
    BY DEF SweepSessions, SweepRow, SweepRecords, portVars
<1>1. /\ call \in [Call -> CallRecord] /\ lock \in [Hash -> Call \cup {None}]
      /\ live \in [Hash -> Session \cup {None}] /\ now \in Nat /\ families \subseteq Family
      /\ minted \subseteq Hash /\ CallSound(p)
      /\ \A h \in Hash : live[h] # None => h \in minted
    BY DEF PostgresIInv, Tables
<1>2. ASSUME NEW m \in CallRecord, call' = [call EXCEPT ![p] = m], m.pc \in Sweeping,
             LocksHold(p)', Covered(p)',
             lock' \in [Hash -> Call \cup {None}],
             \A q \in Call \ {p}, h \in Hash : lock[h] = q => lock'[h] = q
      PROVE  PostgresIInv'
    <2>1. call'[p] = m
        BY <1>1, <1>2
    <2>2. m.pc \notin Rotating
        BY <1>2 DEF Rotating, Sweeping
    <2>3. CallSound(p)'
        BY <1>2, <2>1, <2>2 DEF CallSound, RotationFits, ReadsFit, Sweeping
    <2> QED
        BY <1>0, <1>2, <2>2, <2>3, StepLocal
<1>3. ASSUME NEW k \in {"family", "user", "expired"}, NEW x \in Family \cup User \cup Nat,
             k = "family" => x \in families,
             SweepSessions(p, [kind |-> k, of |-> x])
      PROVE  PostgresIInv'
    <2> DEFINE w == [kind |-> k, of |-> x]
               rows == {h \in Hash : Matches(live[h], w)}
               m == [Done EXCEPT !.pc = "sweeping", !.sweep = w, !.targets = rows]
    <2>1. /\ m \in CallRecord /\ m.pc = "sweeping" /\ m.sweep = w /\ m.targets = rows
          /\ m.doomed = {}
        <3>1. rows \in SUBSET Hash
            OBVIOUS
        <3> HIDE DEF rows
        <3> QED
            BY <3>1 DEF Done, CallRecord
    <2>2. call' = [call EXCEPT ![p] = m] /\ lock' = lock
        BY <1>3 DEF SweepSessions
    <2>3. call'[p] = m
        BY <1>1, <2>2
    <2>4. rows \subseteq minted
        BY <1>1 DEF Matches
    <2>5. k = "family" => LiveOf(x) \subseteq rows
        BY DEF LiveOf, Matches
    <2>6. LiveOf(x)' = LiveOf(x)
        BY <1>0 DEF LiveOf
    <2>7. w.kind = k /\ w.of = x
        OBVIOUS
    <2> HIDE DEF m, rows, w
    <2>8. Covered(p)'
        BY <1>0, <1>3, <2>1, <2>3, <2>4, <2>5, <2>6, <2>7 DEF Covered
    <2>9. LocksHold(p)' /\ m.pc \in Sweeping
        BY <2>1, <2>3 DEF LocksHold, Sweeping
    <2> QED
        BY <1>1, <1>2, <2>1, <2>2, <2>8, <2>9
<1>4. ASSUME NEW h \in Hash, SweepRow(p, h) PROVE PostgresIInv'
    <2> DEFINE t == call[p].targets \ {h}
               d == IF live[h] = None THEN call[p].doomed ELSE call[p].doomed \cup {h}
               sk == call[p].skipped \/ (call[p].sweep.kind = "family" /\ live[h] = None)
               m == [call[p] EXCEPT !.targets = t, !.doomed = d, !.skipped = sk]
    <2>0. /\ call[p].pc = "sweeping" /\ h \in call[p].targets /\ lock[h] = None
          /\ call' = [call EXCEPT ![p] = m]
          /\ lock' = [lock EXCEPT ![h] = IF live[h] = None THEN None ELSE p]
        BY <1>1, <1>4 DEF SweepRow
    <2>1. call[p] \in CallRecord /\ call[p].doomed \subseteq Hash /\ call[p].targets \subseteq Hash
        <3>1. call[p] \in CallRecord
            BY <1>1
        <3> QED
            BY <3>1 DEF CallRecord
    <2>2. t \in SUBSET Hash /\ d \in SUBSET Hash /\ sk \in BOOLEAN
        BY <2>1
    <2>3. t = call[p].targets \ {h} /\ d \subseteq call[p].doomed \cup {h}
          /\ call[p].doomed \subseteq d /\ (live[h] # None => h \in d)
          /\ (h \in d => live[h] # None \/ h \in call[p].doomed)
        OBVIOUS
    <2>4. /\ call[p].skipped => sk
          /\ call[p].sweep.kind = "family" /\ live[h] = None => sk
        OBVIOUS
    <2> HIDE DEF t, d, sk
    <2>5. /\ m \in CallRecord /\ m.pc = call[p].pc /\ m.sweep = call[p].sweep
          /\ m.targets = t /\ m.doomed = d /\ m.skipped = sk
        <3>1. m \in CallRecord
            BY <2>1, <2>2 DEF CallRecord
        <3>2. m.pc = call[p].pc /\ m.sweep = call[p].sweep /\ m.targets = t /\ m.doomed = d
            BY <2>1 DEF CallRecord
        <3>3. m.skipped = sk
            BY <2>1 DEF CallRecord
        <3> QED
            BY <3>1, <3>2, <3>3
    <2> HIDE DEF m
    <2>6. call'[p] = m /\ LocksHold(p) /\ Covered(p)
        BY <1>1, <2>0 DEF CallSound
    <2>7. LocksHold(p)'
        <3>1. \A x \in d : lock'[x] = p
            <4> SUFFICES ASSUME NEW x \in d PROVE lock'[x] = p
                OBVIOUS
            <4>1. CASE x = h /\ live[h] # None
                BY <1>1, <2>0, <4>1
            <4>2. CASE x \in call[p].doomed /\ x # h
                BY <1>1, <2>0, <2>1, <2>6, <4>2 DEF LocksHold, Sweeping
            <4>3. CASE x \in call[p].doomed /\ x = h
                BY <2>0, <2>6, <4>3, PostgresAssumption DEF LocksHold, Sweeping
            <4> QED
                BY <2>3, <4>1, <4>2, <4>3
        <3> QED
            BY <2>0, <2>5, <2>6, <3>1 DEF LocksHold, Sweeping
    <2>8. Covered(p)'
        <3>1. m.pc = "sweeping" /\ m.targets \subseteq minted'
            BY <1>0, <2>0, <2>3, <2>5, <2>6 DEF Covered, Sweeping
        <3>2. ASSUME m.sweep.kind = "family"
              PROVE  /\ m.sweep.of \in families'
                     /\ \/ m.skipped
                        \/ \E k \in m.targets : live'[k] = None
                        \/ LiveOf(call[p].sweep.of)' \subseteq m.targets \cup m.doomed
            <4>0. LiveOf(call[p].sweep.of)' = LiveOf(call[p].sweep.of)
                BY <1>0, <2>5, <2>6 DEF LiveOf
            <4>1. /\ call[p].sweep.of \in families
                  /\ \/ call[p].skipped
                     \/ \E k \in call[p].targets : live[k] = None
                     \/ LiveOf(call[p].sweep.of) \subseteq call[p].targets \cup call[p].doomed
                BY <2>0, <2>5, <2>6, <3>2 DEF Covered, Sweeping
            <4>2. CASE live[h] = None
                BY <1>0, <2>4, <2>5, <3>2, <4>1, <4>2
            <4>3. CASE live[h] # None
                <5>1. CASE call[p].skipped
                    BY <1>0, <2>4, <2>5, <4>1, <5>1
                <5>2. CASE \E k \in call[p].targets : live[k] = None
                    BY <1>0, <2>3, <2>5, <4>1, <4>3, <5>2
                <5>3. CASE LiveOf(call[p].sweep.of) \subseteq call[p].targets \cup call[p].doomed
                    BY <1>0, <2>3, <2>5, <4>0, <4>1, <4>3, <5>3
                <5> QED
                    BY <4>1, <5>1, <5>2, <5>3
            <4> QED
                BY <4>2, <4>3
        <3> QED
            BY <2>6, <3>1, <3>2 DEF Covered
    <2>9. /\ lock' \in [Hash -> Call \cup {None}]
          /\ \A q \in Call \ {p}, k \in Hash : lock[k] = q => lock'[k] = q
        BY <1>1, <2>0, PostgresAssumption
    <2> QED
        BY <1>2, <2>0, <2>5, <2>7, <2>8, <2>9 DEF Sweeping
<1>5. ASSUME SweepRecords(p) PROVE PostgresIInv'
    <2> DEFINE rs == {h \in Hash : Matches(retired[h], call[p].sweep)}
               m == [call[p] EXCEPT !.pc = "swept", !.records = rs]
    <2>0. /\ call[p].pc = "sweeping" /\ call[p].targets = {} /\ lock' = lock
          /\ call' = [call EXCEPT ![p] = m]
        BY <1>1, <1>5 DEF SweepRecords
    <2>1. call[p] \in CallRecord /\ rs \in SUBSET Hash
        BY <1>1
    <2> HIDE DEF rs
    <2>2. /\ m \in CallRecord /\ m.pc = "swept" /\ m.sweep = call[p].sweep
          /\ m.targets = call[p].targets /\ m.doomed = call[p].doomed /\ m.skipped = call[p].skipped
        BY ZenonT(60), <2>1 DEF CallRecord
    <2> HIDE DEF m
    <2>3. call'[p] = m /\ LocksHold(p) /\ Covered(p)
        BY <1>1, <2>0 DEF CallSound
    <2>4. LocksHold(p)'
        BY <2>0, <2>2, <2>3 DEF LocksHold, Sweeping
    <2>5. Covered(p)'
        BY <1>0, <2>0, <2>2, <2>3 DEF Covered, Sweeping, LiveOf
    <2> QED
        BY <1>1, <1>2, <2>0, <2>2, <2>4, <2>5 DEF Sweeping
<1> QED
    BY <1>1, <1>3, <1>4, <1>5

\* RollBack: dropping a transaction releases its locks and changes no table.
LEMMA StepRollBack == ASSUME PostgresIInv, NEW p \in Call, RollBack(p) PROVE PostgresIInv'
<1>1. /\ UNCHANGED <<portVars, revoked>> /\ call' = [call EXCEPT ![p] = Done]
      /\ lock \in [Hash -> Call \cup {None}]
      /\ lock' = [h \in Hash |-> IF lock[h] = p THEN None ELSE lock[h]]
    BY DEF RollBack, Unlock, PostgresIInv
<1>2. /\ lock' \in [Hash -> Call \cup {None}]
      /\ \A q \in Call \ {p}, h \in Hash : lock[h] = q => lock'[h] = q
    BY <1>1
<1> QED
    BY <1>1, <1>2, DoneSound, StepReading

-----------------------------------------------------------------------------
\* A step that changes the tables: rows locked by a call that goes on are left alone,
\* new rows have new hashes, and a new generation of a family a sweep is about
\* replaces one the sweep does not hold.
LEMMA StepVisible ==
    ASSUME PostgresIInv, Tables', RevokedStaysDead',
           minted \subseteq minted', families \subseteq families',
           \A h \in minted : live'[h] = None \/ live'[h] = live[h],
           \A q \in Call : call'[q] = call[q] \/ call'[q] = Done,
           call' \in [Call -> CallRecord],
           lock' \in [Hash -> Call \cup {None}],
           \A q \in Call : call'[q].pc \in Rotating =>
               /\ call[q].fresh \notin minted'
               /\ MovesLegacy(call[q]) => call[q].family \notin families',
           \A q \in Call, h \in Hash : call'[q].pc # "done" /\ lock[h] = q =>
               lock'[h] = q /\ (live[h] # None => live'[h] = live[h]),
           \A q \in Call, f \in families, h \in Hash :
               call'[q].pc # "done" /\ live'[h] # None /\ live'[h].family_id = f =>
                   \/ h \in LiveOf(f)
                   \/ \E k \in LiveOf(f) : live'[k] = None /\ lock[k] # q
    PROVE  PostgresIInv'
<1>0. minted \subseteq Hash /\ call \in [Call -> CallRecord]
    BY DEF PostgresIInv, Tables
<1>1. ASSUME NEW q \in Call PROVE CallSound(q)'
    <2>1. CASE call'[q] = Done
        BY <2>1, DoneSound DEF CallSound, RotationFits, LocksHold, Covered, ReadsFit, Rotating, Sweeping
    <2>2. CASE call'[q] = call[q] /\ call[q].pc # "done"
        <3>0. /\ RotationFits(call[q]) /\ LocksHold(q) /\ Covered(q) /\ ReadsFit(q)
              /\ call[q] \in CallRecord
            BY <1>0 DEF PostgresIInv, CallSound
        <3>d. call[q].doomed \subseteq Hash
            BY <3>0 DEF CallRecord
        <3>1. RotationFits(call[q])'
            <4>1. call[q].pc \in Rotating =>
                      /\ call[q].hash \in minted /\ call[q].hash \in minted'
                      /\ live'[call[q].hash] = None \/ live'[call[q].hash] = live[call[q].hash]
                BY <3>0 DEF RotationFits
            <4> QED
                BY <2>2, <3>0, <4>1 DEF RotationFits, MovesLegacy
        <3>2. LocksHold(q)'
            <4>1. call[q].pc \in {"deleted", "commit"} => call[q].hash \in Hash
                BY <1>0, <3>0 DEF RotationFits, Rotating
            <4> QED
                BY <2>2, <3>0, <3>d, <4>1 DEF LocksHold, Sweeping
        <3>3. Covered(q)'
            <4> SUFFICES ASSUME call[q].pc \in Sweeping
                         PROVE  Covered(q)'
                BY <2>2 DEF Covered
            <4>1. /\ call[q].targets \subseteq minted'
                  /\ call[q].pc = "swept" => call[q].targets = {}
                BY <3>0 DEF Covered
            <4>2. ASSUME call[q].sweep.kind = "family"
                  PROVE  /\ call[q].sweep.of \in families'
                         /\ \/ call[q].skipped
                            \/ \E h \in call[q].targets : live'[h] = None
                            \/ LiveOf(call[q].sweep.of)' \subseteq call[q].targets \cup call[q].doomed
                <5> DEFINE f == call[q].sweep.of
                <5>0. /\ f \in families
                      /\ \/ call[q].skipped
                         \/ \E h \in call[q].targets : live[h] = None
                         \/ LiveOf(f) \subseteq call[q].targets \cup call[q].doomed
                      /\ call[q].targets \subseteq minted
                    BY <3>0, <4>2 DEF Covered
                <5>1. CASE call[q].skipped
                    BY <5>0, <5>1
                <5>2. CASE \E h \in call[q].targets : live[h] = None
                    BY <5>0, <5>2
                <5>3. CASE LiveOf(f) \subseteq call[q].targets \cup call[q].doomed
                    <6>1. CASE LiveOf(f)' \subseteq LiveOf(f)
                        BY <2>2, <5>0, <5>3, <6>1
                    <6>2. CASE ~(LiveOf(f)' \subseteq LiveOf(f))
                        <7>1. PICK h \in Hash : live'[h] # None /\ live'[h].family_id = f
                                                /\ h \notin LiveOf(f)
                            BY <2>2, <6>2 DEF LiveOf
                        <7>2. PICK k \in LiveOf(f) : live'[k] = None /\ lock[k] # q
                            BY <2>2, <5>0, <7>1
                        <7>3. k \notin call[q].doomed
                            BY <3>0, <7>2 DEF LocksHold, Sweeping
                        <7> QED
                            BY <5>0, <5>3, <7>2, <7>3
                    <6> QED
                        BY <6>1, <6>2
                <5> QED
                    BY <5>0, <5>1, <5>2, <5>3
            <4> QED
                BY <2>2, <4>1, <4>2 DEF Covered
        <3>4. ReadsFit(q)'
            BY <2>2, <3>0 DEF ReadsFit
        <3> QED
            BY <3>1, <3>2, <3>3, <3>4 DEF CallSound
    <2>3. CASE call'[q] = call[q] /\ call[q].pc = "done"
        <3>1. LocksHold(q)
            BY DEF PostgresIInv, CallSound
        <3>2. call[q].doomed = {}
            BY <2>3, <3>1 DEF LocksHold, Sweeping
        <3> QED
            BY <2>3, <3>2 DEF CallSound, RotationFits, LocksHold, Covered, ReadsFit, Rotating, Sweeping
    <2> QED
        BY <2>1, <2>2, <2>3
<1>2. RotationsDiffer'
    <2> SUFFICES ASSUME NEW q \in Call, NEW r \in Call, q # r,
                        call'[q].pc \in Rotating, call'[r].pc \in Rotating
                 PROVE  /\ call'[q].fresh # call'[r].fresh
                        /\ MovesLegacy(call[q])' => call'[q].family # call'[r].family
        BY DEF RotationsDiffer
    <2>1. call'[q] = call[q] /\ call'[r] = call[r]
        BY DoneSound DEF Rotating
    <2>2. call[q].hash \in minted
        BY <2>1 DEF PostgresIInv, CallSound, RotationFits
    <2>3. MovesLegacy(call[q])' => MovesLegacy(call[q])
        BY <2>1, <2>2 DEF MovesLegacy
    <2> QED
        BY <2>1, <2>3 DEF PostgresIInv, RotationsDiffer
<1> QED
    BY <1>1, <1>2 DEF PostgresIInv

\* A new row has a new hash and a new family: no sweep and no revocation knows it.
LEMMA StepStore ==
    ASSUME PostgresIInv, NEW h \in FreshHash, NEW f \in FreshFamily, NEW u \in User,
           store_refresh_token_postgres(h, f, u)
    PROVE  PostgresIInv'
<1> DEFINE s == [user_id |-> u, family_id |-> f, generation |-> 0, expires_at |-> now + Ttl]
<1>0. /\ live' = [live EXCEPT ![h] = s] /\ minted' = minted \cup {h}
      /\ families' = families \cup {f} /\ retired' = retired /\ now' = now
      /\ call' = call /\ lock' = lock /\ revoked' = revoked
    BY DEF store_refresh_token_postgres, store_refresh_token
<1>1. /\ Tables /\ RevokedStaysDead /\ call \in [Call -> CallRecord]
      /\ lock \in [Hash -> Call \cup {None}]
      /\ h \in Hash \ minted /\ f \in Family \ families
      /\ \A q \in Call : call[q].fresh # h /\ call[q].family # f
    BY DEF PostgresIInv, FreshHash, FreshFamily
<1>2. s \in Session /\ s.family_id = f /\ s # None /\ f # NoFamily
    BY <1>1, PortAssumption DEF Session, Tables
<1> HIDE DEF s
<1>3. \A k \in Hash : live'[k] = IF k = h THEN s ELSE live[k]
    BY <1>0, <1>1 DEF Tables
<1>4. Tables'
    <2>1. live' \in [Hash -> Session \cup {None}]
        BY <1>0, <1>1, <1>2 DEF Tables
    <2>2. SingleLiveGeneration'
        BY <1>1, <1>2, <1>3 DEF Tables, SingleLiveGeneration
    <2>3. \A k \in Hash : live'[k] # None =>
              k \in minted' /\ live'[k].family_id \in families' \cup {NoFamily}
        BY <1>0, <1>1, <1>2, <1>3 DEF Tables
    <2> QED
        BY <1>0, <1>1, <2>1, <2>2, <2>3 DEF Tables
<1>5. RevokedStaysDead'
    BY <1>0, <1>1, <1>2, <1>3 DEF RevokedStaysDead, LiveOf
<1>6. \A q \in Call : call[q].pc \in Rotating =>
          /\ call[q].fresh \notin minted'
          /\ MovesLegacy(call[q]) => call[q].family \notin families'
    BY <1>0, <1>1 DEF PostgresIInv, CallSound, RotationFits
<1>7. \A q \in Call, k \in Hash : lock[k] = q /\ live[k] # None => live'[k] = live[k]
    BY <1>1, <1>3 DEF Tables
<1>8. \A g \in families, k \in Hash : live'[k] # None /\ live'[k].family_id = g => k \in LiveOf(g)
    BY <1>1, <1>2, <1>3 DEF LiveOf
<1>9. \A k \in minted : live'[k] = live[k]
    BY <1>1, <1>3 DEF Tables
<1> QED
    BY <1>0, <1>1, <1>4, <1>5, <1>6, <1>7, <1>8, <1>9, StepVisible

\* Rows leave: those of gone, of which no call that goes on has locked any.
LEMMA StepGone ==
    ASSUME PostgresIInv, NEW gone \in SUBSET Hash,
           live' = [h \in Hash |-> IF h \in gone THEN None ELSE live[h]],
           retired' \in [Hash -> RetiredRefreshToken \cup {None}],
           minted' = minted, families' = families, now' = now,
           RevokedStaysDead',
           \A q \in Call : call'[q] = call[q] \/ call'[q] = Done,
           call' \in [Call -> CallRecord],
           lock' \in [Hash -> Call \cup {None}],
           \A q \in Call, h \in Hash : call'[q].pc # "done" /\ lock[h] = q =>
               lock'[h] = q /\ h \notin gone
    PROVE  PostgresIInv'
<1>0. Tables /\ live \in [Hash -> Session \cup {None}]
    BY DEF PostgresIInv, Tables
<1>1. \A h \in Hash : live'[h] = None \/ live'[h] = live[h]
    OBVIOUS
<1>2. Tables'
    <2>1. live' \in [Hash -> Session \cup {None}]
        BY <1>0
    <2>2. SingleLiveGeneration'
        BY <1>0, <1>1 DEF Tables, SingleLiveGeneration
    <2> QED
        BY <1>0, <1>1, <2>1, <2>2 DEF Tables
<1>3. \A q \in Call : call'[q].pc \in Rotating =>
          /\ call[q].fresh \notin minted
          /\ MovesLegacy(call[q]) => call[q].family \notin families
    BY DoneSound DEF PostgresIInv, CallSound, RotationFits, Rotating
<1>4. \A f \in families, h \in Hash : live'[h] # None /\ live'[h].family_id = f => h \in LiveOf(f)
    BY <1>1 DEF LiveOf
<1>5. \A q \in Call, h \in Hash : call'[q].pc # "done" /\ lock[h] = q => live'[h] = live[h]
    OBVIOUS
<1>6. \A h \in minted : live'[h] = None \/ live'[h] = live[h]
    BY <1>0, <1>1 DEF Tables
<1> QED
    BY <1>2, <1>3, <1>4, <1>5, <1>6, StepVisible

\* revoke_session: one statement, waiting for the lock of its row.
LEMMA StepRevokeSession ==
    ASSUME PostgresIInv, NEW h \in Hash, revoke_session_postgres(h)
    PROVE  PostgresIInv'
<1>0. /\ live' = [live EXCEPT ![h] = None] /\ lock[h] = None
      /\ retired' = retired /\ minted' = minted /\ families' = families /\ now' = now
      /\ call' = call /\ lock' = lock /\ revoked' = revoked
    BY DEF revoke_session_postgres, revoke_session
<1>1. /\ Tables /\ RevokedStaysDead /\ call \in [Call -> CallRecord]
      /\ lock \in [Hash -> Call \cup {None}] /\ live \in [Hash -> Session \cup {None}]
      /\ retired \in [Hash -> RetiredRefreshToken \cup {None}]
    BY DEF PostgresIInv, Tables
<1> DEFINE gone == {h}
<1>2. gone \in SUBSET Hash /\ live' = [k \in Hash |-> IF k \in gone THEN None ELSE live[k]]
    BY <1>0, <1>1
<1>3. RevokedStaysDead'
    BY <1>0, <1>1 DEF RevokedStaysDead, LiveOf
<1>4. \A q \in Call, k \in Hash : call'[q].pc # "done" /\ lock[k] = q => lock'[k] = q /\ k \notin gone
    BY <1>0, PostgresAssumption
<1>5. /\ \A q \in Call : call'[q] = call[q] \/ call'[q] = Done
      /\ call' \in [Call -> CallRecord]
      /\ lock' \in [Hash -> Call \cup {None}]
      /\ retired' \in [Hash -> RetiredRefreshToken \cup {None}]
      /\ minted' = minted /\ families' = families /\ now' = now
    BY <1>0, <1>1
<1> HIDE DEF gone
<1> QED
    BY <1>2, <1>3, <1>4, <1>5, StepGone

\* The commit of a sweep: it held the locks of all it deletes, and a revocation that
\* skipped nothing leaves no generation of its family.
LEMMA StepSweepCommit ==
    ASSUME PostgresIInv, NEW p \in Call, SweepCommit(p)
    PROVE  PostgresIInv'
<1> DEFINE c == call[p]
<1>0. /\ c.pc = "swept"
      /\ live' = [h \in Hash |-> IF h \in c.doomed THEN None ELSE live[h]]
      /\ retired' = [h \in Hash |-> IF h \in c.records THEN None ELSE retired[h]]
      /\ revoked' = IF c.sweep.kind = "family" /\ ~c.skipped THEN revoked \cup {c.sweep.of}
                    ELSE revoked
      /\ call' = [call EXCEPT ![p] = Done]
      /\ lock' = [h \in Hash |-> IF lock[h] = p THEN None ELSE lock[h]]
      /\ minted' = minted /\ families' = families /\ now' = now
    BY DEF SweepCommit, Unlock
<1>1. /\ Tables /\ RevokedStaysDead /\ call \in [Call -> CallRecord] /\ LocksHold(p) /\ Covered(p)
      /\ lock \in [Hash -> Call \cup {None}] /\ live \in [Hash -> Session \cup {None}]
      /\ retired \in [Hash -> RetiredRefreshToken \cup {None}]
    BY DEF PostgresIInv, Tables, CallSound
<1>2. call[p] \in CallRecord
    BY <1>1
<1>3. c.doomed \in SUBSET Hash
    BY <1>2 DEF CallRecord
<1>4. /\ lock' \in [Hash -> Call \cup {None}] /\ call' \in [Call -> CallRecord]
      /\ retired' \in [Hash -> RetiredRefreshToken \cup {None}]
      /\ \A q \in Call : call'[q] = call[q] \/ call'[q] = Done
      /\ \A q \in Call : call'[q].pc # "done" => q # p
    BY <1>0, <1>1, DoneSound
<1>5. \A f \in revoked' : f \in families /\ LiveOf(f) \subseteq c.doomed
    <2>1. \A f \in revoked : f \in families /\ LiveOf(f) = {}
        BY <1>1 DEF RevokedStaysDead
    <2>2. c.sweep.kind = "family" /\ ~c.skipped =>
              c.sweep.of \in families /\ LiveOf(c.sweep.of) \subseteq c.doomed
        BY <1>0, <1>1 DEF Covered, Sweeping
    <2> QED
        BY <1>0, <2>1, <2>2
<1>6. RevokedStaysDead'
    <2> SUFFICES ASSUME NEW f \in revoked' PROVE f \in families' /\ LiveOf(f)' = {}
        BY DEF RevokedStaysDead
    <2> QED
        BY <1>0, <1>5 DEF LiveOf
<1>7. \A q \in Call, h \in Hash : call'[q].pc # "done" /\ lock[h] = q =>
          lock'[h] = q /\ h \notin c.doomed
    BY <1>0, <1>1, <1>4 DEF LocksHold
<1> QED
    BY <1>0, <1>3, <1>4, <1>6, <1>7, StepGone

\* The commit of a rotation: its row was there and its own to remove, so the new
\* generation is the family's only one, and the family is not a revoked one.
LEMMA StepRotateCommit ==
    ASSUME PostgresIInv, NEW p \in Call, RotateCommit(p)
    PROVE  PostgresIInv'
<1> DEFINE c == call[p]
<1>0. /\ c.pc = "commit"
      /\ live' = [live EXCEPT ![c.hash] = None, ![c.fresh] = c.row]
      /\ retired' = IF c.rec = None THEN retired ELSE [retired EXCEPT ![c.hash] = c.rec]
      /\ minted' = minted \cup {c.fresh} /\ families' = families \cup {c.row.family_id}
      /\ now' = now /\ revoked' = revoked /\ call' = [call EXCEPT ![p] = Done]
      /\ lock' = [h \in Hash |-> IF lock[h] = p THEN None ELSE lock[h]]
    BY DEF RotateCommit, Unlock
<1>1. /\ Tables /\ RevokedStaysDead /\ call \in [Call -> CallRecord] /\ RotationsDiffer
      /\ lock \in [Hash -> Call \cup {None}] /\ live \in [Hash -> Session \cup {None}]
      /\ retired \in [Hash -> RetiredRefreshToken \cup {None}] /\ minted \subseteq Hash
      /\ RotationFits(c) /\ LocksHold(p)
    BY DEF PostgresIInv, Tables, CallSound
<1>2. /\ c.hash \in minted /\ c.fresh \in Hash \ minted /\ c.row \in Session
      /\ c.family = c.row.family_id /\ c.family \in Family
      /\ live[c.hash] # None /\ lock[c.hash] = p
      /\ live[c.hash].family_id # NoFamily => c.family = live[c.hash].family_id
      /\ live[c.hash].family_id = NoFamily => c.family \notin families
    BY <1>0, <1>1 DEF RotationFits, LocksHold, MovesLegacy, Rotating
<1>3. /\ c.row # None /\ c.family # NoFamily /\ c.hash # c.fresh /\ c.hash \in Hash
    BY <1>1, <1>2, PortAssumption
<1>4. \A h \in Hash : live'[h] = IF h = c.fresh THEN c.row
                                 ELSE IF h = c.hash THEN None ELSE live[h]
    BY <1>0, <1>1, <1>2, <1>3
<1>5. retired' \in [Hash -> RetiredRefreshToken \cup {None}]
    <2>1. call[p] \in CallRecord
        BY <1>1
    <2>2. c.rec \in RetiredRefreshToken \cup {None}
        BY <2>1 DEF CallRecord
    <2> QED
        BY <1>0, <1>1, <2>2
<1>6. \A h \in Hash \ {c.hash} : live[h] # None => live[h].family_id # c.family
    BY <1>1, <1>2, <1>3 DEF Tables, SingleLiveGeneration
<1>7. Tables'
    <2>1. live' \in [Hash -> Session \cup {None}]
        BY <1>0, <1>1, <1>2
    <2>2. SingleLiveGeneration'
        BY <1>1, <1>2, <1>4, <1>6 DEF Tables, SingleLiveGeneration
    <2>3. \A h \in Hash : live'[h] # None =>
              h \in minted' /\ live'[h].family_id \in families' \cup {NoFamily}
        BY <1>0, <1>1, <1>2, <1>4 DEF Tables
    <2> QED
        BY <1>0, <1>1, <1>2, <1>5, <2>1, <2>2, <2>3 DEF Tables
<1>8. RevokedStaysDead'
    <2>1. \A f \in revoked : f \in families /\ LiveOf(f) = {} /\ f # c.family
        BY <1>1, <1>2, <1>3 DEF RevokedStaysDead, LiveOf
    <2>2. \A f \in revoked, h \in Hash : live'[h] # None => live'[h].family_id # f
        BY <1>2, <1>4, <2>1 DEF LiveOf
    <2> QED
        BY <1>0, <2>1, <2>2 DEF RevokedStaysDead, LiveOf
<1>9. /\ lock' \in [Hash -> Call \cup {None}] /\ call' \in [Call -> CallRecord]
      /\ \A q \in Call : call'[q] = call[q] \/ call'[q] = Done
      /\ \A q \in Call : call'[q].pc # "done" => q # p /\ call'[q] = call[q]
    BY <1>0, <1>1, DoneSound
<1>10. ASSUME NEW q \in Call, call'[q].pc \in Rotating
       PROVE  /\ call[q].fresh \notin minted'
              /\ MovesLegacy(call[q]) => call[q].family \notin families'
    <2>1. q # p /\ call[q].pc \in Rotating /\ c.pc \in Rotating
        BY <1>0, <1>9, <1>10 DEF Rotating
    <2>2. /\ call[q].fresh \notin minted
          /\ MovesLegacy(call[q]) => call[q].family \notin families
        BY <2>1 DEF PostgresIInv, CallSound, RotationFits
    <2> QED
        BY <1>0, <1>1, <1>2, <2>1, <2>2 DEF RotationsDiffer
<1>11. \A q \in Call, h \in Hash : call'[q].pc # "done" /\ lock[h] = q =>
           lock'[h] = q /\ (live[h] # None => live'[h] = live[h])
    <2> SUFFICES ASSUME NEW q \in Call, NEW h \in Hash, call'[q].pc # "done", lock[h] = q
                 PROVE  lock'[h] = q /\ (live[h] # None => live'[h] = live[h])
        OBVIOUS
    <2>1. q # p /\ h # c.hash
        BY <1>2, <1>9
    <2>2. live[h] # None => h # c.fresh
        BY <1>1, <1>2 DEF Tables
    <2> QED
        BY <1>0, <1>4, <2>1, <2>2
<1>12. ASSUME NEW q \in Call, NEW f \in families, NEW h \in Hash, call'[q].pc # "done",
              live'[h] # None, live'[h].family_id = f
       PROVE  \/ h \in LiveOf(f)
              \/ \E k \in LiveOf(f) : live'[k] = None /\ lock[k] # q
    <2>1. CASE h # c.fresh
        BY <1>4, <1>12, <2>1 DEF LiveOf
    <2>2. CASE h = c.fresh
        <3>1. c.family = f /\ live[c.hash].family_id = f
            BY <1>2, <1>4, <1>12, <2>2
        <3>2. c.hash \in LiveOf(f) /\ live'[c.hash] = None /\ lock[c.hash] # q
            BY <1>2, <1>3, <1>4, <1>9, <1>12, <3>1 DEF LiveOf
        <3> QED
            BY <3>2
    <2> QED
        BY <2>1, <2>2
<1>13. minted \subseteq minted' /\ families \subseteq families'
       /\ \A h \in minted : live'[h] = None \/ live'[h] = live[h]
    BY <1>0, <1>1, <1>2, <1>4
<1> QED
    BY <1>7, <1>8, <1>9, <1>10, <1>11, <1>12, <1>13, StepVisible

\* The clock: no table changes.
LEMMA StepTick == ASSUME PostgresIInv, Tick, UNCHANGED <<call, lock, revoked>> PROVE PostgresIInv'
<1>1. now \in Nat /\ now' = now + 1 /\ UNCHANGED <<live, retired, minted, families>>
    BY DEF Tick, PostgresIInv, Tables
<1>2. Tables'
    BY <1>1 DEF PostgresIInv, Tables, SingleLiveGeneration
<1>3. RevokedStaysDead' /\ RotationsDiffer'
    BY <1>1 DEF PostgresIInv, RevokedStaysDead, LiveOf, RotationsDiffer, MovesLegacy
<1>4. ASSUME NEW q \in Call PROVE CallSound(q)'
    <2>1. CallSound(q)
        BY DEF PostgresIInv
    <2> QED
        BY <1>1, <2>1 DEF CallSound, RotationFits, MovesLegacy, LocksHold, Covered, LiveOf, ReadsFit
<1> QED
    BY <1>2, <1>3, <1>4 DEF PostgresIInv

\* Every step of the adapter keeps the inductive invariant.
LEMMA StepPostgres == PostgresIInv /\ [PostgresNext]_postgresVars => PostgresIInv'
<1> SUFFICES ASSUME PostgresIInv, [PostgresNext]_postgresVars PROVE PostgresIInv'
    OBVIOUS
<1>1. ASSUME NEW p \in Call, CallStep(p) \/ NewCall(p) \/ RollBack(p) PROVE PostgresIInv'
    <2>1. CASE \/ \E h \in minted : ReadPresented(p, h)
               \/ get_retired_record(p) \/ ReadSuccessor(p)
        BY <2>1, StepReads
    <2>2. CASE \E h \in Hash, h2 \in FreshHash, f \in Family : CallRotate(p, h, h2, f)
        BY <2>2, StepCallRotate
    <2>3. CASE RotateSelect(p) \/ RotateDelete(p) \/ RotateInsert(p)
        BY <2>3, StepRotating
    <2>4. CASE \/ \E f \in families : SweepSessions(p, [kind |-> "family", of |-> f])
               \/ \E u \in User : SweepSessions(p, [kind |-> "user", of |-> u])
               \/ SweepSessions(p, [kind |-> "expired", of |-> now])
               \/ \E h \in Hash : SweepRow(p, h)
               \/ SweepRecords(p)
        BY <2>4, StepSweeping
    <2>5. CASE RollBack(p) \/ RotateCommit(p) \/ SweepCommit(p)
        BY <2>5, StepRollBack, StepRotateCommit, StepSweepCommit
    <2> QED
        BY <1>1, <2>1, <2>2, <2>3, <2>4, <2>5 DEF CallStep, NewCall
<1>2. CASE UNCHANGED postgresVars
    <2>1. UNCHANGED <<live, retired, now, minted, families, call, lock, revoked>>
        BY <1>2 DEF postgresVars, portVars
    <2>2. Tables'
        BY <2>1 DEF PostgresIInv, Tables, SingleLiveGeneration
    <2>3. RevokedStaysDead' /\ RotationsDiffer'
        BY <2>1 DEF PostgresIInv, RevokedStaysDead, LiveOf, RotationsDiffer, MovesLegacy
    <2>4. ASSUME NEW q \in Call PROVE CallSound(q)'
        <3>1. CallSound(q)
            BY DEF PostgresIInv
        <3> QED
            BY <2>1, <3>1 DEF CallSound, RotationFits, MovesLegacy, LocksHold, Covered, LiveOf, ReadsFit
    <2> QED
        BY <2>1, <2>2, <2>3, <2>4 DEF PostgresIInv
<1> QED
    BY <1>1, <1>2, StepStore, StepRevokeSession, StepTick DEF PostgresNext

\* The invariant holds in every state the adapter can reach.
THEOREM PostgresInvariant == PostgresSpec => []PostgresIInv
BY InitPostgres, StepPostgres, PTL DEF PostgresSpec

\* SR2 and SR3: the two statements before a rotation's writes leave no gap, for any
\* number of rotations, revocations and sweeps of the same row.
THEOREM PostgresRotationOwnsItsRow == PostgresSpec => []RotationOwnsItsRow
<1>1. PostgresIInv => RotationOwnsItsRow
    BY DEF PostgresIInv, CallSound, LocksHold, RotationOwnsItsRow
<1> QED
    BY <1>1, PostgresInvariant, PTL

\* SR5 for one family: a revocation that deleted every row it had seen is final.
THEOREM PostgresRevokedFamilyIsDead == PostgresSpec => []RevokedFamilyIsDead
<1>1. PostgresIInv => RevokedFamilyIsDead
    BY DEF PostgresIInv, RevokedStaysDead, RevokedFamilyIsDead
<1> QED
    BY <1>1, PostgresInvariant, PTL

\* SR3 as an operator sees it: a listing shows one generation of each family, and the
\* count is what the listings show together.
THEOREM PostgresListingHasOneGeneration == PostgresSpec => []ListingHasOneGeneration
<1>1. ASSUME Tables PROVE ListingHasOneGeneration
    <2>1. \A u \in User : \A h, k \in list_live_sessions_postgres(u) :
              live[h].family_id = live[k].family_id /\ live[h].family_id # NoFamily => h = k
        BY <1>1 DEF Tables, SingleLiveGeneration, list_live_sessions_postgres,
            get_session_by_refresh_token
    <2>2. {h \in Hash : live[h] # None /\ live[h].expires_at > now}
          = UNION {list_live_sessions_postgres(u) : u \in User}
        <3>1. \A h \in Hash : live[h] # None => live[h].user_id \in User
            BY <1>1 DEF Tables, Session
        <3> QED
            BY <3>1 DEF list_live_sessions_postgres, get_session_by_refresh_token
    <2> QED
        BY <2>1, <2>2 DEF ListingHasOneGeneration, count_active_sessions
<1>2. PostgresIInv => ListingHasOneGeneration
    BY <1>1 DEF PostgresIInv
<1> QED
    BY <1>2, PostgresInvariant, PTL
=============================================================================
