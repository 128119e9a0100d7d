------------------------------ MODULE LmdbProofs -------------------------------
(***************************************************************************)
(* The LMDB store: its filings agree with its rows, it implements the      *)
(* contract of SessionPort, and its single-use records admit one claim,    *)
(* for every set of hashes, families, users and keys and every batch size. *)
(*                                                                         *)
(* The sweep is the only call that is not one transaction.  What it queued *)
(* may be rotated or revoked before its batch commits, but a hash never    *)
(* comes back: what a queued entry finds is the row it was read from, or   *)
(* the record that a rotation made of it, which is as old (Queued).        *)
(***************************************************************************)
EXTENDS LmdbSessions, TLAPS

Mark == {"live", "retired", None}

RowsTyped ==
    /\ sessions \in [Hash -> Port!Session \cup {None}]
    /\ retired_tokens \in [Hash -> Port!RetiredRefreshToken \cup {None}]
    /\ written \in [Hash -> Port!RetiredRefreshToken \cup {None}]
    /\ family_index \in [Family \X Hash -> Mark]
    /\ minted \subseteq Hash /\ families \subseteq Family /\ now \in Nat
    /\ DOMAIN sweep = {"pc", "at", "queue", "width", "halvings", "keys"}

\* What is stored was minted; what was retired stays retired, and its record is kept as
\* it was written.
Minted(h) ==
    /\ sessions[h] # None => h \in minted
    /\ written[h] # None => h \in minted /\ sessions[h] = None
    /\ retired_tokens[h] # None => retired_tokens[h] = written[h]

\* The parts of FilingsAgree.
OwnersFiled ==
    user_sessions = {<<sessions[h].user_id, h>> : h \in {k \in Hash : sessions[k] # None}}
FamilyFiled(f, h) ==
    /\ family_index[<<f, h>>] = "live" <=> sessions[h] # None /\ sessions[h].family_id = f
    /\ family_index[<<f, h>>] = "retired" =>
          retired_tokens[h] # None /\ retired_tokens[h].family_id = f
UnfiledIsExpired(h) ==
    retired_tokens[h] # None /\ ~Filed(h) => retired_tokens[h].expires_at <= now

\* An entry names a minted hash, with the user and family of what is stored under it.
Names(e) ==
    /\ e.kind \in {"Live", "Retired"} /\ e.hash \in minted
    /\ e.kind = "Live" /\ sessions[e.hash] # None =>
          sessions[e.hash].user_id = e.user_id /\ sessions[e.hash].family_id = e.family_id
    /\ written[e.hash] # None => written[e.hash].family_id = e.family_id
    /\ e.kind = "Retired" => written[e.hash] # None

\* What is stored under an entry of the sweep is past its deadline.
Queued(e) ==
    /\ Names(e)
    /\ sessions[e.hash] # None => sessions[e.hash].expires_at <= now
    /\ written[e.hash] # None => written[e.hash].expires_at <= now

RowsInv ==
    /\ RowsTyped
    /\ \A h \in Hash : Minted(h) /\ UnfiledIsExpired(h)
    /\ OwnersFiled
    /\ \A f \in Family, h \in Hash : FamilyFiled(f, h)
    /\ \A e \in sweep.queue : Queued(e)

-----------------------------------------------------------------------------
\* The initial store has the legacy rows and nothing else.
LEMMA InitRows == LmdbInit => RowsInv /\ Port!PortInit
<1> SUFFICES ASSUME LmdbInit PROVE RowsInv /\ Port!PortInit
    OBVIOUS
<1>1. \A h \in Hash : sessions[h] # None =>
          sessions[h] \in Port!Session /\ sessions[h].family_id = NoFamily /\ h \in Legacy
    BY LmdbAssumption DEF LmdbInit, Port!LegacyRow, Port!Session
<1>2. RowsTyped
    BY <1>1, LmdbAssumption DEF LmdbInit, RowsTyped, Mark, Idle
<1>3. \A h \in Hash : Minted(h) /\ UnfiledIsExpired(h)
    BY <1>1 DEF LmdbInit, Minted, UnfiledIsExpired
<1>4. OwnersFiled
    BY LmdbAssumption DEF LmdbInit, OwnersFiled
<1>5. \A f \in Family, h \in Hash : FamilyFiled(f, h)
    BY <1>1, LmdbAssumption DEF LmdbInit, FamilyFiled
<1>6. \A e \in sweep.queue : Queued(e)
    BY DEF LmdbInit, Idle
<1>7. FiledRecords = [h \in Hash |-> None]
    BY DEF LmdbInit, FiledRecords, Filed
<1>8. Port!PortInit
    BY <1>7 DEF LmdbInit, Port!PortInit
<1> QED
    BY <1>2, <1>3, <1>4, <1>5, <1>6, <1>8 DEF RowsInv

-----------------------------------------------------------------------------
\* SignIn: a hash nobody has used is filed for its owner and its family.
LEMMA StepSignIn ==
    ASSUME RowsInv, SignIn
    PROVE  RowsInv' /\ Port!SignIn
<1>1. PICK h \in Hash \ minted, f \in Family \ families, u \in User :
          store_refresh_token(h, [user_id |-> u, family_id |-> f, generation |-> 0,
                                  expires_at |-> now + Ttl])
    BY DEF SignIn
<1> DEFINE s == [user_id |-> u, family_id |-> f, generation |-> 0, expires_at |-> now + Ttl]
<1>2. /\ s \in Port!Session /\ s # None /\ s.user_id = u /\ s.family_id = f /\ f # NoFamily
    BY LmdbAssumption DEF RowsInv, RowsTyped, Port!Session
<1> HIDE DEF s
<1>3. /\ sessions' = [sessions EXCEPT ![h] = s]
      /\ user_sessions' = user_sessions \cup {<<u, h>>}
      /\ family_index' = [family_index EXCEPT ![<<f, h>>] = "live"]
      /\ minted' = minted \cup {h} /\ families' = families \cup {f}
      /\ UNCHANGED <<retired_tokens, sweep, now, closed, written>>
    BY <1>1, <1>2 DEF store_refresh_token, install_live_entry, s
<1>4. RowsTyped /\ h \in Hash /\ h \notin minted /\ sessions[h] = None /\ written[h] = None /\ retired_tokens[h] = None
    BY DEF RowsInv, Minted
<1>5. /\ \A k \in Hash : sessions'[k] = IF k = h THEN s ELSE sessions[k]
      /\ \A g \in Family, k \in Hash :
             family_index'[<<g, k>>] = IF g = f /\ k = h THEN "live" ELSE family_index[<<g, k>>]
    BY <1>3, <1>4 DEF RowsTyped
<1>6. RowsTyped'
    BY <1>2, <1>3, <1>4 DEF RowsTyped, Mark
<1>7. \A k \in Hash : Minted(k)'
    BY <1>2, <1>3, <1>4, <1>5 DEF RowsInv, Minted
<1>8. \A k \in Hash : Filed(k)' <=> Filed(k)
    BY <1>3, <1>4, <1>5 DEF Filed, RowsTyped, Port!RetiredRefreshToken
<1>9. \A k \in Hash : UnfiledIsExpired(k)'
    BY <1>3, <1>8 DEF RowsInv, UnfiledIsExpired
<1>10. OwnersFiled'
    BY <1>2, <1>3, <1>4, <1>5 DEF RowsInv, OwnersFiled
<1>11. \A g \in Family, k \in Hash : FamilyFiled(g, k)'
    <2> SUFFICES ASSUME NEW g \in Family, NEW k \in Hash PROVE FamilyFiled(g, k)'
        OBVIOUS
    <2>1. FamilyFiled(g, k) /\ retired_tokens' = retired_tokens /\ "live" # "retired"
        BY <1>3 DEF RowsInv
    <2>2. CASE k = h
        BY <1>2, <1>4, <1>5, <2>1, <2>2 DEF FamilyFiled
    <2>3. CASE k # h
        BY <1>5, <2>1, <2>3 DEF FamilyFiled
    <2> QED
        BY <2>2, <2>3
<1>12. \A e \in sweep'.queue : Queued(e)'
    BY <1>3, <1>4, <1>5 DEF RowsInv, RowsTyped, Queued, Names
<1>13. FiledRecords' = FiledRecords
    BY <1>3, <1>8 DEF FiledRecords
<1>14. Port!store_refresh_token(h, s)
    BY <1>2, <1>3, <1>13 DEF Port!store_refresh_token
<1>15. Port!SignIn
    BY <1>1, <1>14 DEF Port!SignIn, s
<1> QED
    BY <1>6, <1>7, <1>9, <1>10, <1>11, <1>12, <1>15 DEF RowsInv

\* Redeem: the row becomes a filed record, and the entry a sweep may hold of it now
\* names a record that is no younger.
LEMMA StepRedeem ==
    ASSUME RowsInv, Redeem
    PROVE  RowsInv' /\ Port!Redeem
<1>1. PICK h \in Hash, h2 \in Hash \ minted, f \in Family :
        /\ sessions[h] # None
        /\ IF sessions[h].family_id = NoFamily THEN f \notin families
                                               ELSE f = sessions[h].family_id
        /\ rotate_refresh_token(h, h2, [user_id |-> sessions[h].user_id, family_id |-> f,
                                        generation |-> sessions[h].generation + 1,
                                        expires_at |-> sessions[h].expires_at])
    BY DEF Redeem
<1>2. PICK old \in Port!Session : old = sessions[h]
    BY <1>1 DEF RowsInv, RowsTyped
<1> DEFINE s == [user_id |-> old.user_id, family_id |-> f, generation |-> old.generation + 1,
                 expires_at |-> old.expires_at]
           rec == retirement_record(old, h2)
           legacy == old.family_id = NoFamily
<1>3. /\ RowsTyped /\ now \in Nat /\ old # None /\ h \in minted /\ h # h2
      /\ h2 \in Hash /\ h2 \notin minted
      /\ sessions[h2] = None /\ written[h2] = None /\ retired_tokens[h2] = None
      /\ written[h] = None /\ retired_tokens[h] = None
    BY <1>1, <1>2 DEF RowsInv, RowsTyped, Minted
<1>4. /\ old.expires_at \in Nat /\ old.user_id \in User /\ old.family_id \in Family \cup {NoFamily}
      /\ old.generation \in Nat
    BY DEF Port!Session
<1>5. /\ s \in Port!Session /\ s # None /\ s.user_id = old.user_id /\ s.family_id = f /\ f # NoFamily
      /\ s.expires_at = old.expires_at
    BY <1>4, LmdbAssumption DEF Port!Session
<1>6. ~legacy => /\ rec \in Port!RetiredRefreshToken /\ rec # None
                 /\ rec.family_id = old.family_id /\ rec.expires_at <= old.expires_at
    <2>1. /\ Port!retention_deadline(now, old.expires_at) \in Nat
          /\ Port!retention_deadline(now, old.expires_at) <= old.expires_at
        BY <1>3, <1>4, LmdbAssumption DEF Port!retention_deadline, Port!Earlier
    <2> QED
        BY <1>3, <1>4, <2>1, LmdbAssumption DEF retirement_record, Port!RetiredRefreshToken
<1>r. rec = [family_id |-> old.family_id, user_id |-> old.user_id, successor_hash |-> h2,
             retired_at |-> now, expires_at |-> Port!retention_deadline(now, s.expires_at)]
    BY <1>5 DEF retirement_record
<1> HIDE DEF s, rec
<1>7. /\ sessions' = [[sessions EXCEPT ![h] = None] EXCEPT ![h2] = s]
      /\ retired_tokens' = IF legacy THEN retired_tokens ELSE [retired_tokens EXCEPT ![h] = rec]
      /\ written' = IF legacy THEN written ELSE [written EXCEPT ![h] = rec]
      /\ user_sessions' = (user_sessions \ {<<old.user_id, h>>}) \cup {<<old.user_id, h2>>}
      /\ family_index' = [(IF legacy THEN family_index
                           ELSE [family_index EXCEPT ![<<old.family_id, h>>] = "retired"])
                              EXCEPT ![<<f, h2>>] = "live"]
      /\ minted' = minted \cup {h2} /\ families' = families \cup {f}
      /\ UNCHANGED <<sweep, now, closed>>
    BY <1>1, <1>2, <1>5 DEF rotate_refresh_token, install_live_entry, s, rec
<1>8. /\ \A k \in Hash : sessions'[k] = IF k = h2 THEN s ELSE IF k = h THEN None ELSE sessions[k]
      /\ \A k \in Hash : retired_tokens'[k] = IF k = h /\ ~legacy THEN rec ELSE retired_tokens[k]
      /\ \A k \in Hash : written'[k] = IF k = h /\ ~legacy THEN rec ELSE written[k]
    BY <1>3, <1>7 DEF RowsTyped
<1>9. \A g \in Family, k \in Hash :
          family_index'[<<g, k>>] = IF g = f /\ k = h2 THEN "live"
                                    ELSE IF ~legacy /\ g = old.family_id /\ k = h THEN "retired"
                                    ELSE family_index[<<g, k>>]
    BY <1>3, <1>4, <1>7 DEF RowsTyped
<1>m. minted' = minted \cup {h2} /\ sweep' = sweep /\ now' = now
    BY <1>7
<1>10. RowsTyped'
    BY <1>3, <1>4, <1>5, <1>6, <1>7 DEF RowsTyped, Mark
<1>11. \A k \in Hash : Minted(k)'
    <2> SUFFICES ASSUME NEW k \in Hash PROVE Minted(k)'
        OBVIOUS
    <2>1. Minted(k)
        BY DEF RowsInv
    <2> QED
        BY <1>3, <1>5, <1>8, <1>m, <2>1 DEF Minted
<1>12. \A k \in Hash : Filed(k)' <=> Filed(k) \/ (k = h /\ ~legacy)
    BY <1>3, <1>4, <1>6, <1>8, <1>9 DEF Filed, RowsTyped, Port!RetiredRefreshToken
<1>13. \A k \in Hash : UnfiledIsExpired(k)'
    <2>1. \A k \in Hash : UnfiledIsExpired(k)
        BY DEF RowsInv
    <2> QED
        BY <1>8, <1>12, <1>m, <2>1 DEF UnfiledIsExpired
<1>14. OwnersFiled'
    <2>1. /\ OwnersFiled
          /\ user_sessions' = (user_sessions \ {<<old.user_id, h>>}) \cup {<<s.user_id, h2>>}
        BY <1>5, <1>7 DEF RowsInv
    <2>2. \A x : x \in user_sessions' <=>
              \E k \in Hash : sessions'[k] # None /\ x = <<sessions'[k].user_id, k>>
        BY <1>2, <1>3, <1>5, <1>8, <2>1 DEF OwnersFiled
    <2> QED
        BY <2>2 DEF OwnersFiled
<1>15. \A g \in Family, k \in Hash : FamilyFiled(g, k)'
    <2> SUFFICES ASSUME NEW g \in Family, NEW k \in Hash PROVE FamilyFiled(g, k)'
        OBVIOUS
    <2>1. FamilyFiled(g, k) /\ "live" # "retired"
        BY DEF RowsInv
    <2>2. CASE k = h2
        BY <1>3, <1>5, <1>8, <1>9, <2>1, <2>2 DEF FamilyFiled
    <2>3. CASE k = h
        BY <1>2, <1>3, <1>6, <1>8, <1>9, <2>1, <2>3, LmdbAssumption DEF FamilyFiled
    <2>4. CASE k \notin {h, h2}
        BY <1>8, <1>9, <2>1, <2>4 DEF FamilyFiled
    <2> QED
        BY <2>2, <2>3, <2>4
<1>16. \A e \in sweep'.queue : Queued(e)'
    <2> SUFFICES ASSUME NEW e \in sweep.queue PROVE Queued(e)'
        BY <1>7
    <2>1. Queued(e) /\ e.hash \in Hash /\ e.hash # h2
        BY <1>3 DEF RowsInv, RowsTyped, Queued, Names
    <2>2. CASE e.hash # h
        BY <1>8, <1>m, <2>1, <2>2 DEF Queued, Names
    <2>3. CASE e.hash = h
        <3>1. e.kind = "Live" /\ old.family_id = e.family_id /\ old.expires_at <= now
            BY <1>2, <1>3, <2>1, <2>3 DEF Queued, Names
        <3>2. ~legacy => rec.expires_at <= now
            BY <1>3, <1>4, <1>6, <3>1 DEF Port!RetiredRefreshToken
        <3> QED
            BY <1>3, <1>6, <1>8, <1>m, <2>1, <2>3, <3>1, <3>2 DEF Queued, Names
    <2> QED
        BY <2>2, <2>3
<1>17. FiledRecords' = IF legacy THEN FiledRecords ELSE [FiledRecords EXCEPT ![h] = rec]
    BY <1>3, <1>8, <1>12 DEF FiledRecords
<1>18. Port!rotate_refresh_token(h, h2, s, now)
    BY <1>1, <1>2, <1>3, <1>5, <1>7, <1>17, <1>r DEF Port!rotate_refresh_token
<1>19. Port!Redeem
    <2>1. now \in 0..now /\ h2 \in Hash \ minted
        BY <1>3
    <2>2. Port!rotate_refresh_token(h, h2, [user_id |-> sessions[h].user_id, family_id |-> f,
                                            generation |-> sessions[h].generation + 1,
                                            expires_at |-> sessions[h].expires_at], now)
        BY <1>2, <1>18 DEF s
    <2> QED
        BY <1>1, <2>1, <2>2, Zenon DEF Port!Redeem
<1> QED
    BY <1>10, <1>11, <1>13, <1>14, <1>15, <1>16, <1>19 DEF RowsInv

-----------------------------------------------------------------------------
\* RemoveEntries, of entries that name what they mean to remove: every filing of a row
\* that leaves leaves with it, and no other; a record can lose its filing to the entry of
\* the row it was, once it is past its deadline.
LEMMA RemoveSound ==
    ASSUME RowsInv, NEW E, \A e \in E : Names(e),
           \A e \in E : e.kind = "Live" /\ written[e.hash] # None => written[e.hash].expires_at <= now,
           RemoveEntries(E),
           UNCHANGED <<now, minted, families, written>>,
           DOMAIN sweep' = DOMAIN sweep, sweep'.queue \subseteq sweep.queue
    PROVE  /\ RowsInv'
           /\ FiledRecords' = [h \in Hash |-> IF \E e \in E : e.hash = h THEN None ELSE FiledRecords[h]]
<1> DEFINE L == {e \in E : e.kind = "Live"}
<1>0. RowsTyped /\ (\A h \in Hash : Minted(h)) /\ \A e \in E : e.hash \in Hash
    BY DEF RowsInv, RowsTyped, Names
<1>1. /\ \A h \in Hash : sessions'[h] = IF \E e \in E : e.kind = "Live" /\ e.hash = h
                                         THEN None ELSE sessions[h]
      /\ \A h \in Hash : retired_tokens'[h] = IF \E e \in E : e.kind # "Live" /\ e.hash = h
                                               THEN None ELSE retired_tokens[h]
      /\ \A f \in Family, h \in Hash :
             family_index'[<<f, h>>] = IF \E e \in E : e.family_id = f /\ e.hash = h
                                       THEN None ELSE family_index[<<f, h>>]
      /\ user_sessions' = user_sessions \ {<<e.user_id, e.hash>> : e \in L}
    BY DEF RemoveEntries
<1>2. RowsTyped'
    BY <1>0 DEF RowsTyped, RemoveEntries, Mark
<1>3. \A h \in Hash : Minted(h)'
    BY <1>0, <1>1 DEF Minted
<1>4. \A h \in Hash : Filed(h)' <=> Filed(h) /\ ~\E e \in E : e.hash = h
    <2> SUFFICES ASSUME NEW h \in Hash PROVE Filed(h)' <=> Filed(h) /\ ~\E e \in E : e.hash = h
        OBVIOUS
    <2>1. CASE ~\E e \in E : e.hash = h
        <3>1. retired_tokens'[h] = retired_tokens[h]
            BY <1>1, <2>1
        <3>2. retired_tokens[h] # None => retired_tokens[h].family_id \in Family
            BY <1>0 DEF RowsTyped, Port!RetiredRefreshToken
        <3> QED
            BY <1>1, <2>1, <3>1, <3>2 DEF Filed
    <2>2. ASSUME NEW e \in E, e.hash = h PROVE ~Filed(h)'
        <3>1. CASE retired_tokens'[h] = None
            BY <3>1 DEF Filed
        <3>2. CASE retired_tokens'[h] # None
            <4>1. retired_tokens'[h] = retired_tokens[h] /\ retired_tokens[h] = written[h] /\ written[h] # None
                BY <1>0, <1>1, <3>2 DEF Minted
            <4>2. written[h].family_id = e.family_id
                BY <2>2, <4>1 DEF Names
            <4>3. written[h].family_id \in Family
                BY <1>0, <4>1 DEF RowsTyped, Port!RetiredRefreshToken
            <4>4. family_index'[<<written[h].family_id, h>>] = None
                BY <1>1, <2>2, <4>2, <4>3
            <4> QED
                BY <4>1, <4>4, LmdbAssumption DEF Filed
        <3> QED
            BY <3>1, <3>2
    <2> QED
        BY <2>1, <2>2
<1>5. \A h \in Hash : UnfiledIsExpired(h)'
    <2> SUFFICES ASSUME NEW h \in Hash, retired_tokens'[h] # None, ~Filed(h)'
                 PROVE  retired_tokens'[h].expires_at <= now'
        BY DEF UnfiledIsExpired
    <2>1. retired_tokens'[h] = retired_tokens[h] /\ retired_tokens[h] = written[h]
        BY <1>0, <1>1 DEF Minted
    <2>2. CASE Filed(h)
        <3>1. PICK e \in E : e.hash = h
            BY <1>4, <2>2
        <3>2. e.kind = "Live"
            BY <1>1, <3>1
        <3> QED
            BY <2>1, <3>1, <3>2
    <2>3. CASE ~Filed(h)
        BY <2>1, <2>3 DEF RowsInv, UnfiledIsExpired
    <2> QED
        BY <2>2, <2>3
<1>6. OwnersFiled'
    <2>1. \A e \in L : sessions[e.hash] # None => sessions[e.hash].user_id = e.user_id
        BY DEF Names
    <2>2. \A x : x \in user_sessions' <=>
              \E h \in Hash : sessions'[h] # None /\ x = <<sessions'[h].user_id, h>>
        BY <1>0, <1>1, <2>1 DEF RowsInv, OwnersFiled
    <2> QED
        BY <2>2 DEF OwnersFiled
<1>7. \A f \in Family, h \in Hash : FamilyFiled(f, h)'
    <2> SUFFICES ASSUME NEW f \in Family, NEW h \in Hash PROVE FamilyFiled(f, h)'
        OBVIOUS
    <2>1. FamilyFiled(f, h) /\ Minted(h) /\ None \notin {"live", "retired"}
        BY LmdbAssumption DEF RowsInv
    <2>2. CASE ~\E e \in E : e.hash = h
        BY <1>1, <2>1, <2>2 DEF FamilyFiled
    <2>3. ASSUME NEW e \in E, e.hash = h PROVE FamilyFiled(f, h)'
        <3>1. Names(e)
            OBVIOUS
        <3>2. CASE e.family_id = f
            <4>1. family_index'[<<f, h>>] = None
                BY <1>1, <2>3, <3>2
            <4>2. sessions'[h] = None
                BY <1>1, <2>1, <2>3, <3>1 DEF Names, Minted
            <4> QED
                BY <2>1, <4>1, <4>2 DEF FamilyFiled
        <3>3. CASE e.family_id # f
            <4>1. sessions'[h] = None
                BY <1>1, <2>1, <2>3, <3>1 DEF Names, Minted
            <4>2. ~(sessions[h] # None /\ sessions[h].family_id = f)
                BY <2>1, <2>3, <3>1, <3>3 DEF Names, Minted
            <4>3. ~(retired_tokens[h] # None /\ retired_tokens[h].family_id = f)
                BY <2>1, <2>3, <3>1, <3>3 DEF Names, Minted
            <4>4. family_index[<<f, h>>] \notin {"live", "retired"}
                BY <2>1, <4>2, <4>3 DEF FamilyFiled
            <4>5. family_index'[<<f, h>>] \notin {"live", "retired"}
                BY <1>1, <2>1, <4>4
            <4> QED
                BY <4>1, <4>5 DEF FamilyFiled
        <3> QED
            BY <3>2, <3>3
    <2> QED
        BY <2>2, <2>3
<1>8. \A e \in sweep'.queue : Queued(e)'
    <2> SUFFICES ASSUME NEW e \in sweep.queue PROVE Queued(e)'
        OBVIOUS
    <2>1. Queued(e) /\ e.hash \in Hash
        BY <1>0 DEF RowsInv, RowsTyped, Queued, Names
    <2>2. sessions'[e.hash] = sessions[e.hash] \/ sessions'[e.hash] = None
        BY <1>1, <2>1
    <2> QED
        BY <2>1, <2>2 DEF Queued, Names
<1>9. FiledRecords' = [h \in Hash |-> IF \E e \in E : e.hash = h THEN None ELSE FiledRecords[h]]
    <2>1. \A h \in Hash : Filed(h)' => retired_tokens'[h] = retired_tokens[h]
        BY <1>1 DEF Filed
    <2> QED
        BY <1>4, <2>1 DEF FiledRecords
<1> QED
    BY <1>2, <1>3, <1>5, <1>6, <1>7, <1>8, <1>9 DEF RowsInv

\* An entry made from what is stored names it.
LEMMA EntriesName ==
    ASSUME RowsInv, NEW h \in Hash
    PROVE  /\ LiveEntry(h).kind = "Live" /\ LiveEntry(h).hash = h
           /\ RetiredEntry(h).kind = "Retired" /\ RetiredEntry(h).hash = h
           /\ sessions[h] # None => Names(LiveEntry(h)) /\ written[h] = None
           /\ retired_tokens[h] # None => Names(RetiredEntry(h)) /\ written[h] = retired_tokens[h]
BY DEF RowsInv, Minted, Names, LiveEntry, RetiredEntry

\* revoke_session: the row and its filings; no record is touched.
LEMMA StepRevokeSession ==
    ASSUME RowsInv, NEW h \in Hash, revoke_session(h)
    PROVE  RowsInv' /\ Port!revoke_session(h)
<1> DEFINE E == {LiveEntry(h)}
<1>0. /\ RowsTyped /\ Minted(h) /\ sessions[h] # None /\ RemoveEntries(E)
      /\ UNCHANGED <<minted, families, written, closed, single_use, sweep, now, claims>>
    BY DEF RowsInv, revoke_session, portHistory
<1>1. \A e \in E : e.kind = "Live" /\ e.hash = h /\ Names(e) /\ written[e.hash] = None
    BY <1>0, EntriesName
<1>2. sessions' = [sessions EXCEPT ![h] = None]
    <2>1. sessions' = [k \in Hash |-> IF \E e \in {x \in E : x.kind = "Live"} : e.hash = k
                                      THEN None ELSE sessions[k]]
        BY <1>0 DEF RemoveEntries
    <2>2. \A k \in Hash : (\E e \in {x \in E : x.kind = "Live"} : e.hash = k) <=> k = h
        BY <1>1
    <2> HIDE DEF E
    <2> QED
        BY <1>0, <2>1, <2>2 DEF RowsTyped
<1>3. \A k \in Hash : (\E e \in E : e.hash = k) <=> k = h
    BY <1>1
<1> HIDE DEF E
<1>4. /\ RowsInv'
      /\ FiledRecords' = [k \in Hash |-> IF \E e \in E : e.hash = k THEN None ELSE FiledRecords[k]]
    BY <1>0, <1>1, RemoveSound
<1>5. FiledRecords[h] = None
    BY <1>0 DEF FiledRecords, Filed, Minted
<1>6. FiledRecords' = FiledRecords
    BY <1>3, <1>4, <1>5 DEF FiledRecords
<1> QED
    BY <1>0, <1>2, <1>4, <1>6 DEF Port!revoke_session

\* revoke_family: what the family index names is the live generation and the filed
\* records, which is all the contract asks for.
LEMMA StepRevokeFamily ==
    ASSUME RowsInv, NEW f \in Family, revoke_family(f)
    PROVE  RowsInv' /\ Port!revoke_family(f)
<1> DEFINE L == {h \in Hash : family_index[<<f, h>>] = "live"}
           R == {h \in Hash : family_index[<<f, h>>] = "retired"}
           E == {LiveEntry(h) : h \in L} \cup {RetiredEntry(h) : h \in R}
<1>0. /\ RowsTyped /\ RemoveEntries(E) /\ closed' = closed \cup {f}
      /\ UNCHANGED <<minted, families, written, single_use, sweep, now, claims>>
    BY DEF RowsInv, revoke_family, portHistory
<1>1. L = Port!LiveOf(f)
    BY DEF RowsInv, FamilyFiled, Port!LiveOf
<1>2. R = Port!RetiredOf(f)
    BY DEF RowsInv, FamilyFiled, Port!RetiredOf, FiledRecords, Filed
<1>3. /\ \A h \in L : h \in Hash /\ sessions[h] # None
      /\ \A h \in R : h \in Hash /\ retired_tokens[h] # None
    BY DEF RowsInv, FamilyFiled
<1>4. \A e \in E : \/ e.kind = "Live" /\ e.hash \in L /\ Names(e) /\ written[e.hash] = None
                   \/ e.kind = "Retired" /\ e.hash \in R /\ Names(e)
    <2>1. ASSUME NEW h \in L
          PROVE  /\ LiveEntry(h).kind = "Live" /\ LiveEntry(h).hash \in L
                 /\ Names(LiveEntry(h)) /\ written[LiveEntry(h).hash] = None
        BY <1>3, EntriesName
    <2>2. ASSUME NEW h \in R
          PROVE  RetiredEntry(h).kind = "Retired" /\ RetiredEntry(h).hash \in R /\ Names(RetiredEntry(h))
        BY <1>3, EntriesName
    <2> HIDE DEF L, R
    <2> QED
        BY <2>1, <2>2
<1>5. /\ \A h \in L : \E e \in E : e.kind = "Live" /\ e.hash = h
      /\ \A h \in R : \E e \in E : e.kind # "Live" /\ e.hash = h
    <2>1. \A h \in L : LiveEntry(h) \in E /\ LiveEntry(h).kind = "Live" /\ LiveEntry(h).hash = h
        BY EntriesName
    <2>2. \A h \in R : /\ RetiredEntry(h) \in E /\ RetiredEntry(h).kind = "Retired"
                       /\ RetiredEntry(h).hash = h
        BY EntriesName
    <2> HIDE DEF L, R, E
    <2> QED
        BY <2>1, <2>2
<1> HIDE DEF L, R, E
<1>6. sessions' = [h \in Hash |-> IF h \in L THEN None ELSE sessions[h]]
    <2>1. sessions' = [h \in Hash |-> IF \E e \in {x \in E : x.kind = "Live"} : e.hash = h
                                      THEN None ELSE sessions[h]]
        BY <1>0 DEF RemoveEntries
    <2> QED
        BY <1>4, <1>5, <2>1
<1>7. /\ RowsInv'
      /\ FiledRecords' = [h \in Hash |-> IF \E e \in E : e.hash = h THEN None ELSE FiledRecords[h]]
    BY <1>0, <1>4, RemoveSound
<1>8. \A h \in L : FiledRecords[h] = None
    BY <1>3 DEF FiledRecords, Filed, RowsInv, Minted
<1>9. FiledRecords' = [h \in Hash |-> IF h \in R THEN None ELSE FiledRecords[h]]
    BY <1>4, <1>5, <1>7, <1>8
<1> QED
    BY <1>0, <1>1, <1>2, <1>6, <1>7, <1>9 DEF Port!revoke_family

\* revoke_all_user_sessions: the rows by the user's filings, the records by a scan.
LEMMA StepRevokeUser ==
    ASSUME RowsInv, NEW u \in User, revoke_all_user_sessions(u)
    PROVE  RowsInv' /\ Port!revoke_all_user_sessions(u)
<1> DEFINE L == {h \in Hash : <<u, h>> \in user_sessions}
           R == {h \in Hash : retired_tokens[h] # None /\ retired_tokens[h].user_id = u}
           E == {LiveEntry(h) : h \in L} \cup {RetiredEntry(h) : h \in R}
<1>0. /\ RowsTyped /\ RemoveEntries(E) /\ closed' = closed \cup (Port!FamiliesOf(u) \ {NoFamily})
      /\ UNCHANGED <<minted, families, written, single_use, sweep, now, claims>>
    BY DEF RowsInv, revoke_all_user_sessions, portHistory
<1>1. \A h \in Hash : h \in L <=> sessions[h] # None /\ sessions[h].user_id = u
    BY DEF RowsInv, OwnersFiled
<1>2. \A h \in Hash : h \in R <=> retired_tokens[h] # None /\ retired_tokens[h].user_id = u
    OBVIOUS
<1>3. L \subseteq Hash /\ R \subseteq Hash
    OBVIOUS
<1>4. \A e \in E : \/ e.kind = "Live" /\ e.hash \in L /\ Names(e) /\ written[e.hash] = None
                   \/ e.kind = "Retired" /\ e.hash \in R /\ Names(e)
    <2>1. ASSUME NEW h \in L
          PROVE  /\ LiveEntry(h).kind = "Live" /\ LiveEntry(h).hash \in L
                 /\ Names(LiveEntry(h)) /\ written[LiveEntry(h).hash] = None
        BY <1>1, <1>3, EntriesName
    <2>2. ASSUME NEW h \in R
          PROVE  RetiredEntry(h).kind = "Retired" /\ RetiredEntry(h).hash \in R /\ Names(RetiredEntry(h))
        BY <1>2, <1>3, EntriesName
    <2> HIDE DEF L, R
    <2> QED
        BY <2>1, <2>2
<1>5. /\ \A h \in L : \E e \in E : e.kind = "Live" /\ e.hash = h
      /\ \A h \in R : \E e \in E : e.kind # "Live" /\ e.hash = h
    <2>1. \A h \in L : LiveEntry(h) \in E /\ LiveEntry(h).kind = "Live" /\ LiveEntry(h).hash = h
        BY EntriesName
    <2>2. \A h \in R : /\ RetiredEntry(h) \in E /\ RetiredEntry(h).kind = "Retired"
                       /\ RetiredEntry(h).hash = h
        BY EntriesName
    <2> HIDE DEF L, R, E
    <2> QED
        BY <2>1, <2>2
<1> HIDE DEF L, R, E
<1>6. sessions' = [h \in Hash |-> IF h \in L THEN None ELSE sessions[h]]
    <2>1. sessions' = [h \in Hash |-> IF \E e \in {x \in E : x.kind = "Live"} : e.hash = h
                                      THEN None ELSE sessions[h]]
        BY <1>0 DEF RemoveEntries
    <2> QED
        BY <1>4, <1>5, <2>1
<1>7. /\ RowsInv'
      /\ FiledRecords' = [h \in Hash |-> IF \E e \in E : e.hash = h THEN None ELSE FiledRecords[h]]
    BY <1>0, <1>4, RemoveSound
<1>8. \A h \in L : FiledRecords[h] = None
    BY <1>1, <1>3 DEF FiledRecords, Filed, RowsInv, Minted
<1>9. \A h \in Hash : FiledRecords[h] = None \/ FiledRecords[h] = retired_tokens[h]
    BY DEF FiledRecords
<1>10. FiledRecords' = [h \in Hash |-> IF FiledRecords[h] # None /\ FiledRecords[h].user_id = u
                                       THEN None ELSE FiledRecords[h]]
    BY <1>2, <1>4, <1>5, <1>7, <1>8, <1>9
<1>11. sessions' = [h \in Hash |-> IF sessions[h] # None /\ sessions[h].user_id = u
                                   THEN None ELSE sessions[h]]
    BY <1>1, <1>6
<1> QED
    BY <1>0, <1>7, <1>10, <1>11 DEF Port!revoke_all_user_sessions

\* A batch of the sweep is a sweep of the hashes in it, as of now: what each entry finds is
\* past its deadline.
LEMMA StepBatch ==
    ASSUME RowsInv, commit_deletion_batch
    PROVE  RowsInv' /\ \E at \in 0..(now + 1), gone \in SUBSET Hash : Port!cleanup_expired_sessions(at, gone)
<1>0. RowsTyped /\ now \in Nat /\ "queue" \in DOMAIN sweep
    BY DEF RowsInv, RowsTyped
<1>1. PICK B \in SUBSET sweep.queue :
          /\ RemoveEntries(B)
          /\ sweep' = [sweep EXCEPT !.queue = @ \ B, !.halvings = 0,
                         !.width = Smaller(BatchSize, Cardinality(sweep.queue \ B))]
    BY DEF commit_deletion_batch
<1>2. UNCHANGED <<minted, families, written, closed, single_use, now, claims>>
    BY DEF commit_deletion_batch, portHistory
<1>3. DOMAIN sweep' = DOMAIN sweep /\ sweep'.queue \subseteq sweep.queue
    BY <1>0, <1>1
<1>4. \A e \in B : Queued(e) /\ Names(e) /\ e.hash \in Hash
    BY DEF RowsInv, RowsTyped, Queued, Names
<1>5. /\ RowsInv'
      /\ FiledRecords' = [h \in Hash |-> IF \E e \in B : e.hash = h THEN None ELSE FiledRecords[h]]
    <2>1. \A e \in B : written[e.hash] # None => written[e.hash].expires_at <= now
        BY <1>4 DEF Queued
    <2> QED
        BY <1>1, <1>2, <1>3, <1>4, <2>1, RemoveSound
<1> DEFINE gone == {h \in Hash : \E e \in B : e.hash = h}
<1>6. sessions' = [h \in Hash |-> IF h \in gone /\ sessions[h] # None /\ sessions[h].expires_at < now + 1
                                  THEN None ELSE sessions[h]]
    <2>1. sessions' = [h \in Hash |-> IF \E e \in {x \in B : x.kind = "Live"} : e.hash = h
                                      THEN None ELSE sessions[h]]
        BY <1>1 DEF RemoveEntries
    <2>2. ASSUME NEW h \in Hash
          PROVE  (IF \E e \in {x \in B : x.kind = "Live"} : e.hash = h THEN None ELSE sessions[h])
                 = IF h \in gone /\ sessions[h] # None /\ sessions[h].expires_at < now + 1
                   THEN None ELSE sessions[h]
        <3>1. CASE sessions[h] = None
            BY <3>1
        <3>2. CASE sessions[h] # None
            <4>1. written[h] = None /\ sessions[h].expires_at \in Nat
                BY <1>0, <3>2 DEF RowsInv, RowsTyped, Minted, Port!Session
            <4>2. \A e \in B : e.hash = h => e.kind = "Live" /\ sessions[h].expires_at <= now
                BY <1>4, <3>2, <4>1 DEF Queued, Names
            <4> QED
                BY <1>0, <4>1, <4>2
        <3> QED
            BY <3>1, <3>2
    <2> QED
        BY <2>1, <2>2
<1>7. FiledRecords' = [h \in Hash |->
          IF h \in gone /\ FiledRecords[h] # None /\ FiledRecords[h].expires_at < now + 1
          THEN None ELSE FiledRecords[h]]
    <2>1. \A h \in Hash : FiledRecords[h] # None =>
              FiledRecords[h] = written[h] /\ written[h] # None /\ written[h].expires_at \in Nat
        BY <1>0 DEF FiledRecords, RowsInv, Minted, RowsTyped, Port!RetiredRefreshToken
    <2>2. \A h \in gone : FiledRecords[h] # None => FiledRecords[h].expires_at < now + 1
        BY <1>0, <1>4, <2>1 DEF Queued
    <2> QED
        BY <1>5, <2>2
<1>8. now + 1 \in 0..(now + 1) /\ gone \in SUBSET Hash
    BY <1>0
<1> HIDE DEF gone
<1>9. Port!cleanup_expired_sessions(now + 1, gone)
    BY <1>2, <1>6, <1>7 DEF Port!cleanup_expired_sessions
<1> QED
    BY <1>5, <1>8, <1>9

\* A step that leaves the rows alone: the clock goes on, or the sweep's queue changes to
\* entries that are overdue.
LEMMA StepBesides ==
    ASSUME RowsInv, UNCHANGED <<rows, portHistory, closed>>, now' \in Nat, now' >= now,
           DOMAIN sweep' = DOMAIN sweep,
           \A e \in sweep'.queue : e \in sweep.queue \/ Queued(e)
    PROVE  RowsInv' /\ UNCHANGED <<sessions, FiledRecords, minted, families, closed, written>>
<1>0. UNCHANGED <<sessions, user_sessions, retired_tokens, family_index, minted, families, closed, written>>
    BY DEF rows, portHistory
<1>1. RowsTyped /\ now \in Nat
    BY DEF RowsInv, RowsTyped
<1>2. \A h \in Hash : Minted(h)' /\ (Filed(h)' <=> Filed(h))
    BY <1>0 DEF RowsInv, Minted, Filed
<1>3. \A h \in Hash : UnfiledIsExpired(h)'
    <2>1. \A h \in Hash : retired_tokens[h] # None => retired_tokens[h].expires_at \in Nat
        BY <1>1 DEF RowsTyped, Port!RetiredRefreshToken
    <2> QED
        BY <1>0, <1>1, <1>2, <2>1 DEF RowsInv, UnfiledIsExpired
<1>4. \A e \in sweep'.queue : Queued(e)'
    <2> SUFFICES ASSUME NEW e \in sweep'.queue PROVE Queued(e)'
        OBVIOUS
    <2>1. Queued(e) /\ e.hash \in Hash
        BY <1>1 DEF RowsInv, RowsTyped, Queued, Names
    <2>2. /\ sessions[e.hash] # None => sessions[e.hash].expires_at \in Nat
          /\ written[e.hash] # None => written[e.hash].expires_at \in Nat
        BY <1>1, <2>1 DEF RowsTyped, Port!RetiredRefreshToken, Port!Session
    <2> QED
        BY <1>0, <1>1, <2>1, <2>2 DEF Queued, Names
<1>5. OwnersFiled' /\ \A f \in Family, h \in Hash : FamilyFiled(f, h)'
    BY <1>0 DEF RowsInv, OwnersFiled, FamilyFiled
<1>6. RowsTyped'
    BY <1>0, <1>1 DEF RowsTyped
<1>7. FiledRecords' = FiledRecords
    BY <1>0, <1>2 DEF FiledRecords
<1> QED
    BY <1>0, <1>2, <1>3, <1>4, <1>5, <1>6, <1>7 DEF RowsInv

\* SweepRead queues what is past its deadline.
LEMMA StepSweepRead ==
    ASSUME RowsInv, SweepRead
    PROVE  DOMAIN sweep' = DOMAIN sweep /\ \A e \in sweep'.queue : Queued(e)
<1> DEFINE L == {h \in Hash : sessions[h] # None /\ sessions[h].expires_at <= now}
           R == {h \in Hash : retired_tokens[h] # None /\ retired_tokens[h].expires_at <= now}
           Q == {LiveEntry(h) : h \in L} \cup {RetiredEntry(h) : h \in R}
<1>1. /\ DOMAIN sweep = {"pc", "at", "queue", "width", "halvings", "keys"}
      /\ sweep' = [Idle EXCEPT !.pc = "batch", !.at = now, !.queue = Q,
                               !.width = Smaller(BatchSize, Cardinality(Q))]
    BY DEF RowsInv, RowsTyped, SweepRead
<1>2. ASSUME NEW h \in L PROVE Queued(LiveEntry(h))
    <2>1. h \in Hash /\ sessions[h] # None /\ sessions[h].expires_at <= now
        OBVIOUS
    <2> HIDE DEF L
    <2> QED
        BY <2>1, EntriesName DEF Queued
<1>3. ASSUME NEW h \in R PROVE Queued(RetiredEntry(h))
    <2>1. h \in Hash /\ retired_tokens[h] # None /\ retired_tokens[h].expires_at <= now
        OBVIOUS
    <2>2. written[h] # None /\ sessions[h] = None
        BY <2>1 DEF RowsInv, Minted
    <2> HIDE DEF R
    <2> QED
        BY <2>1, <2>2, EntriesName DEF Queued
<1> HIDE DEF L, R
<1>4. \A e \in Q : Queued(e)
    BY <1>2, <1>3
<1> HIDE DEF Q
<1>5. DOMAIN sweep' = DOMAIN sweep /\ sweep'.queue = Q
    BY <1>1 DEF Idle
<1> QED
    BY <1>4, <1>5

\* Every step keeps the invariant, and is a step of the contract or invisible to it.
LEMMA StepLmdb ==
    ASSUME RowsInv, [LmdbNext]_lmdbVars
    PROVE  RowsInv' /\ [Port!PortNext]_(Port!portVars)
<1>0. /\ RowsTyped /\ now \in Nat /\ now + 1 \in Nat /\ now <= now + 1
      /\ DOMAIN sweep = {"pc", "at", "queue", "width", "halvings", "keys"}
    BY DEF RowsInv, RowsTyped
<1>1. CASE SignIn
    BY <1>1, StepSignIn DEF Port!PortNext
<1>2. CASE Redeem
    BY <1>2, StepRedeem DEF Port!PortNext
<1>3. ASSUME NEW h \in Hash, revoke_session(h) PROVE RowsInv' /\ Port!PortNext
    BY <1>3, StepRevokeSession DEF Port!PortNext
<1>4. ASSUME NEW f \in families, revoke_family(f) PROVE RowsInv' /\ Port!PortNext
    <2>1. f \in Family
        BY <1>0 DEF RowsTyped
    <2> QED
        BY <1>4, <2>1, StepRevokeFamily DEF Port!PortNext
<1>5. ASSUME NEW u \in User, revoke_all_user_sessions(u) PROVE RowsInv' /\ Port!PortNext
    BY <1>5, StepRevokeUser DEF Port!PortNext
<1>6. CASE commit_deletion_batch
    BY <1>6, StepBatch DEF Port!PortNext
<1>7. CASE Tick
    <2>1. UNCHANGED <<rows, portHistory, closed, sweep>> /\ now' = now + 1 /\ now < MaxTime
        BY <1>7 DEF Tick
    <2>2. RowsInv' /\ UNCHANGED <<sessions, FiledRecords, minted, families, closed, written>>
        BY <1>0, <2>1, StepBesides
    <2>3. Port!Tick
        BY <2>1, <2>2 DEF Port!Tick
    <2> QED
        BY <2>2, <2>3 DEF Port!PortNext
<1>8. ASSUME UNCHANGED <<rows, portHistory, closed, now>>, DOMAIN sweep' = DOMAIN sweep,
             \A e \in sweep'.queue : e \in sweep.queue \/ Queued(e)
      PROVE  RowsInv' /\ UNCHANGED Port!portVars
    BY <1>0, <1>8, StepBesides DEF Port!portVars
<1>9. CASE SweepRead
    BY <1>8, <1>9, StepSweepRead DEF SweepRead
<1>10. CASE BatchMapFull \/ SweepReadSingleUse
    <2>1. /\ UNCHANGED <<rows, portHistory, closed, now>>
          /\ DOMAIN sweep' = DOMAIN sweep /\ sweep'.queue = sweep.queue
        BY <1>0, <1>10 DEF BatchMapFull, SweepReadSingleUse
    <2> QED
        BY <1>8, <2>1
<1>11. CASE SweepFails \/ SweepSingleUse
    <2>1. /\ UNCHANGED <<rows, portHistory, closed, now>>
          /\ DOMAIN sweep' = DOMAIN sweep /\ sweep'.queue = {}
        BY <1>0, <1>11 DEF SweepFails, SweepSingleUse, Idle
    <2> QED
        BY <1>8, <2>1
<1>12. ASSUME NEW k \in Key, put_single_use(k) \/ take_single_use(k)
       PROVE  RowsInv' /\ UNCHANGED Port!portVars
    BY <1>8, <1>12 DEF put_single_use, take_single_use
<1>13. CASE UNCHANGED lmdbVars
    BY <1>8, <1>13 DEF lmdbVars, rows, portHistory
<1> QED
    BY <1>1, <1>2, <1>3, <1>4, <1>5, <1>6, <1>7, <1>9, <1>10, <1>11, <1>12, <1>13
       DEF LmdbNext, SweepStep

-----------------------------------------------------------------------------
\* The rows, the filings and the queue of the sweep agree.
THEOREM LmdbInvariant == LmdbSpec => []RowsInv
<1>1. RowsInv /\ [LmdbNext]_lmdbVars => RowsInv'
    BY StepLmdb
<1> QED
    BY InitRows, <1>1, PTL DEF LmdbSpec

\* The indexes of the LMDB store (install_live_entry, the remove_..._entry_raw, the batches
\* of cleanup_expired_sessions): between any two transactions they name exactly the live
\* rows, and a record without a filing is past its deadline.
THEOREM LmdbFilingsAgree == LmdbSpec => []FilingsAgree
<1>1. ASSUME RowsInv PROVE FilingsAgree
    <2>1. \A h \in Hash : sessions[h] # None =>
              sessions[h].user_id \in User /\ <<sessions[h].user_id, h>> \in user_sessions
        BY <1>1 DEF RowsInv, RowsTyped, OwnersFiled, Port!Session
    <2>2. \A u \in User : list_live_sessions(u) = Port!list_live_sessions(u)
        BY <2>1 DEF list_live_sessions, Port!list_live_sessions, get_session_by_refresh_token
    <2>3. {h \in Hash : sessions[h] # None /\ sessions[h].expires_at > now}
          = UNION {list_live_sessions(u) : u \in User}
        <3>1. \A h, u : u \in User /\ h \in list_live_sessions(u) =>
                  h \in Hash /\ sessions[h] # None /\ sessions[h].expires_at > now
            BY DEF list_live_sessions, get_session_by_refresh_token
        <3>2. \A h \in Hash : sessions[h] # None /\ sessions[h].expires_at > now =>
                  sessions[h].user_id \in User /\ h \in list_live_sessions(sessions[h].user_id)
            BY <2>1 DEF list_live_sessions, get_session_by_refresh_token
        <3> QED
            BY <3>1, <3>2
    <2>4. count_active_sessions = Cardinality(UNION {list_live_sessions(u) : u \in User})
        BY <2>3 DEF count_active_sessions
    <2> QED
        BY <1>1, <2>2, <2>4 DEF RowsInv, OwnersFiled, FamilyFiled, UnfiledIsExpired, FilingsAgree
<1> QED
    BY <1>1, LmdbInvariant, PTL

\* The LMDB store implements the contract: every call is one step of it, a batch of the
\* sweep is a sweep of the hashes in it, and all else is invisible.
THEOREM LmdbImplementsPort == LmdbSpec => ImplementsPort
<1>1. RowsInv /\ [LmdbNext]_lmdbVars => [Port!PortNext]_(Port!portVars)
    BY StepLmdb
<1> QED
    BY InitRows, LmdbInvariant, <1>1, PTL DEF LmdbSpec, ImplementsPort, Port!PortSpec

-----------------------------------------------------------------------------
(* Single-use records. *)

\* A record that is there before its expiry stands for one claim nobody has burned; a
\* claim in time leaves its record there, or a burn; the sweep holds expired keys only.
SingleUseInv ==
    /\ now \in Nat /\ DOMAIN sweep = {"pc", "at", "queue", "width", "halvings", "keys"}
    /\ single_use \in [Key -> {None, Ttl}]
    /\ claims \in [Key -> [put : Nat, take : Nat]]
    /\ sweep.at \in 0..now
    /\ \A k \in Key :
          /\ claims[k].put <= 1 /\ claims[k].take <= claims[k].put
          /\ now < Ttl /\ single_use[k] # None => claims[k].put = 1 /\ claims[k].take = 0
          /\ now < Ttl /\ single_use[k] = None /\ claims[k].put = 1 => claims[k].take = 1
          /\ k \in sweep.keys => Ttl <= now

\* Every step keeps the account of the claims.
LEMMA StepSingleUse ==
    ASSUME SingleUseInv, [LmdbNext]_lmdbVars
    PROVE  SingleUseInv'
<1>0. Ttl \in Nat /\ None # Ttl
    BY LmdbAssumption
<1>1. ASSUME NEW k \in Key, claims[k].take = 0, put_single_use(k) PROVE SingleUseInv'
    <2>1. /\ ~HeldAt(k, now) /\ single_use' = [single_use EXCEPT ![k] = Ttl]
          /\ claims' = [claims EXCEPT ![k].put = IF now < Ttl THEN @ + 1 ELSE @]
          /\ sweep' = sweep /\ now' = now
        BY <1>1 DEF put_single_use, ExpiryOf
    <2>2. now < Ttl => single_use[k] = None /\ claims[k].put = 0
        BY <1>0, <1>1, <2>1 DEF SingleUseInv, HeldAt
    <2>3. /\ \A j \in Key : j # k => claims'[j] = claims[j] /\ single_use'[j] = single_use[j]
          /\ claims'[k].take = 0 /\ single_use'[k] = Ttl
          /\ claims'[k].put = IF now < Ttl THEN claims[k].put + 1 ELSE claims[k].put
          /\ claims' \in [Key -> [put : Nat, take : Nat]] /\ single_use' \in [Key -> {None, Ttl}]
        BY <1>1, <2>1 DEF SingleUseInv
    <2> QED
        BY <1>0, <1>1, <2>1, <2>2, <2>3 DEF SingleUseInv
<1>2. ASSUME NEW k \in Key, take_single_use(k) PROVE SingleUseInv'
    <2>1. /\ single_use[k] # None /\ single_use' = [single_use EXCEPT ![k] = None]
          /\ claims' = [claims EXCEPT ![k].take = IF HeldAt(k, now) THEN @ + 1 ELSE @]
          /\ sweep' = sweep /\ now' = now
        BY <1>2 DEF take_single_use
    <2>2. HeldAt(k, now) <=> now < Ttl
        BY <1>0, <2>1 DEF SingleUseInv, HeldAt
    <2>3. /\ \A j \in Key : j # k => claims'[j] = claims[j] /\ single_use'[j] = single_use[j]
          /\ claims'[k].put = claims[k].put /\ single_use'[k] = None
          /\ claims'[k].take = IF now < Ttl THEN claims[k].take + 1 ELSE claims[k].take
          /\ claims' \in [Key -> [put : Nat, take : Nat]] /\ single_use' \in [Key -> {None, Ttl}]
        BY <2>1, <2>2 DEF SingleUseInv
    <2> QED
        BY <1>0, <2>1, <2>2, <2>3 DEF SingleUseInv
<1>3. ASSUME UNCHANGED <<single_use, claims>>, now' \in Nat, now' >= now, DOMAIN sweep' = DOMAIN sweep,
             sweep'.at \in 0..now', \A k \in Key : k \in sweep'.keys => Ttl <= now
      PROVE  SingleUseInv'
    BY <1>0, <1>3 DEF SingleUseInv
<1>4. CASE SignIn \/ Redeem \/ (\E h \in Hash : revoke_session(h)) \/ (\E f \in families : revoke_family(f))
           \/ (\E u \in User : revoke_all_user_sessions(u)) \/ UNCHANGED lmdbVars
    <2>1. UNCHANGED <<single_use, claims, sweep, now>>
        BY <1>4 DEF SignIn, store_refresh_token, Redeem, rotate_refresh_token, revoke_session,
            revoke_family, revoke_all_user_sessions, lmdbVars
    <2> QED
        BY <1>3, <2>1 DEF SingleUseInv
<1>5. CASE Tick
    BY <1>3, <1>5 DEF Tick, SingleUseInv
<1>6. CASE SweepRead \/ SweepFails
    <2>0. /\ Idle.at = 0 /\ Idle.keys = {}
          /\ DOMAIN Idle = {"pc", "at", "queue", "width", "halvings", "keys"}
        BY DEF Idle
    <2>1. /\ UNCHANGED <<single_use, claims, now>> /\ DOMAIN sweep' = DOMAIN sweep
          /\ sweep'.at \in {0, now} /\ sweep'.keys = {}
        <3> HIDE DEF Idle
        <3>1. CASE SweepRead
            BY <2>0, <3>1 DEF SweepRead, SingleUseInv
        <3>2. CASE SweepFails
            BY <2>0, <3>2 DEF SweepFails, SingleUseInv
        <3> QED
            BY <1>6, <3>1, <3>2
    <2> QED
        BY <1>3, <2>1 DEF SingleUseInv
<1>7. CASE commit_deletion_batch \/ BatchMapFull
    <2>1. /\ UNCHANGED <<single_use, claims, now>> /\ DOMAIN sweep' = DOMAIN sweep
          /\ sweep'.at = sweep.at /\ sweep'.keys = sweep.keys
        BY <1>7 DEF commit_deletion_batch, BatchMapFull, SingleUseInv
    <2> QED
        BY <1>3, <2>1 DEF SingleUseInv
<1>8. CASE SweepReadSingleUse
    <2>1. /\ UNCHANGED <<single_use, claims, now>> /\ DOMAIN sweep' = DOMAIN sweep
          /\ sweep'.at = sweep.at
          /\ sweep'.keys = {k \in Key : single_use[k] # None /\ single_use[k] <= sweep.at}
        BY <1>8 DEF SweepReadSingleUse, SingleUseInv
    <2>2. \A k \in Key : k \in sweep'.keys => Ttl <= now
        BY <1>0, <2>1 DEF SingleUseInv
    <2> QED
        BY <1>3, <2>1, <2>2 DEF SingleUseInv
<1>9. CASE SweepSingleUse
    <2>1. /\ single_use' = [k \in Key |-> IF k \in sweep.keys THEN None ELSE single_use[k]]
          /\ UNCHANGED <<claims, now>> /\ DOMAIN sweep' = DOMAIN sweep
          /\ sweep'.at = 0 /\ sweep'.keys = {}
        BY <1>9 DEF SweepSingleUse, Idle, SingleUseInv
    <2>2. \A k \in Key : k \in sweep.keys => ~(now < Ttl)
        BY <1>0 DEF SingleUseInv
    <2> QED
        BY <1>0, <2>1, <2>2 DEF SingleUseInv
<1> QED
    BY <1>1, <1>2, <1>4, <1>5, <1>6, <1>7, <1>8, <1>9 DEF LmdbNext, SweepStep

\* put_single_use and take_single_use of the LMDB store, beside its sweep: a key is claimed
\* once, and burned once, before it expires.
THEOREM LmdbSingleUse == LmdbSpec => []SingleUseHolds
<1>1. LmdbInit => SingleUseInv
    BY LmdbAssumption DEF LmdbInit, SingleUseInv, Idle
<1>2. SingleUseInv => SingleUseHolds
    BY DEF SingleUseInv, SingleUseHolds
<1> QED
    BY <1>1, <1>2, StepSingleUse, PTL DEF LmdbSpec
=============================================================================
