--------------------------- MODULE SessionPortProofs ---------------------------
(***************************************************************************)
(* The promises of SessionPort, proved for every set of hashes, families   *)
(* and users, every retention and every lifetime.                          *)
(*                                                                         *)
(* None of the promises is inductive alone: each rests on freshness, that  *)
(* what the store holds was minted by an earlier call.  PortIInv adds it.  *)
(***************************************************************************)
EXTENDS SessionPort, TLAPS

\* Everything the store holds, or ever held, was minted.
HoldsMinted ==
    \A h \in Hash :
        /\ live[h] # None => /\ h \in minted
                             /\ live[h].family_id \in families \cup {NoFamily}
        /\ retired[h] # None => /\ h \in minted
                                /\ retired[h].family_id \in families
                                /\ retired[h] = written[h]
        /\ written[h] # None => h \in minted /\ live[h] = None

\* A family has one owner: its live generation and its retired ones belong to
\* the same user, so revoking all of a user's rows leaves no half of a family.
OneOwner ==
    \A h, k \in Hash :
        /\ retired[h] # None /\ live[k] # None
           /\ retired[h].family_id = live[k].family_id
           => retired[h].user_id = live[k].user_id
        /\ retired[h] # None /\ retired[k] # None
           /\ retired[h].family_id = retired[k].family_id
           => retired[h].user_id = retired[k].user_id

PortIInv ==
    /\ PortTypeOK
    /\ HoldsMinted
    /\ OneOwner
    /\ SingleLiveGeneration
    /\ ClosedFamilyStaysDead
    /\ ReuseStaysDetectable
    /\ RetiredIsNotLive

\* The retention deadline of a record is a time.
LEMMA DeadlineType ==
    ASSUME NEW t \in Nat, NEW e \in Nat
    PROVE  retention_deadline(t, e) \in Nat
BY PortAssumption DEF retention_deadline, Earlier

\* The store starts with legacy rows only, which meet every promise.
LEMMA InitPort == PortInit => PortIInv
<1> SUFFICES ASSUME PortInit PROVE PortIInv
    OBVIOUS
<1>1. \A h \in Hash : live[h] # None =>
          live[h] \in Session /\ live[h].family_id = NoFamily /\ h \in Legacy
    BY PortAssumption DEF PortInit, LegacyRow, Session
<1>2. PortTypeOK
    BY <1>1, PortAssumption DEF PortInit, PortTypeOK
<1>3. HoldsMinted /\ OneOwner
    BY <1>1 DEF PortInit, HoldsMinted, OneOwner
<1>4. SingleLiveGeneration
    BY <1>1 DEF SingleLiveGeneration
<1>5. ClosedFamilyStaysDead /\ ReuseStaysDetectable /\ RetiredIsNotLive
    BY DEF PortInit, ClosedFamilyStaysDead, ReuseStaysDetectable, RetiredIsNotLive
<1> QED
    BY <1>2, <1>3, <1>4, <1>5 DEF PortIInv

\* A sign-in keeps every promise: its hash and its family are new.
LEMMA StepSignIn == PortIInv /\ SignIn => PortIInv'
<1> SUFFICES ASSUME PortIInv, SignIn PROVE PortIInv'
    OBVIOUS
<1> PICK h \in Hash \ minted, f \in Family \ families, u \in User :
        store_refresh_token(h, [user_id |-> u, family_id |-> f, generation |-> 0,
                                expires_at |-> now + Ttl])
    BY DEF SignIn
<1> DEFINE s == [user_id |-> u, family_id |-> f, generation |-> 0, expires_at |-> now + Ttl]
<1> USE DEF PortIInv
<1>0. s \in Session /\ s # None /\ s.family_id = f /\ f # NoFamily
    BY PortAssumption DEF PortTypeOK, Session
<1>1. /\ live' = [live EXCEPT ![h] = s]
      /\ minted' = minted \cup {h}
      /\ families' = families \cup {f}
      /\ UNCHANGED <<retired, now, closed, written>>
    BY <1>0 DEF store_refresh_token
<1> HIDE DEF s
<1>2. PortTypeOK'
    BY <1>0, <1>1 DEF PortTypeOK
<1>3. HoldsMinted' /\ OneOwner'
    BY <1>0, <1>1 DEF HoldsMinted, OneOwner, PortTypeOK
<1>4. SingleLiveGeneration'
    BY <1>0, <1>1 DEF HoldsMinted, SingleLiveGeneration, PortTypeOK
<1>5. ClosedFamilyStaysDead'
    BY <1>0, <1>1 DEF ClosedFamilyStaysDead, LiveOf, RetiredOf, PortTypeOK
<1>6. ReuseStaysDetectable' /\ RetiredIsNotLive'
    BY <1>0, <1>1 DEF ReuseStaysDetectable, RetiredIsNotLive, HoldsMinted, PortTypeOK
<1> QED
    BY <1>2, <1>3, <1>4, <1>5, <1>6

\* A redemption keeps every promise: the one live generation of the family is
\* the row the swap removes.
LEMMA StepRedeem == PortIInv /\ Redeem => PortIInv'
<1> SUFFICES ASSUME PortIInv, Redeem PROVE PortIInv'
    OBVIOUS
<1> PICK h \in Hash, h2 \in Hash \ minted, f \in Family, at \in 0..now :
        /\ live[h] # None
        /\ IF live[h].family_id = NoFamily THEN f \notin families
                                           ELSE f = live[h].family_id
        /\ rotate_refresh_token(h, h2,
               [user_id |-> live[h].user_id, family_id |-> f,
                generation |-> live[h].generation + 1,
                expires_at |-> live[h].expires_at], at)
    BY DEF Redeem
<1> DEFINE s == [user_id |-> live[h].user_id, family_id |-> f,
                 generation |-> live[h].generation + 1,
                 expires_at |-> live[h].expires_at]
           rec == [family_id |-> live[h].family_id, user_id |-> live[h].user_id,
                   successor_hash |-> h2, retired_at |-> at,
                   expires_at |-> retention_deadline(at, s.expires_at)]
           kept == live[h].family_id # NoFamily
<1> USE DEF PortIInv
<1>0. live[h] \in Session
    BY DEF PortTypeOK
<1>1. s \in Session /\ s # None /\ s.family_id = f /\ f # NoFamily
    BY <1>0, PortAssumption DEF Session
<1>2. kept => rec \in RetiredRefreshToken /\ rec # None
    <2>1. retention_deadline(at, s.expires_at) \in Nat
        BY <1>0, DeadlineType DEF PortTypeOK, Session
    <2> QED
        BY <2>1, <1>0, PortAssumption DEF PortTypeOK, Session, RetiredRefreshToken
<1>3. /\ live' = [live EXCEPT ![h] = None, ![h2] = s]
      /\ retired' = IF kept THEN [retired EXCEPT ![h] = rec] ELSE retired
      /\ written' = IF kept THEN [written EXCEPT ![h] = rec] ELSE written
      /\ minted' = minted \cup {h2}
      /\ families' = families \cup {f}
      /\ UNCHANGED <<now, closed>>
    BY <1>1 DEF rotate_refresh_token
<1>4. h \in minted /\ h2 # h /\ live[h2] = None /\ retired[h2] = None /\ written[h2] = None
    BY DEF HoldsMinted
<1>5. kept => rec.family_id = f /\ rec.successor_hash = h2 /\ f \in families
    BY DEF HoldsMinted
<1>6. f \notin closed
    BY <1>5 DEF ClosedFamilyStaysDead, LiveOf, PortTypeOK
<1>7. \A k \in Hash : live[k] # None /\ live[k].family_id = f => k = h
    BY <1>1, <1>5 DEF SingleLiveGeneration, HoldsMinted
<1> HIDE DEF s, rec
<1>8. PortTypeOK'
    BY <1>1, <1>2, <1>3 DEF PortTypeOK
<1>9. \A k \in Hash : live'[k] # None =>
          \/ (k = h2 /\ live'[k].family_id = f)
          \/ (k # h /\ k # h2 /\ live'[k] = live[k])
    BY <1>1, <1>3 DEF PortTypeOK
<1>10. \A k \in Hash : retired'[k] # None =>
          \/ (k = h /\ kept /\ retired'[k] = rec)
          \/ ((k # h \/ ~kept) /\ retired'[k] = retired[k])
    BY <1>2, <1>3 DEF PortTypeOK
<1>11. HoldsMinted'
    <2> SUFFICES ASSUME NEW k \in Hash
                 PROVE  /\ live'[k] # None => /\ k \in minted'
                                              /\ live'[k].family_id \in families' \cup {NoFamily}
                        /\ retired'[k] # None => /\ k \in minted'
                                                 /\ retired'[k].family_id \in families'
                                                 /\ retired'[k] = written'[k]
                        /\ written'[k] # None => k \in minted' /\ live'[k] = None
        BY DEF HoldsMinted
    <2>1. CASE k = h2
        BY <2>1, <1>1, <1>3, <1>4 DEF PortTypeOK
    <2>2. CASE k = h
        BY <2>2, <1>3, <1>4, <1>5 DEF PortTypeOK, HoldsMinted
    <2>3. CASE k # h /\ k # h2
        BY <2>3, <1>3 DEF PortTypeOK, HoldsMinted
    <2> QED
        BY <2>1, <2>2, <2>3
<1>12. SingleLiveGeneration'
    BY <1>7, <1>9 DEF SingleLiveGeneration
<1>13. ClosedFamilyStaysDead'
    <2> SUFFICES ASSUME NEW g \in closed, NEW k \in Hash
                 PROVE  /\ ~(live'[k] # None /\ live'[k].family_id = g)
                        /\ ~(retired'[k] # None /\ retired'[k].family_id = g)
        BY <1>3 DEF ClosedFamilyStaysDead, LiveOf, RetiredOf
    <2>1. /\ ~(live[k] # None /\ live[k].family_id = g)
          /\ ~(retired[k] # None /\ retired[k].family_id = g)
        BY DEF ClosedFamilyStaysDead, LiveOf, RetiredOf
    <2> QED
        BY <2>1, <1>5, <1>6, <1>9, <1>10
<1>14. ReuseStaysDetectable'
    BY <1>3 DEF ReuseStaysDetectable, PortTypeOK
<1>15. RetiredIsNotLive'
    <2> SUFFICES ASSUME NEW k \in Hash, retired'[k] # None
                 PROVE  live'[k] = None /\ retired'[k].successor_hash \in minted' \ {k}
        BY DEF RetiredIsNotLive
    <2>1. k # h2
        BY <1>4, <1>10
    <2>2. live'[k] = None
        BY <2>1, <1>3, <1>10 DEF RetiredIsNotLive, PortTypeOK
    <2>3. retired'[k].successor_hash \in minted' \ {k}
        BY <2>1, <1>3, <1>4, <1>5, <1>10 DEF RetiredIsNotLive
    <2> QED
        BY <2>2, <2>3
<1>16. OneOwner'
    <2>1. h2 \in Hash /\ live'[h2] = s /\ s.user_id = live[h].user_id
        BY <1>3 DEF PortTypeOK, s
    <2>2. kept => rec.user_id = live[h].user_id
        BY DEF rec
    <2>3. \A k \in Hash : retired[k] # None /\ retired[k].family_id = f =>
              retired[k].user_id = live[h].user_id
        BY <1>5 DEF OneOwner, HoldsMinted
    <2>4. \A k \in Hash : live'[k] # None /\ live'[k].family_id = f =>
              live'[k].user_id = live[h].user_id
        BY <2>1, <1>7, <1>9
    <2>5. \A k \in Hash : retired'[k] # None /\ retired'[k].family_id = f =>
              retired'[k].user_id = live[h].user_id
        BY <2>2, <2>3, <1>10
    <2>6. \A k \in Hash : live'[k] # None /\ live'[k].family_id # f => live'[k] = live[k]
        BY <1>9
    <2>7. \A k \in Hash : retired'[k] # None /\ retired'[k].family_id # f =>
              retired'[k] = retired[k]
        BY <1>5, <1>10
    <2> QED
        BY <2>4, <2>5, <2>6, <2>7 DEF OneOwner
<1> QED
    BY <1>8, <1>11, <1>12, <1>13, <1>14, <1>15, <1>16

\* Removing live rows, and removing records of families that are closed or
\* past their deadline, keeps every promise.
LEMMA StepRemove ==
    ASSUME PortIInv, NEW L \in SUBSET Hash, NEW R \in SUBSET Hash,
           live' = [h \in Hash |-> IF h \in L THEN None ELSE live[h]],
           retired' = [h \in Hash |-> IF h \in R THEN None ELSE retired[h]],
           UNCHANGED <<now, minted, families, written>>,
           closed \subseteq closed', closed' \subseteq families,
           \A f \in closed' \ closed : LiveOf(f) \subseteq L /\ RetiredOf(f) \subseteq R,
           \A h \in R : retired[h] # None =>
               retired[h].family_id \in closed' \/ retired[h].expires_at <= now
    PROVE  PortIInv'
<1> USE DEF PortIInv
<1>1. PortTypeOK'
    BY DEF PortTypeOK
<1>2. HoldsMinted' /\ OneOwner' /\ SingleLiveGeneration' /\ RetiredIsNotLive'
    BY DEF HoldsMinted, OneOwner, SingleLiveGeneration, RetiredIsNotLive
<1>3. ClosedFamilyStaysDead'
    BY DEF ClosedFamilyStaysDead, LiveOf, RetiredOf
<1>4. ReuseStaysDetectable'
    <2> SUFFICES ASSUME NEW h \in Hash, written[h] # None,
                        written[h].family_id \notin closed', now < written[h].expires_at
                 PROVE  retired'[h] = written[h]
        BY DEF ReuseStaysDetectable
    <2>1. retired[h] = written[h]
        BY DEF ReuseStaysDetectable
    <2>2. h \notin R
        <3> SUFFICES ASSUME h \in R PROVE FALSE
            OBVIOUS
        <3>1. written[h].expires_at <= now
            BY <2>1
        <3> QED
            BY <3>1 DEF PortTypeOK, RetiredRefreshToken
    <2> QED
        BY <2>1, <2>2
<1> QED
    BY <1>1, <1>2, <1>3, <1>4

\* Every step of the contract keeps every promise.
LEMMA StepPort == PortIInv /\ [PortNext]_portVars => PortIInv'
<1> SUFFICES ASSUME PortIInv, [PortNext]_portVars PROVE PortIInv'
    OBVIOUS
<1>1. CASE SignIn
    BY <1>1, StepSignIn
<1>2. CASE Redeem
    BY <1>2, StepRedeem
<1>3. ASSUME NEW h \in Hash, revoke_session(h) PROVE PortIInv'
    <2>1. live' = [k \in Hash |-> IF k \in {h} THEN None ELSE live[k]]
        BY <1>3 DEF revoke_session, PortIInv, PortTypeOK
    <2>2. retired' = [k \in Hash |-> IF k \in {} THEN None ELSE retired[k]]
        BY <1>3 DEF revoke_session, PortIInv, PortTypeOK
    <2>3. UNCHANGED <<now, minted, families, written, closed>> /\ closed \subseteq families
        BY <1>3 DEF revoke_session, PortIInv, PortTypeOK
    <2>4. {h} \in SUBSET Hash /\ {} \in SUBSET Hash
        OBVIOUS
    <2> QED
        BY <2>1, <2>2, <2>3, <2>4, StepRemove
<1>4. ASSUME NEW f \in families, revoke_family(f) PROVE PortIInv'
    <2>1. LiveOf(f) \in SUBSET Hash /\ RetiredOf(f) \in SUBSET Hash
        BY DEF LiveOf, RetiredOf
    <2>2. closed' = closed \cup {f} /\ closed' \subseteq families
        BY <1>4 DEF revoke_family, PortIInv, PortTypeOK
    <2>3. \A h \in RetiredOf(f) : retired[h].family_id \in closed'
        BY <2>2 DEF RetiredOf
    <2> QED
        BY <1>4, <2>1, <2>2, <2>3, StepRemove DEF revoke_family
<1>5. ASSUME NEW u \in User, revoke_all_user_sessions(u) PROVE PortIInv'
    <2> DEFINE L == {h \in Hash : live[h] # None /\ live[h].user_id = u}
               R == {h \in Hash : retired[h] # None /\ retired[h].user_id = u}
    <2>1. live' = [h \in Hash |-> IF h \in L THEN None ELSE live[h]]
        BY <1>5 DEF revoke_all_user_sessions
    <2>2. retired' = [h \in Hash |-> IF h \in R THEN None ELSE retired[h]]
        BY <1>5 DEF revoke_all_user_sessions
    <2>3. closed' = closed \cup (FamiliesOf(u) \ {NoFamily})
          /\ UNCHANGED <<now, minted, families, written>>
        BY <1>5 DEF revoke_all_user_sessions
    <2>4. FamiliesOf(u) \subseteq families \cup {NoFamily}
        BY DEF FamiliesOf, PortIInv, HoldsMinted
    <2>5. closed' \subseteq families
        BY <2>3, <2>4 DEF PortIInv, PortTypeOK
    <2>6. \A h \in R : retired[h].family_id \in closed'
        <3> SUFFICES ASSUME NEW h \in R PROVE retired[h].family_id \in closed'
            OBVIOUS
        <3>1. retired[h].family_id \in FamiliesOf(u)
            BY DEF FamiliesOf
        <3>2. retired[h].family_id # NoFamily
            BY PortAssumption DEF PortIInv, PortTypeOK, RetiredRefreshToken
        <3> QED
            BY <3>1, <3>2, <2>3
    <2>7. \A f \in FamiliesOf(u) \ {NoFamily} : LiveOf(f) \subseteq L /\ RetiredOf(f) \subseteq R
        <3> SUFFICES ASSUME NEW f \in FamiliesOf(u) \ {NoFamily}, NEW k \in Hash
                     PROVE  /\ live[k] # None /\ live[k].family_id = f => live[k].user_id = u
                            /\ retired[k] # None /\ retired[k].family_id = f =>
                                   retired[k].user_id = u
            BY DEF LiveOf, RetiredOf
        <3>1. PICK h \in Hash :
                  \/ live[h] # None /\ live[h].user_id = u /\ live[h].family_id = f
                  \/ retired[h] # None /\ retired[h].user_id = u /\ retired[h].family_id = f
            BY DEF FamiliesOf
        <3> QED
            BY <3>1 DEF PortIInv, OneOwner, SingleLiveGeneration
    <2> HIDE DEF L, R
    <2>8. L \in SUBSET Hash /\ R \in SUBSET Hash
        BY DEF L, R
    <2> QED
        BY <2>1, <2>2, <2>3, <2>5, <2>6, <2>7, <2>8, StepRemove
<1>6. ASSUME NEW at \in 0..(now + 1), NEW gone \in SUBSET Hash, cleanup_expired_sessions(at, gone) PROVE PortIInv'
    <2> DEFINE L == {h \in gone : live[h] # None /\ live[h].expires_at < at}
               R == {h \in gone : retired[h] # None /\ retired[h].expires_at < at}
    <2>1. /\ live' = [h \in Hash |-> IF h \in L THEN None ELSE live[h]]
          /\ retired' = [h \in Hash |-> IF h \in R THEN None ELSE retired[h]]
          /\ UNCHANGED <<now, minted, families, closed, written>>
        BY <1>6 DEF cleanup_expired_sessions
    <2>2. closed \subseteq families
        BY DEF PortIInv, PortTypeOK
    <2>3. L \in SUBSET Hash /\ R \in SUBSET Hash /\ \A h \in R : retired[h].expires_at <= now
        BY DEF PortIInv, PortTypeOK, RetiredRefreshToken
    <2> HIDE DEF L, R
    <2> QED
        BY <2>1, <2>2, <2>3, StepRemove
<1>7. CASE Tick
    <2>1. now' = now + 1 /\ UNCHANGED <<live, retired, minted, families, closed, written>>
        BY <1>7 DEF Tick
    <2>2. ReuseStaysDetectable'
        BY <2>1 DEF PortIInv, PortTypeOK, ReuseStaysDetectable, RetiredRefreshToken
    <2> QED
        BY <2>1, <2>2 DEF PortIInv, PortTypeOK, HoldsMinted, OneOwner, SingleLiveGeneration,
            ClosedFamilyStaysDead, LiveOf, RetiredOf, RetiredIsNotLive
<1>8. CASE UNCHANGED portVars
    BY <1>8 DEF portVars, PortIInv, PortTypeOK, HoldsMinted, OneOwner, SingleLiveGeneration,
        ClosedFamilyStaysDead, LiveOf, RetiredOf, RetiredIsNotLive, ReuseStaysDetectable
<1> QED
    BY <1>1, <1>2, <1>3, <1>4, <1>5, <1>6, <1>7, <1>8 DEF PortNext

\* What no step of the store undoes.
Monotone ==
    /\ minted \subseteq minted'
    /\ families \subseteq families'
    /\ closed \subseteq closed'
    /\ \A h \in minted : live'[h] = None \/ live'[h] = live[h]
    /\ \A h \in Hash : written[h] # None => written'[h] = written[h]

\* Every step of the contract is monotone: rows are installed only under new
\* hashes, and a retirement record is written once.
LEMMA StepMonotone == PortIInv /\ [PortNext]_portVars => Monotone
<1> SUFFICES ASSUME PortIInv, [PortNext]_portVars PROVE Monotone
    OBVIOUS
<1> USE DEF PortIInv, Monotone
<1>1. CASE SignIn
    BY <1>1 DEF SignIn, store_refresh_token, PortTypeOK
<1>2. CASE Redeem
    <2> PICK h \in Hash, h2 \in Hash \ minted, f \in Family, at \in 0..now :
            /\ live[h] # None
            /\ rotate_refresh_token(h, h2,
                   [user_id |-> live[h].user_id, family_id |-> f,
                    generation |-> live[h].generation + 1,
                    expires_at |-> live[h].expires_at], at)
        BY <1>2 DEF Redeem
    <2>1. written[h] = None
        BY DEF HoldsMinted
    <2> QED
        BY <2>1 DEF rotate_refresh_token, PortTypeOK
<1>3. CASE \E h \in Hash : revoke_session(h)
    BY <1>3 DEF revoke_session, PortTypeOK
<1>4. CASE \E f \in families : revoke_family(f)
    BY <1>4 DEF revoke_family, PortTypeOK
<1>5. CASE \E u \in User : revoke_all_user_sessions(u)
    BY <1>5 DEF revoke_all_user_sessions, PortTypeOK
<1>6. CASE \E at \in 0..(now + 1), gone \in SUBSET Hash : cleanup_expired_sessions(at, gone)
    BY <1>6 DEF cleanup_expired_sessions, PortTypeOK
<1>7. CASE Tick \/ UNCHANGED portVars
    BY <1>7 DEF Tick, portVars
<1> QED
    BY <1>1, <1>2, <1>3, <1>4, <1>5, <1>6, <1>7 DEF PortNext

\* SessionPort is type-correct, for every value of the constants.
THEOREM PortTypeCorrect == PortSpec => []PortTypeOK
<1>1. PortIInv => PortTypeOK
    BY DEF PortIInv
<1> QED
    BY <1>1, InitPort, StepPort, PTL DEF PortSpec

\* SR3 for every instance: at most one generation of a family is live.
THEOREM PortSingleLiveGeneration == PortSpec => []SingleLiveGeneration
<1>1. PortIInv => SingleLiveGeneration
    BY DEF PortIInv
<1> QED
    BY <1>1, InitPort, StepPort, PTL DEF PortSpec

\* SR5 for every instance: a family reported removed never comes back.
THEOREM PortClosedFamilyStaysDead == PortSpec => []ClosedFamilyStaysDead
<1>1. PortIInv => ClosedFamilyStaysDead
    BY DEF PortIInv
<1> QED
    BY <1>1, InitPort, StepPort, PTL DEF PortSpec

\* SR4 for every instance: reuse of a superseded generation stays detectable
\* until the retention deadline, unless its family was revoked.
THEOREM PortReuseStaysDetectable == PortSpec => []ReuseStaysDetectable
<1>1. PortIInv => ReuseStaysDetectable
    BY DEF PortIInv
<1> QED
    BY <1>1, InitPort, StepPort, PTL DEF PortSpec

\* A step installs a new generation of a family only from the family's own
\* live generation, with the same deadline.
LEMMA StepDeadline ==
    ASSUME PortIInv, [PortNext]_portVars, NEW h1 \in Hash, NEW h2 \in Hash,
           live[h1] # None, live'[h2] # None, live'[h2] # live[h2],
           live[h1].family_id = live'[h2].family_id
    PROVE  /\ live'[h2].expires_at = live[h1].expires_at
           /\ live'[h2].generation = live[h1].generation + 1
<1>1. CASE SignIn
    <2> PICK h \in Hash \ minted, f \in Family \ families, u \in User :
            store_refresh_token(h, [user_id |-> u, family_id |-> f, generation |-> 0,
                                    expires_at |-> now + Ttl])
        BY <1>1 DEF SignIn
    <2>1. h2 = h /\ live'[h2].family_id = f
        BY DEF store_refresh_token, PortIInv, PortTypeOK
    <2> QED
        BY <2>1, PortAssumption DEF PortIInv, HoldsMinted
<1>2. CASE Redeem
    <2> PICK h \in Hash, k \in Hash \ minted, f \in Family, at \in 0..now :
            /\ live[h] # None
            /\ IF live[h].family_id = NoFamily THEN f \notin families
                                               ELSE f = live[h].family_id
            /\ rotate_refresh_token(h, k,
                   [user_id |-> live[h].user_id, family_id |-> f,
                    generation |-> live[h].generation + 1,
                    expires_at |-> live[h].expires_at], at)
        BY <1>2 DEF Redeem
    <2>1. h2 = k
        BY DEF rotate_refresh_token, PortIInv, PortTypeOK
    <2>2. /\ live'[h2].family_id = f
          /\ live'[h2].expires_at = live[h].expires_at
          /\ live'[h2].generation = live[h].generation + 1
        BY <2>1 DEF rotate_refresh_token, PortIInv, PortTypeOK
    <2>3. f # NoFamily
        BY PortAssumption
    <2>4. h1 = h
        BY <2>2, <2>3 DEF PortIInv, HoldsMinted, SingleLiveGeneration
    <2> QED
        BY <2>2, <2>4
<1>3. CASE \E h \in Hash : revoke_session(h)
    BY <1>3 DEF revoke_session, PortIInv, PortTypeOK
<1>4. CASE \E f \in families : revoke_family(f)
    BY <1>4 DEF revoke_family
<1>5. CASE \E u \in User : revoke_all_user_sessions(u)
    BY <1>5 DEF revoke_all_user_sessions
<1>6. CASE \E at \in 0..(now + 1), gone \in SUBSET Hash : cleanup_expired_sessions(at, gone)
    BY <1>6 DEF cleanup_expired_sessions
<1>7. CASE Tick \/ UNCHANGED portVars
    BY <1>7 DEF Tick, portVars
<1> QED
    BY <1>1, <1>2, <1>3, <1>4, <1>5, <1>6, <1>7 DEF PortNext

\* The absolute deadline, for every instance: rotation never slides it.
THEOREM PortDeadlineNeverMoves == PortSpec => DeadlineNeverMoves
<1> DEFINE A == \A h1, h2 \in Hash :
                  /\ live[h1] # None /\ live'[h2] # None /\ live'[h2] # live[h2]
                  /\ live[h1].family_id = live'[h2].family_id
                  => /\ live'[h2].expires_at = live[h1].expires_at
                     /\ live'[h2].generation = live[h1].generation + 1
<1>1. PortIInv /\ [PortNext]_portVars => [A]_portVars
    BY StepDeadline
<1>2. PortSpec => [][A]_portVars
    BY <1>1, InitPort, StepPort, PTL DEF PortSpec
<1> QED
    BY <1>2 DEF DeadlineNeverMoves

-----------------------------------------------------------------------------
(* From one generation to the next. *)

\* As long as the generation that replaced another is live, it is of the family and the
\* user of the other's record, and the record does not outlive it.
Succession ==
    \A h \in Hash : written[h] # None =>
        /\ written[h].successor_hash \in minted
        /\ LET s == live[written[h].successor_hash]
           IN  s # None => /\ s.family_id = written[h].family_id
                           /\ s.user_id = written[h].user_id
                           /\ s.expires_at >= written[h].expires_at

\* Of the steps of the store, the swap is the one that writes a record, and it writes it
\* with the deadline, the family and the user of the row it installs.
LEMMA StepSuccession == PortIInv /\ Succession /\ [PortNext]_portVars => Succession'
<1> SUFFICES ASSUME PortIInv, Succession, [PortNext]_portVars PROVE Succession'
    OBVIOUS
<1>0. /\ live \in [Hash -> Session \cup {None}]
      /\ written \in [Hash -> RetiredRefreshToken \cup {None}]
      /\ minted \subseteq Hash /\ now \in Nat
    BY DEF PortIInv, PortTypeOK
<1>1. ASSUME \A k \in minted : live'[k] = live[k] \/ live'[k] = None,
             written' = written, minted \subseteq minted'
      PROVE  Succession'
    BY <1>0, <1>1 DEF Succession
<1>2. CASE Redeem
    <2>1. PICK h \in Hash, h2 \in Hash \ minted, f \in Family, at \in 0..now :
              /\ live[h] # None
              /\ IF live[h].family_id = NoFamily THEN f \notin families
                                                 ELSE f = live[h].family_id
              /\ rotate_refresh_token(h, h2,
                     [user_id |-> live[h].user_id, family_id |-> f,
                      generation |-> live[h].generation + 1,
                      expires_at |-> live[h].expires_at], at)
        BY <1>2 DEF Redeem
    <2> DEFINE s == [user_id |-> live[h].user_id, family_id |-> f,
                     generation |-> live[h].generation + 1,
                     expires_at |-> live[h].expires_at]
               rec == [family_id |-> live[h].family_id, user_id |-> live[h].user_id,
                       successor_hash |-> h2, retired_at |-> at,
                       expires_at |-> retention_deadline(at, s.expires_at)]
               kept == live[h].family_id # NoFamily
    <2>2. /\ live' = [live EXCEPT ![h] = None, ![h2] = s]
          /\ written' = IF kept THEN [written EXCEPT ![h] = rec] ELSE written
          /\ minted' = minted \cup {h2}
        BY <2>1 DEF rotate_refresh_token
    <2>3. h # h2 /\ live[h] \in Session /\ at \in Nat
        BY <1>0, <2>1 DEF PortIInv, HoldsMinted
    <2>4. s.expires_at >= rec.expires_at
        BY <2>3, PortAssumption DEF retention_deadline, Earlier, Session
    <2>5. live'[h2] = s /\ \A k \in Hash \ {h2} : live'[k] = live[k] \/ live'[k] = None
        BY <1>0, <2>2
    <2>6. ASSUME NEW k \in Hash, written'[k] # None
          PROVE  /\ written'[k].successor_hash \in minted'
                 /\ live'[written'[k].successor_hash] # None =>
                    /\ live'[written'[k].successor_hash].family_id = written'[k].family_id
                    /\ live'[written'[k].successor_hash].user_id = written'[k].user_id
                    /\ live'[written'[k].successor_hash].expires_at >= written'[k].expires_at
        <3>1. CASE k = h /\ kept
            <4>1. written'[k] = rec
                BY <1>0, <2>2, <3>1
            <4>2. s.family_id = rec.family_id /\ s.user_id = rec.user_id
                BY <2>1, <3>1
            <4>3. rec.successor_hash = h2
                OBVIOUS
            <4> QED
                BY <2>2, <2>4, <2>5, <4>1, <4>2, <4>3
        <3>2. CASE ~(k = h /\ kept)
            <4>1. written'[k] = written[k]
                BY <1>0, <2>2, <3>2
            <4>2. written[k].successor_hash \in minted
                BY <2>6, <4>1 DEF Succession
            <4>3. \/ live'[written[k].successor_hash] = live[written[k].successor_hash]
                  \/ live'[written[k].successor_hash] = None
                BY <1>0, <2>1, <2>5, <4>2
            <4> QED
                BY <2>2, <2>6, <4>1, <4>2, <4>3 DEF Succession
        <3> QED
            BY <3>1, <3>2
    <2> QED
        BY <2>6 DEF Succession
<1>3. CASE ~Redeem
    <2>1. written' = written
        BY <1>3 DEF PortNext, SignIn, store_refresh_token, revoke_session, revoke_family,
            revoke_all_user_sessions, cleanup_expired_sessions, Tick, portVars
    <2> QED
        BY <1>1, <2>1, StepMonotone DEF Monotone
<1> QED
    BY <1>2, <1>3

-----------------------------------------------------------------------------
(* Rotations under way in a store that takes several steps for one call.  c is  *)
(* the call: the row it names (hash), the replacement it was given (row, fresh) *)
(* and the replacement's family.                                                *)

Rotating == {"rotate", "selected", "deleted", "commit"}

\* A call whose row is a legacy one that is still there.
MovesLegacy(c) == live[c.hash] # None /\ live[c.hash].family_id = NoFamily

\* What a rotation was given still fits the row it names, if that row is there.
RotationFits(c) ==
    c.pc \in Rotating =>
        /\ c.hash \in minted
        /\ c.fresh \in Hash \ minted
        /\ c.row \in Session
        /\ c.family = c.row.family_id /\ c.family \in Family
        /\ live[c.hash] # None =>
              /\ c.row.user_id = live[c.hash].user_id
              /\ c.row.generation = live[c.hash].generation + 1
              /\ c.row.expires_at = live[c.hash].expires_at
              /\ live[c.hash].family_id # NoFamily => c.family = live[c.hash].family_id
        /\ MovesLegacy(c) => c.family \notin families
=============================================================================
