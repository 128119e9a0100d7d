------------------------------ MODULE DynamoProofs -----------------------------
(***************************************************************************)
(* Theorems about DynamoSessions, for every value of its constants: any    *)
(* number of calls, with requests that interleave, fail or never come.     *)
(*                                                                         *)
(* The argument: only a sign-in and a rotation add rows, and both move the *)
(* family's entry in the same transaction; a rotation is refused without   *)
(* an entry.  What a revocation has read and deleted stays deleted, since  *)
(* a hash never comes back; so if the entry is still the one it read,      *)
(* nothing of the family is left.                                          *)
(***************************************************************************)
EXTENDS DynamoSessions, SessionPortProofs

RotatePc == {"read roster", "transact"}
Pc == RotatePc \cup {"done", "logout", "scan", "read entry", "delete entry", "clear entry",
                     "read all", "delete all", "clear all"}

Entry == [live : Hash \cup {Blank, None}, members : SUBSET Hash]
Roster == [sessions : SUBSET Hash, families : [Family -> Entry], item : BOOLEAN, root : BOOLEAN]

CallRecord == [pc : Pc, hash : Hash \cup {None}, fresh : Hash \cup {None},
               old : Session \cup {None}, user : User \cup {None}, family : Family \cup {None},
               read : Roster \cup {None}, todo : SUBSET Item, attempt : Nat, at : Nat]

-----------------------------------------------------------------------------
(* The tables. *)

\* A member was minted, and what it is or was is of family f.
Member(h, f) ==
    /\ h \in minted
    /\ live[h] # None => live[h].family_id = f
    /\ written[h] # None => written[h].family_id = f

\* An entry, while there is one, names the live row of its family and remembers
\* every record; what it points at was not superseded.
EntryFits(u, f, e) ==
    e.live # None =>
        /\ f \in families
        /\ e.live # Blank => e.live \in e.members /\ written[e.live] = None
        /\ \A h \in e.members : Member(h, f)
        /\ \A h \in Hash :
              /\ live[h] # None /\ live[h].family_id = f =>
                    live[h].user_id = u /\ e.live = h /\ h \in e.members
              /\ retired[h] # None /\ retired[h].family_id = f => h \in e.members

EntriesFit == \A u \in User, f \in Family : EntryFits(u, f, roster[u].families[f])

\* A record stays until its deadline unless a revocation of its family has begun.
RecordsKept ==
    \A h \in Hash :
        written[h] # None /\ written[h].family_id \notin revoking /\ now < written[h].expires_at
            => retired[h] = written[h]

TablesInv ==
    /\ PortTypeOK
    /\ roster \in [User -> Roster]
    /\ revoking \subseteq Family
    /\ HoldsMinted
    /\ ClosedFamilyStaysDead
    /\ EntriesFit
    /\ RecordsKept

-----------------------------------------------------------------------------
(* The calls in progress. *)

FamilyGone(f) ==
    \A h \in Hash : /\ live[h] # None => live[h].family_id # f
                    /\ retired[h] # None => retired[h].family_id # f

\* The row a call has read is that hash's row, as long as there is one.
Holds(c) ==
    /\ c.hash \in minted /\ c.old \in Session /\ c.user = c.old.user_id
    /\ live[c.hash] # None => live[c.hash] = c.old

RotateFits(c) ==
    c.pc \in RotatePc =>
        /\ Holds(c)
        /\ c.fresh \in Hash \ minted /\ c.family \in Family
        /\ c.old.family_id = NoFamily => c.family \notin families
        /\ c.old.family_id # NoFamily => c.family = c.old.family_id /\ c.family \in families
        /\ c.pc = "transact" => c.read \in Roster

\* A record that a revocation may delete.
Condemned(h) ==
    /\ h \in minted /\ live[h] = None
    /\ written[h] # None => written[h].family_id \in revoking

\* What revoke_family has read of the entry is still to be deleted, or is gone for good.
DeletesEntry(c, e) ==
    /\ e.live # None
    /\ e.live # Blank =>
          e.live \in minted /\ (<<"SESSION", e.live>> \notin c.todo => live[e.live] = None)
    /\ \A h \in e.members :
          h # e.live /\ <<"RETIRED", h>> \notin c.todo =>
              h \in minted /\ live[h] = None /\ retired[h] = None

RevokeFits(c) ==
    /\ c.pc = "logout" => Holds(c)
    /\ c.pc \in {"scan", "read entry", "delete entry", "clear entry"} => c.family \in families
    /\ c.pc \in {"read entry", "delete entry", "clear entry", "read all", "delete all",
                 "clear all"} => c.user \in User
    /\ c.pc \in {"delete entry", "clear entry", "delete all"} => c.read \in Roster
    /\ c.pc \in {"delete entry", "delete all"} =>
          \A h \in Hash : <<"RETIRED", h>> \in c.todo => Condemned(h)
    /\ c.pc = "delete entry" => DeletesEntry(c, c.read.families[c.family])
    /\ c.pc = "clear entry" => FamilyGone(c.family)

CallFits(c) == RotateFits(c) /\ RevokeFits(c)

Apart(c, d) ==
    c.pc \in RotatePc /\ d.pc \in RotatePc =>
        /\ c.fresh # d.fresh
        /\ c.old.family_id = NoFamily => c.family # d.family

CallsInv ==
    /\ call \in [Call -> CallRecord]
    /\ \A p \in Call : CallFits(call[p])
    /\ \A p, q \in Call : p # q => Apart(call[p], call[q])

DynamoIInv == TablesInv /\ CallsInv

-----------------------------------------------------------------------------
(* Calls that others overtake. *)

\* What never turns back, whatever a step does: the tables only grow by hashes and
\* families that are new, and nothing that was there changes but to leave.
Forward ==
    /\ minted \subseteq minted' /\ families \subseteq families' /\ revoking \subseteq revoking'
    /\ \A h \in minted : live'[h] \in {live[h], None}
    /\ \A h \in minted : live[h] = None =>
           retired'[h] \in {retired[h], None} /\ written'[h] = written[h]
    /\ \A f \in families : FamilyGone(f) => FamilyGone(f)'

\* So a call's reads are as good after another's step, if its fresh names are still fresh.
LEMMA CallFitsOn ==
    ASSUME Forward, NEW c \in CallRecord, CallFits(c), minted \subseteq Hash,
           c.pc \in RotatePc => c.fresh \notin minted',
           c.pc \in RotatePc /\ c.old.family_id = NoFamily => c.family \notin families'
    PROVE  CallFits(c)'
<1>1. Holds(c) => Holds(c)'
    BY DynamoAssumption DEF Forward, Holds
<1>2. RotateFits(c)'
    BY <1>1 DEF Forward, CallFits, RotateFits
<1>3. ASSUME NEW h \in Hash, Condemned(h)
      PROVE  Condemned(h)'
    BY <1>3 DEF Forward, Condemned
<1>4. ASSUME NEW e \in Entry, DeletesEntry(c, e)
      PROVE  DeletesEntry(c, e)'
    BY <1>4 DEF Forward, DeletesEntry
<1>5. RevokeFits(c)'
    <2>1. c.pc = "delete entry" => DeletesEntry(c, c.read.families[c.family])'
        <3> SUFFICES ASSUME c.pc = "delete entry" PROVE DeletesEntry(c, c.read.families[c.family])'
            OBVIOUS
        <3>0. c.family \in Family \cup {None} /\ c.read \in Roster /\ c.family \in families
              /\ DeletesEntry(c, c.read.families[c.family])
            BY DEF CallFits, RevokeFits, CallRecord
        <3> QED
            BY <3>0 DEF Forward, DeletesEntry
    <2>2. c.pc = "clear entry" => FamilyGone(c.family)'
        BY DEF Forward, CallFits, RevokeFits
    <2>3. c.pc \in {"delete entry", "delete all"} =>
              \A h \in Hash : <<"RETIRED", h>> \in c.todo => Condemned(h)'
        BY <1>3 DEF CallFits, RevokeFits
    <2> QED
        BY <1>1, <2>1, <2>2, <2>3 DEF CallFits, RevokeFits, Forward
<1> QED
    BY <1>2, <1>5 DEF CallFits

-----------------------------------------------------------------------------
(* Steps that only take away: rows and records, entries, live pointers. *)

\* What may become of the entry e of family f: it stays, it goes, or its pointer is blanked
\* when no row of the family is left.
EntryShrinks(f, e, after) ==
    \/ after = e
    \/ after.live = None
    \/ /\ e.live # None /\ after = [e EXCEPT !.live = Blank]
       /\ \A h \in Hash : live'[h] # None => live'[h].family_id # f

Shrinks ==
    /\ UNCHANGED <<minted, families, written>>
    /\ live' \in [Hash -> Session \cup {None}]
    /\ retired' \in [Hash -> RetiredRefreshToken \cup {None}]
    /\ roster' \in [User -> Roster]
    /\ now' \in Nat /\ now <= now'
    /\ revoking \subseteq revoking' /\ revoking' \subseteq Family
    /\ \A h \in Hash : live'[h] \in {live[h], None}
    /\ \A h \in Hash :
          \/ retired'[h] = retired[h]
          \/ /\ retired'[h] = None
             /\ written[h] # None =>
                   written[h].family_id \in revoking' \/ written[h].expires_at <= now'
    /\ \A u \in User, f \in Family :
          EntryShrinks(f, roster[u].families[f], roster'[u].families[f])
    /\ \A f \in closed' : f \in closed \/ (f \in families /\ FamilyGone(f))

LEMMA ShrinksKeepsTables == TablesInv /\ Shrinks => TablesInv' /\ Forward
<1> SUFFICES ASSUME TablesInv, Shrinks PROVE TablesInv' /\ Forward
    OBVIOUS
<1>0. /\ live \in [Hash -> Session \cup {None}] /\ minted \subseteq Hash /\ families \subseteq Family
      /\ retired \in [Hash -> RetiredRefreshToken \cup {None}] /\ now \in Nat
      /\ written \in [Hash -> RetiredRefreshToken \cup {None}] /\ closed \subseteq families
      /\ minted' = minted /\ families' = families /\ written' = written
      /\ \A h \in Hash : live'[h] \in {live[h], None} /\ retired'[h] \in {retired[h], None}
    BY DEF TablesInv, PortTypeOK, Shrinks
<1>1. \A f : FamilyGone(f) => FamilyGone(f)'
    BY <1>0 DEF FamilyGone
<1>2. Forward
    BY <1>0, <1>1 DEF Forward, Shrinks
<1>3. \A f \in closed' : f \in families /\ FamilyGone(f)
    BY <1>0 DEF TablesInv, Shrinks, ClosedFamilyStaysDead, LiveOf, RetiredOf, FamilyGone
<1>4. PortTypeOK'
    BY <1>0, <1>3 DEF Shrinks, PortTypeOK
<1>5. HoldsMinted'
    BY <1>0 DEF TablesInv, HoldsMinted
<1>6. ClosedFamilyStaysDead'
    BY <1>1, <1>3 DEF ClosedFamilyStaysDead, LiveOf, RetiredOf, FamilyGone
<1>7. EntriesFit'
    <2> SUFFICES ASSUME NEW u \in User, NEW f \in Family
                 PROVE  EntryFits(u, f, roster[u].families[f])'
        BY DEF EntriesFit
    <2> PICK e : e = roster[u].families[f]
        OBVIOUS
    <2> PICK after : after = roster'[u].families[f]
        OBVIOUS
    <2>1. EntryFits(u, f, e) /\ EntryShrinks(f, e, after) /\ e \in Entry
        BY DEF TablesInv, EntriesFit, Shrinks, Roster
    <2>2. \A h \in Hash : Member(h, f) => Member(h, f)'
        BY <1>0 DEF Member
    <2>3. EntryFits(u, f, after)'
        <3>1. CASE after = e
            BY <1>0, <2>1, <2>2, <3>1 DEF EntryFits, Entry
        <3>2. CASE after.live = None
            BY <3>2 DEF EntryFits
        <3>3. CASE after = [e EXCEPT !.live = Blank] /\ e.live # None
                   /\ \A h \in Hash : live'[h] # None => live'[h].family_id # f
            <4>1. after.live = Blank /\ after.members = e.members
                BY <2>1, <3>3 DEF Entry
            <4> QED
                BY <1>0, <2>1, <2>2, <3>3, <4>1 DEF EntryFits, Entry
        <3> QED
            BY <2>1, <3>1, <3>2, <3>3 DEF EntryShrinks
    <2> QED
        BY <2>3
<1>8. RecordsKept'
    <2> SUFFICES ASSUME NEW h \in Hash, written[h] # None, written[h].family_id \notin revoking',
                        now' < written[h].expires_at
                 PROVE  retired'[h] = written[h]
        BY <1>0 DEF RecordsKept
    <2>1. written[h].expires_at \in Nat
        BY <1>0 DEF RetiredRefreshToken
    <2> QED
        BY <1>0, <2>1 DEF TablesInv, RecordsKept, Shrinks
<1> QED
    BY <1>2, <1>4, <1>5, <1>6, <1>7, <1>8 DEF TablesInv, Shrinks

\* A call's own step that leaves the tables alone, or only takes away: the call must fit.
LEMMA ShrinksKeepsCalls ==
    ASSUME TablesInv, CallsInv, Shrinks, NEW p \in Call, NEW c \in CallRecord,
           call' = [call EXCEPT ![p] = c],
           CallFits(c)', \A q \in Call : q # p => Apart(c, call[q]) /\ Apart(call[q], c)
    PROVE  DynamoIInv'
<1>1. TablesInv' /\ Forward
    BY ShrinksKeepsTables
<1>2. call' \in [Call -> CallRecord] /\ call'[p] = c
      /\ \A q \in Call : q # p => call'[q] = call[q]
    BY DEF CallsInv
<1>3. minted \subseteq Hash /\ minted' = minted /\ families' = families
    BY DEF TablesInv, PortTypeOK, Shrinks
<1>4. ASSUME NEW q \in Call, q # p
      PROVE  CallFits(call[q])'
    <2> PICK d : d = call[q]
        OBVIOUS
    <2>1. d \in CallRecord /\ CallFits(d)
        BY DEF CallsInv
    <2>2. CallFits(d)'
        BY <1>1, <1>3, <2>1, CallFitsOn DEF CallFits, RotateFits
    <2> QED
        BY <1>2, <1>4, <2>2
<1>5. CallFits(call[p])'
    BY <1>2
<1>6. \A q, r \in Call : q # r => Apart(call'[q], call'[r])
    BY <1>2 DEF CallsInv
<1> QED
    BY <1>1, <1>2, <1>4, <1>5, <1>6 DEF DynamoIInv, CallsInv, Apart

-----------------------------------------------------------------------------
(* Steps of a call that write nothing. *)

LEMMA DoneFits ==
    /\ Done \in CallRecord /\ CallFits(Done)'
    /\ \A d : Apart(Done, d) /\ Apart(d, Done)
BY DEF Done, CallRecord, Pc, CallFits, RotateFits, RevokeFits, RotatePc, Apart

LEMMA QuietShrinks ==
    ASSUME TablesInv, UNCHANGED <<portVars, roster>>,
           revoking \subseteq revoking', revoking' \subseteq Family
    PROVE  Shrinks
<1>1. UNCHANGED <<live, retired, now, minted, families, closed, written, roster>>
    BY DEF portVars
<1> QED
    BY <1>1 DEF TablesInv, PortTypeOK, Shrinks, EntryShrinks

\* A call that ends, or goes on to something other than a rotation, is apart from the others.
LEMMA QuietStep ==
    ASSUME DynamoIInv, NEW p \in Call, NEW c \in CallRecord,
           UNCHANGED <<portVars, roster>>, revoking \subseteq revoking', revoking' \subseteq Family,
           call' = [call EXCEPT ![p] = c], CallFits(c)', c.pc \notin RotatePc
    PROVE  DynamoIInv'
<1>1. TablesInv /\ CallsInv /\ Shrinks
    BY QuietShrinks DEF DynamoIInv
<1>2. \A q \in Call : q # p => Apart(c, call[q]) /\ Apart(call[q], c)
    BY DEF Apart
<1> QED
    BY <1>1, <1>2, ShrinksKeepsCalls

LEMMA QuietEnd ==
    ASSUME DynamoIInv, NEW p \in Call, Step(p, Done), UNCHANGED <<portVars, roster, revoking>>
    PROVE  DynamoIInv'
<1>1. Done \in CallRecord /\ CallFits(Done)' /\ Done.pc \notin RotatePc
    BY DoneFits DEF Done, RotatePc
<1>2. revoking' \subseteq Family
    BY DEF DynamoIInv, TablesInv
<1> QED
    BY <1>1, <1>2, QuietStep DEF Step

\* A rotation begins: its names are fresh, and the row it read is there.
LEMMA StepCallRotate ==
    ASSUME DynamoIInv, NEW p \in Call, NEW h \in Hash, NEW h2 \in FreshHash, NEW f \in Family,
           CallRotate(p, h, h2, f)
    PROVE  DynamoIInv'
<1>0. /\ TablesInv /\ CallsInv /\ call \in [Call -> CallRecord]
      /\ UNCHANGED <<live, retired, now, minted, families, closed, written, roster, revoking>>
      /\ live[h] \in Session /\ live[h].user_id \in User /\ now \in Nat /\ h \in minted
      /\ live[h].family_id \in families \cup {NoFamily} /\ minted \subseteq Hash
      /\ NoFamily \notin families /\ revoking \subseteq Family
    BY PortAssumption DEF DynamoIInv, CallsInv, TablesInv, PortTypeOK, HoldsMinted, CallRotate,
        portVars, Session
<1> PICK c : c = [Done EXCEPT !.pc = "read roster", !.hash = h, !.fresh = h2, !.family = f,
                   !.user = live[h].user_id, !.old = live[h], !.at = now]
    OBVIOUS
<1>1. /\ c.pc = "read roster" /\ c.hash = h /\ c.fresh = h2 /\ c.family = f
      /\ c.user = live[h].user_id /\ c.old = live[h] /\ c.at = now /\ c.read = None
      /\ c.todo = {} /\ c.attempt = 0
    BY DEF Done
<1>2. c \in CallRecord
    BY <1>0, <1>1 DEF Done, CallRecord, Pc, RotatePc, FreshHash
<1>3. call' = [call EXCEPT ![p] = c]
    BY DEF CallRotate, Step
<1>4. /\ h2 \in Hash \ minted /\ \A q \in Call : h2 # call[q].fresh
      /\ live[h].family_id = NoFamily => f \notin families /\ \A q \in Call : f # call[q].family
      /\ live[h].family_id # NoFamily => f = live[h].family_id /\ f \in families
    BY <1>0 DEF CallRotate, FreshHash, FreshFamily
<1>5. CallFits(c)'
    BY <1>0, <1>1, <1>4 DEF CallFits, RotateFits, RevokeFits, RotatePc, Holds
<1>6. ASSUME NEW q \in Call, q # p
      PROVE  Apart(c, call[q]) /\ Apart(call[q], c)
    <2>1. RotateFits(call[q])
        BY <1>0 DEF CallsInv, CallFits
    <2> QED
        BY <1>0, <1>1, <1>4, <2>1 DEF Apart, RotateFits
<1>7. Shrinks
    BY <1>0, QuietShrinks DEF portVars
<1> QED
    BY <1>0, <1>2, <1>3, <1>5, <1>6, <1>7, ShrinksKeepsCalls

LEMMA StepReadRoster ==
    ASSUME DynamoIInv, NEW p \in Call, ReadRosterForRotate(p)
    PROVE  DynamoIInv'
<1> PICK d : d = call[p]
    OBVIOUS
<1> PICK r : r = roster[d.user]
    OBVIOUS
<1> DEFINE c == [d EXCEPT !.pc = "transact", !.read = r]
<1>1. CASE Step(p, Done)
    BY <1>1, QuietEnd DEF ReadRosterForRotate
<1>2. CASE Step(p, c)
    <2>0. /\ TablesInv /\ CallsInv /\ call \in [Call -> CallRecord] /\ d \in CallRecord
          /\ UNCHANGED <<live, retired, now, minted, families, closed, written, roster, revoking>>
          /\ d.pc = "read roster" /\ RotateFits(d) /\ revoking \subseteq Family
        BY DEF DynamoIInv, CallsInv, ReadRosterForRotate, portVars, CallFits, TablesInv
    <2>1. r \in Roster
        BY <2>0 DEF TablesInv, RotateFits, RotatePc, Holds, Session
    <2>2. /\ c.pc = "transact" /\ c.hash = d.hash /\ c.fresh = d.fresh
          /\ c.family = d.family /\ c.user = d.user /\ c.old = d.old
          /\ c.read = r /\ c \in CallRecord
        BY <2>0, <2>1 DEF CallRecord, Pc, RotatePc
    <2>3. call' = [call EXCEPT ![p] = c]
        BY <1>2 DEF Step
    <2> HIDE DEF c
    <2>4. CallFits(c)'
        <3>1. /\ Holds(d) /\ d.fresh \in Hash \ minted /\ d.family \in Family
              /\ d.old.family_id = NoFamily => d.family \notin families
              /\ d.old.family_id # NoFamily =>
                    d.family = d.old.family_id /\ d.family \in families
            BY <2>0 DEF RotateFits, RotatePc
        <3>2. Holds(c)'
            BY <2>0, <2>2, <3>1 DEF Holds
        <3>3. RotateFits(c)'
            BY <2>0, <2>1, <2>2, <3>1, <3>2 DEF RotateFits
        <3>4. RevokeFits(c)'
            BY <2>2 DEF RevokeFits
        <3> QED
            BY <3>3, <3>4 DEF CallFits
    <2>5. ASSUME NEW q \in Call, q # p
          PROVE  Apart(c, call[q]) /\ Apart(call[q], c)
        <3>1. Apart(call[p], call[q]) /\ Apart(call[q], call[p]) /\ call[p].pc \in RotatePc
            BY <2>0, <2>5 DEF CallsInv, RotatePc
        <3> QED
            BY <2>2, <3>1 DEF Apart
    <2>6. Shrinks
        BY <2>0, QuietShrinks DEF portVars
    <2> QED
        BY <2>0, <2>2, <2>3, <2>4, <2>5, <2>6, ShrinksKeepsCalls
<1> QED
    BY <1>1, <1>2 DEF ReadRosterForRotate

LEMMA StepBegin ==
    ASSUME DynamoIInv, NEW p \in Call,
           \/ \E h \in Hash : CallRevoke(p, h)
           \/ \E f \in families : CallRevokeFamily(p, f)
           \/ \E u \in User : CallRevokeAll(p, u)
    PROVE  DynamoIInv'
<1>0. /\ PortTypeOK /\ HoldsMinted /\ revoking \subseteq Family
      /\ UNCHANGED <<live, retired, now, minted, families, closed, written, roster, revoking>>
      /\ minted \subseteq Hash /\ families \subseteq Family
      /\ live \in [Hash -> Session \cup {None}]
    BY DEF DynamoIInv, TablesInv, PortTypeOK, CallRevoke, CallRevokeFamily, CallRevokeAll, portVars
<1>1. ASSUME NEW h \in Hash, CallRevoke(p, h)
      PROVE  DynamoIInv'
    <2> PICK s : s = live[h]
        OBVIOUS
    <2> DEFINE c == [Done EXCEPT !.pc = "logout", !.hash = h, !.old = s, !.user = s.user_id]
    <2>1. h \in minted /\ live[h] # None /\ s \in Session /\ s.user_id \in User
        BY <1>0, <1>1 DEF CallRevoke, HoldsMinted, Session
    <2>2. /\ c.pc = "logout" /\ c.hash = h /\ c.old = s /\ c.user = s.user_id
          /\ c \in CallRecord /\ c.pc \notin RotatePc
        BY <2>1 DEF Done, CallRecord, Pc, RotatePc
    <2>3. call' = [call EXCEPT ![p] = c]
        BY <1>1 DEF CallRevoke, Step
    <2> HIDE DEF c
    <2>4. CallFits(c)'
        BY <1>0, <2>1, <2>2 DEF CallFits, RotateFits, RevokeFits, Holds, RotatePc
    <2> QED
        BY <1>0, <2>2, <2>3, <2>4, QuietStep DEF portVars
<1>2. ASSUME NEW f \in families, CallRevokeFamily(p, f)
      PROVE  DynamoIInv'
    <2> DEFINE c == [Done EXCEPT !.pc = "scan", !.family = f, !.todo = Item]
    <2>0. f \in Family
        BY <1>0, <1>2
    <2>1. /\ c.pc = "scan" /\ c.family = f /\ c \in CallRecord /\ c.pc \notin RotatePc
        BY <2>0 DEF Done, CallRecord, Pc, RotatePc
    <2>2. call' = [call EXCEPT ![p] = c]
        BY <1>2 DEF CallRevokeFamily, Step
    <2> HIDE DEF c
    <2>3. f \in families' /\ CallFits(c)'
        BY <1>0, <1>2, <2>1 DEF CallFits, RotateFits, RevokeFits, RotatePc
    <2> QED
        BY <1>0, <2>1, <2>2, <2>3, QuietStep DEF portVars
<1>3. ASSUME NEW u \in User, CallRevokeAll(p, u)
      PROVE  DynamoIInv'
    <2> DEFINE c == [Done EXCEPT !.pc = "read all", !.user = u, !.attempt = 1]
    <2>1. /\ c.pc = "read all" /\ c.user = u /\ c \in CallRecord /\ c.pc \notin RotatePc
        BY DEF Done, CallRecord, Pc, RotatePc
    <2>2. call' = [call EXCEPT ![p] = c]
        BY <1>3 DEF CallRevokeAll, Step
    <2> HIDE DEF c
    <2>3. CallFits(c)'
        BY <2>1 DEF CallFits, RotateFits, RevokeFits, RotatePc
    <2> QED
        BY <1>0, <2>1, <2>2, <2>3, QuietStep DEF portVars
<1> QED
    BY <1>1, <1>2, <1>3

\* Whoever the scan finds to own a row is a user.
LEMMA StepScan ==
    ASSUME DynamoIInv, NEW p \in Call, user_ids_for_family(p)
    PROVE  DynamoIInv'
<1> PICK d : d = call[p]
    OBVIOUS
<1>0. /\ d \in CallRecord /\ d.pc = "scan" /\ d.family \in families
      /\ UNCHANGED <<live, retired, now, minted, families, closed, written, roster, revoking>>
      /\ live \in [Hash -> Session \cup {None}] /\ revoking \subseteq Family
      /\ retired \in [Hash -> RetiredRefreshToken \cup {None}]
    BY DEF DynamoIInv, TablesInv, PortTypeOK, CallsInv, CallFits, RevokeFits, user_ids_for_family,
        portVars
<1>1. PICK page \in IF d.todo = Item THEN FirstPage ELSE {d.todo} :
          LET owners == OwnerIn(page, d.family)
              rest   == d.todo \ page
          IN  Step(p, IF owners # {}
                      THEN [d EXCEPT !.pc = "read entry", !.todo = {}, !.attempt = 1,
                                     !.user = CHOOSE u \in owners : TRUE]
                      ELSE IF rest = {} THEN Done ELSE [d EXCEPT !.todo = rest])
    BY DEF user_ids_for_family
<1>2. page \subseteq Item /\ d.todo \subseteq Item
    BY <1>0 DEF CallRecord, FirstPage, Item
<1> PICK owners : owners = OwnerIn(page, d.family)
    OBVIOUS
<1>3. owners \subseteq User
    BY <1>0, <1>2 DEF OwnerIn, Item, Session, RetiredRefreshToken
<1>4. CASE owners # {}
    <2> PICK u : u = CHOOSE o \in owners : TRUE
        OBVIOUS
    <2> DEFINE c == [d EXCEPT !.pc = "read entry", !.todo = {}, !.attempt = 1, !.user = u]
    <2>1. u \in User
        BY <1>3, <1>4
    <2>2. /\ c.pc = "read entry" /\ c.user = u /\ c.family = d.family /\ c \in CallRecord
          /\ c.pc \notin RotatePc
        BY <1>0, <2>1 DEF CallRecord, Pc, RotatePc
    <2>3. call' = [call EXCEPT ![p] = c]
        BY <1>1, <1>4 DEF Step
    <2> HIDE DEF c
    <2>4. CallFits(c)'
        BY <1>0, <2>1, <2>2 DEF CallFits, RotateFits, RevokeFits, RotatePc
    <2> QED
        BY <1>0, <2>2, <2>3, <2>4, QuietStep DEF portVars
<1>5. CASE owners = {} /\ d.todo \ page = {}
    <2>1. Step(p, Done)
        BY <1>1, <1>5
    <2> QED
        BY <1>0, <2>1, QuietEnd DEF portVars
<1>6. CASE owners = {} /\ d.todo \ page # {}
    <2> PICK rest : rest = d.todo \ page
        OBVIOUS
    <2> DEFINE c == [d EXCEPT !.todo = rest]
    <2>1. rest \subseteq Item
        BY <1>2
    <2>2. /\ c.pc = "scan" /\ c.family = d.family /\ c \in CallRecord /\ c.pc \notin RotatePc
        BY <1>0, <2>1 DEF CallRecord, RotatePc
    <2>3. call' = [call EXCEPT ![p] = c]
        BY <1>1, <1>6 DEF Step
    <2> HIDE DEF c
    <2>4. CallFits(c)'
        BY <1>0, <2>2 DEF CallFits, RotateFits, RevokeFits, RotatePc
    <2> QED
        BY <1>0, <2>2, <2>3, <2>4, QuietStep DEF portVars
<1> QED
    BY <1>4, <1>5, <1>6

\* Of what an entry remembers, everything but the row it points at is a record, if it is there.
LEMMA MembersCondemned ==
    ASSUME TablesInv, NEW u \in User, NEW f \in Family, NEW e, e = roster[u].families[f],
           e.live # None, NEW h \in Hash, h \in e.members, h # e.live
    PROVE  /\ h \in minted /\ live[h] = None
           /\ written[h] # None => written[h].family_id = f
<1>1. EntryFits(u, f, e)
    BY DEF TablesInv, EntriesFit
<1> QED
    BY <1>1 DEF EntryFits, Member

\* revoke_family reads the entry: all of it is still to be deleted.
LEMMA StepReadEntry ==
    ASSUME DynamoIInv, NEW p \in Call, ReadEntry(p)
    PROVE  DynamoIInv'
<1> PICK d : d = call[p]
    OBVIOUS
<1> PICK r : r = roster[d.user]
    OBVIOUS
<1> PICK e : e = r.families[d.family]
    OBVIOUS
<1>0. /\ TablesInv /\ d \in CallRecord /\ d.pc = "read entry" /\ d.family \in families
      /\ d.user \in User /\ d.family \in Family
      /\ UNCHANGED <<live, retired, now, minted, families, closed, written, roster>>
      /\ live \in [Hash -> Session \cup {None}] /\ revoking \subseteq Family
      /\ r \in Roster /\ e \in Entry /\ e = roster[d.user].families[d.family]
    <2>1. /\ TablesInv /\ d \in CallRecord /\ d.pc = "read entry" /\ d.family \in families
          /\ d.user \in User /\ PortTypeOK
        BY DEF DynamoIInv, TablesInv, CallsInv, CallFits, RevokeFits, ReadEntry
    <2>2. d.family \in Family /\ r \in Roster
        BY <2>1 DEF PortTypeOK, TablesInv
    <2> QED
        BY <2>1, <2>2 DEF PortTypeOK, Roster, TablesInv, ReadEntry, portVars
<1>1. CASE Step(p, Done) /\ UNCHANGED revoking
    BY <1>0, <1>1, QuietEnd DEF portVars
<1>2. CASE ~(Step(p, Done) /\ UNCHANGED revoking)
    <2> PICK todo : todo = (IF e.live = Blank THEN {} ELSE {<<"SESSION", e.live>>})
                           \cup {<<"RETIRED", h>> : h \in e.members \ {e.live}}
        OBVIOUS
    <2> DEFINE c == [d EXCEPT !.pc = "delete entry", !.read = r, !.todo = todo]
    <2>1. Step(p, c) /\ revoking' = revoking \cup {d.family} /\ e.live # None
        BY <1>0, <1>2 DEF ReadEntry
    <2>2. todo \subseteq Item
        <3>1. e.members \subseteq Hash /\ (e.live # Blank => e.live \in Hash)
            BY <1>0, <2>1 DEF Entry
        <3>2. \A k \in todo : \/ e.live # Blank /\ k = <<"SESSION", e.live>>
                              \/ \E h \in e.members : k = <<"RETIRED", h>>
            OBVIOUS
        <3>3. \A h \in Hash : <<"SESSION", h>> \in Item /\ <<"RETIRED", h>> \in Item
            BY DEF Item
        <3>4. ASSUME NEW k \in todo
              PROVE  k \in Item
            <4>1. CASE e.live # Blank /\ k = <<"SESSION", e.live>>
                <5>1. e.live \in Hash
                    BY <3>1, <4>1
                <5> QED
                    BY <3>3, <4>1, <5>1
            <4>2. CASE \E h \in e.members : k = <<"RETIRED", h>>
                BY <3>1, <3>3, <4>2
            <4> QED
                BY <3>2, <3>4, <4>1, <4>2
        <3> QED
            BY <3>4
    <2>3. /\ \A h \in Hash : <<"RETIRED", h>> \in todo => h \in e.members /\ h # e.live
          /\ \A h \in e.members : h # e.live => <<"RETIRED", h>> \in todo
          /\ e.live # Blank => <<"SESSION", e.live>> \in todo
        OBVIOUS
    <2> HIDE DEF c
    <2>4. /\ c.pc = "delete entry" /\ c.user = d.user /\ c.family = d.family /\ c.read = r
          /\ c.todo = todo /\ c \in CallRecord /\ c.pc \notin RotatePc
        BY <1>0, <2>2 DEF CallRecord, Pc, RotatePc, c
    <2>5. call' = [call EXCEPT ![p] = c]
        BY <2>1 DEF Step
    <2>6. ASSUME NEW h \in Hash, <<"RETIRED", h>> \in todo
          PROVE  Condemned(h)'
        <3>1. h \in minted /\ live[h] = None /\ (written[h] # None => written[h].family_id = d.family)
            <4>1. h \in e.members /\ h # e.live
                BY <2>3, <2>6
            <4> QED
                BY <1>0, <2>1, <4>1, MembersCondemned
        <3> QED
            BY <1>0, <2>1, <3>1 DEF Condemned
    <2>7. DeletesEntry(c, e)'
        <3>1. e.live # Blank => e.live \in minted
            <4>1. EntryFits(d.user, d.family, e)
                BY <1>0 DEF TablesInv, EntriesFit
            <4> QED
                BY <2>1, <4>1 DEF EntryFits, Member
        <3> QED
            BY <1>0, <2>1, <2>3, <2>4, <3>1 DEF DeletesEntry
    <2>8. CallFits(c)'
        BY <1>0, <2>4, <2>6, <2>7 DEF CallFits, RotateFits, RevokeFits, RotatePc
    <2> QED
        BY <1>0, <2>1, <2>4, <2>5, <2>8, QuietStep DEF portVars
<1> QED
    BY <1>1, <1>2

\* The entry is the one that was read, and what that one named is gone: so is the family.
LEMMA StepConfirmEntry ==
    ASSUME DynamoIInv, NEW p \in Call, ConfirmEntry(p)
    PROVE  DynamoIInv'
<1> PICK d : d = call[p]
    OBVIOUS
<1> PICK e : e = d.read.families[d.family]
    OBVIOUS
<1>0. /\ TablesInv /\ d \in CallRecord /\ d.pc = "delete entry" /\ d.family \in families
      /\ d.user \in User /\ d.read \in Roster /\ d.todo = {} /\ DeletesEntry(d, e)
      /\ UNCHANGED <<live, retired, now, minted, families, closed, written, roster, revoking>>
      /\ revoking \subseteq Family /\ d.attempt \in Nat
    BY DEF DynamoIInv, TablesInv, CallsInv, CallFits, RevokeFits, ConfirmEntry, portVars, CallRecord
<1>1. CASE roster[d.user].families[d.family] = e
    <2> DEFINE c == [d EXCEPT !.pc = "clear entry"]
    <2>1. call' = [call EXCEPT ![p] = c]
        BY <1>1 DEF ConfirmEntry, Step
    <2>2. /\ c.pc = "clear entry" /\ c.user = d.user /\ c.family = d.family /\ c.read = d.read
          /\ c \in CallRecord /\ c.pc \notin RotatePc
        BY <1>0 DEF CallRecord, Pc, RotatePc
    <2> HIDE DEF c
    <2>3. FamilyGone(d.family)
        <3>1. EntryFits(d.user, d.family, e) /\ e.live # None /\ d.family \in Family
            BY <1>0, <1>1 DEF TablesInv, EntriesFit, DeletesEntry, PortTypeOK
        <3>2. ASSUME NEW h \in Hash, live[h] # None, live[h].family_id = d.family
              PROVE  FALSE
            <4>1. e.live = h /\ h # Blank
                BY <3>1, <3>2, DynamoAssumption DEF EntryFits, Blank
            <4> QED
                BY <1>0, <3>2, <4>1 DEF DeletesEntry
        <3>3. ASSUME NEW h \in Hash, retired[h] # None, retired[h].family_id = d.family
              PROVE  FALSE
            <4>1. h \in e.members /\ written[h] # None
                BY <1>0, <3>1, <3>3 DEF EntryFits, TablesInv, HoldsMinted
            <4>2. h # e.live
                BY <3>1, <4>1, DynamoAssumption DEF EntryFits, Blank
            <4> QED
                BY <1>0, <3>3, <4>1, <4>2 DEF DeletesEntry
        <3> QED
            BY <3>2, <3>3 DEF FamilyGone
    <2>4. CallFits(c)'
        BY <1>0, <2>2, <2>3 DEF CallFits, RotateFits, RevokeFits, RotatePc, FamilyGone
    <2> QED
        BY <1>0, <2>1, <2>2, <2>4, QuietStep DEF portVars
<1>2. CASE roster[d.user].families[d.family] # e
    <2> DEFINE c == [d EXCEPT !.pc = "read entry", !.attempt = @ + 1, !.read = None]
    <2>1. call' = [call EXCEPT ![p] = c]
        BY <1>2 DEF ConfirmEntry, Step
    <2>2. /\ c.pc = "read entry" /\ c.user = d.user /\ c.family = d.family
          /\ c \in CallRecord /\ c.pc \notin RotatePc
        <3>0. d.attempt \in Nat
            BY <1>0
        <3>1. d.attempt + 1 \in Nat
            BY <3>0
        <3> QED
            BY <1>0, <3>1 DEF CallRecord, Pc, RotatePc
    <2> HIDE DEF c
    <2>3. CallFits(c)'
        BY <1>0, <2>2 DEF CallFits, RotateFits, RevokeFits, RotatePc
    <2> QED
        BY <1>0, <2>1, <2>2, <2>3, QuietStep DEF portVars
<1> QED
    BY <1>1, <1>2

\* revoke_all_user_sessions reads the roster: what it will delete of records is condemned.
LEMMA StepReadAll ==
    ASSUME DynamoIInv, NEW p \in Call, ReadAll(p)
    PROVE  DynamoIInv'
<1> DEFINE d == call[p]
           r == roster[d.user]
           lives == {r.families[f].live : f \in NamedFamilies(r)}
           past == (UNION {r.families[f].members : f \in NamedFamilies(r)}) \ lives
           todo == {<<"SESSION", h>> : h \in r.sessions} \cup {<<"RETIRED", h>> : h \in past}
           c == [d EXCEPT !.pc = "delete all", !.read = r, !.todo = todo]
<1>0. /\ TablesInv /\ d \in CallRecord /\ d.pc = "read all" /\ d.user \in User
      /\ UNCHANGED <<live, retired, now, minted, families, closed, written, roster>>
      /\ revoking \subseteq Family /\ r \in Roster
    BY DEF DynamoIInv, TablesInv, CallsInv, CallFits, RevokeFits, ReadAll, portVars
<1>1. CASE Step(p, Done) /\ UNCHANGED revoking
    BY <1>0, <1>1, QuietEnd DEF portVars
<1>2. CASE Step(p, c) /\ revoking' = revoking \cup NamedFamilies(r)
    <2>0. \A f \in NamedFamilies(r) : r.families[f].live \in lives
        OBVIOUS
    <2> HIDE DEF lives
    <2>1. ASSUME NEW x \in past
          PROVE  x \notin lives /\ \E f \in NamedFamilies(r) : x \in r.families[f].members
        <3>1. PICK S \in {r.families[f].members : f \in NamedFamilies(r)} : x \in S
            BY <2>1
        <3>2. PICK f \in NamedFamilies(r) : S = r.families[f].members
            OBVIOUS
        <3>3. x \notin lives
            BY <2>1
        <3> HIDE DEF past, r
        <3> QED
            BY <3>1, <3>2, <3>3
    <2>2. \A k \in todo : (\E h \in r.sessions : k = <<"SESSION", h>>) \/ \E h \in past : k = <<"RETIRED", h>>
        OBVIOUS
    <2> HIDE DEF past, todo
    <2>3. ASSUME NEW h \in past
          PROVE  /\ h \in Hash
                 /\ \E f \in NamedFamilies(r) : h \in r.families[f].members /\ h # r.families[f].live
        <3>1. PICK f \in NamedFamilies(r) : h \in r.families[f].members
            BY <2>1, <2>3
        <3>2. h # r.families[f].live
            BY <2>0, <2>1, <2>3, <3>1
        <3>3. r.families[f].members \subseteq Hash
            BY <1>0, <3>1 DEF Roster, Entry, NamedFamilies
        <3> QED
            BY <3>1, <3>2, <3>3
    <2>4. todo \subseteq Item
        <3>1. \A h \in Hash : <<"SESSION", h>> \in Item /\ <<"RETIRED", h>> \in Item
            BY DEF Item
        <3>2. r.sessions \subseteq Hash
            BY <1>0 DEF Roster
        <3>3. past \subseteq Hash
            BY <2>3
        <3>4. ASSUME NEW k \in todo
              PROVE  k \in Item
            <4>1. CASE \E h \in r.sessions : k = <<"SESSION", h>>
                BY <3>1, <3>2, <4>1
            <4>2. CASE \E h \in past : k = <<"RETIRED", h>>
                BY <3>1, <3>3, <4>2
            <4> QED
                BY <2>2, <3>4, <4>1, <4>2
        <3> QED
            BY <3>4
    <2>5. ASSUME NEW h, <<"RETIRED", h>> \in todo
          PROVE  h \in past
        BY <2>2, <2>5
    <2>6. /\ c.pc = "delete all" /\ c.user = d.user /\ c.read = r
          /\ c.todo = todo /\ c \in CallRecord /\ c.pc \notin RotatePc
        BY <1>0, <2>4 DEF CallRecord, Pc, RotatePc
    <2>7. call' = [call EXCEPT ![p] = c]
        BY <1>2 DEF Step
    <2> PICK k : k = c
        OBVIOUS
    <2> HIDE DEF c
    <2>8. ASSUME NEW h \in Hash, <<"RETIRED", h>> \in k.todo
          PROVE  Condemned(h)'
        <3>1. h \in past
            BY <2>5, <2>6, <2>8
        <3>2. PICK f \in NamedFamilies(r) : h \in r.families[f].members /\ h # r.families[f].live
            BY <2>3, <3>1
        <3>3. f \in Family /\ r.families[f].live # None
            BY <3>2 DEF NamedFamilies
        <3> PICK e : e = r.families[f]
            OBVIOUS
        <3> PICK u : u = d.user
            OBVIOUS
        <3>4. /\ u \in User /\ e = roster[u].families[f] /\ e.live # None
              /\ h \in e.members /\ h # e.live
            BY <1>0, <3>2, <3>3
        <3>5. h \in minted /\ live[h] = None /\ (written[h] # None => written[h].family_id = f)
            BY <1>0, <3>3, <3>4, MembersCondemned
        <3> QED
            BY <1>0, <1>2, <3>2, <3>5 DEF Condemned
    <2>9. CallFits(k)'
        <3>1. k.pc = "delete all" /\ k.user \in User /\ k.read \in Roster
            BY <1>0, <2>6
        <3> QED
            BY <2>8, <3>1 DEF CallFits, RotateFits, RevokeFits, RotatePc
    <2>10. NamedFamilies(r) \subseteq Family
        BY DEF NamedFamilies
    <2> QED
        BY <1>0, <1>2, <2>6, <2>7, <2>9, <2>10, QuietStep DEF portVars
<1> QED
    BY <1>1, <1>2 DEF ReadAll

LEMMA StepConfirmAll ==
    ASSUME DynamoIInv, NEW p \in Call, ConfirmAll(p)
    PROVE  DynamoIInv'
<1> PICK d : d = call[p]
    OBVIOUS
<1> DEFINE clear == [d EXCEPT !.pc = "clear all"]
           again == [d EXCEPT !.pc = "read all", !.attempt = @ + 1, !.read = None]
<1>0. /\ d \in CallRecord /\ d.user \in User /\ revoking \subseteq Family
      /\ UNCHANGED <<portVars, roster, revoking>> /\ d.pc = "delete all"
    BY DEF DynamoIInv, TablesInv, CallsInv, CallFits, RevokeFits, ConfirmAll
<1>1. /\ clear.pc = "clear all" /\ clear.user = d.user /\ clear \in CallRecord
      /\ clear.pc \notin RotatePc
    BY <1>0 DEF CallRecord, Pc, RotatePc
<1>2. /\ again.pc = "read all" /\ again.user = d.user /\ again \in CallRecord
      /\ again.pc \notin RotatePc
    <2>1. d.attempt \in Nat
        BY <1>0 DEF CallRecord
    <2>2. d.attempt + 1 \in Nat
        BY <2>1
    <2> QED
        BY <1>0, <2>2 DEF CallRecord, Pc, RotatePc
<1>3. call' = [call EXCEPT ![p] = clear] \/ call' = [call EXCEPT ![p] = again]
    BY DEF ConfirmAll, Step
<1>4. d.read \in Roster
    BY <1>0 DEF DynamoIInv, CallsInv, CallFits, RevokeFits
<1>5. clear.read = d.read
    BY <1>0 DEF CallRecord
<1> HIDE DEF clear, again
<1>6. CallFits(clear)'
    BY <1>0, <1>1, <1>4, <1>5 DEF CallFits, RotateFits, RevokeFits, RotatePc
<1>7. CallFits(again)'
    BY <1>0, <1>2 DEF CallFits, RotateFits, RevokeFits, RotatePc
<1>8. CASE call' = [call EXCEPT ![p] = clear]
    BY <1>0, <1>1, <1>6, <1>8, QuietStep
<1>9. CASE call' = [call EXCEPT ![p] = again]
    BY <1>0, <1>2, <1>7, <1>9, QuietStep
<1> QED
    BY <1>3, <1>8, <1>9

LEMMA StepFails ==
    ASSUME DynamoIInv, NEW p \in Call, Fails(p)
    PROVE  DynamoIInv'
BY QuietEnd DEF Fails

-----------------------------------------------------------------------------
(* Steps that take away. *)

\* A step that takes away and ends its call.
LEMMA ShrinksEnds ==
    ASSUME DynamoIInv, NEW p \in Call, Step(p, Done), Shrinks
    PROVE  DynamoIInv'
BY DoneFits, ShrinksKeepsCalls DEF DynamoIInv, Step

\* A step that is nobody's call.
LEMMA ShrinksAround ==
    ASSUME DynamoIInv, UNCHANGED call, Shrinks
    PROVE  DynamoIInv'
<1>1. TablesInv' /\ Forward
    BY ShrinksKeepsTables DEF DynamoIInv
<1>2. minted \subseteq Hash /\ minted' = minted /\ families' = families
    BY DEF DynamoIInv, TablesInv, PortTypeOK, Shrinks
<1>3. ASSUME NEW q \in Call
      PROVE  CallFits(call[q])'
    <2> PICK d : d = call[q]
        OBVIOUS
    <2>1. d \in CallRecord /\ CallFits(d)
        BY DEF DynamoIInv, CallsInv
    <2>2. CallFits(d)'
        BY <1>1, <1>2, <2>1, CallFitsOn DEF CallFits, RotateFits
    <2> QED
        BY <2>2
<1>4. \A q, r \in Call : q # r => Apart(call'[q], call'[r])
    BY DEF DynamoIInv, CallsInv
<1>5. call' \in [Call -> CallRecord]
    BY DEF DynamoIInv, CallsInv
<1> QED
    BY <1>1, <1>3, <1>4, <1>5 DEF DynamoIInv, CallsInv, Apart

\* Time, the table's TTL and the reaper, and the migration's backfill.
LEMMA StepTick == DynamoIInv /\ Tick /\ UNCHANGED <<roster, call, revoking>> => DynamoIInv'
<1> SUFFICES ASSUME DynamoIInv, Tick, UNCHANGED <<roster, call, revoking>> PROVE DynamoIInv'
    OBVIOUS
<1>1. now \in Nat /\ now' = now + 1
    BY DEF DynamoIInv, TablesInv, PortTypeOK, Tick
<1>2. now' \in Nat /\ now <= now'
    BY <1>1
<1>3. Shrinks
    BY <1>2 DEF DynamoIInv, TablesInv, PortTypeOK, Tick, Shrinks, EntryShrinks
<1> QED
    BY <1>3, ShrinksAround

LEMMA StepExpire ==
    ASSUME DynamoIInv, NEW g \in Hash, Expire(g)
    PROVE  DynamoIInv'
<1>0. /\ live \in [Hash -> Session \cup {None}] /\ now \in Nat /\ revoking \subseteq Family
      /\ retired \in [Hash -> RetiredRefreshToken \cup {None}] /\ roster \in [User -> Roster]
      /\ \A h \in Hash : retired[h] # None => retired[h] = written[h]
      /\ UNCHANGED <<now, minted, families, closed, written, roster, call, revoking>>
    BY DEF DynamoIInv, TablesInv, PortTypeOK, HoldsMinted, Expire, cleanup_expired_sessions
<1>1. /\ live' = [h \in Hash |-> IF h \in {g} /\ live[h] # None /\ live[h].expires_at < now
                                 THEN None ELSE live[h]]
      /\ retired' = [h \in Hash |-> IF h \in {g} /\ retired[h] # None /\ retired[h].expires_at < now
                                    THEN None ELSE retired[h]]
    BY DEF Expire, cleanup_expired_sessions
<1>2. /\ live' \in [Hash -> Session \cup {None}]
      /\ retired' \in [Hash -> RetiredRefreshToken \cup {None}]
      /\ \A h \in Hash : live'[h] \in {live[h], None}
    BY <1>0, <1>1
<1>3. ASSUME NEW h \in Hash, retired'[h] # retired[h]
      PROVE  retired'[h] = None /\ written[h].expires_at <= now
    <2>1. retired'[h] = None /\ retired[h] # None /\ retired[h].expires_at < now
        BY <1>0, <1>1, <1>3
    <2>2. retired[h].expires_at \in Nat
        BY <1>0, <2>1 DEF RetiredRefreshToken
    <2> QED
        BY <1>0, <2>1, <2>2
<1>4. Shrinks
    BY <1>0, <1>2, <1>3 DEF Shrinks, EntryShrinks
<1> QED
    BY <1>0, <1>4, ShrinksAround

LEMMA StepBackfill ==
    ASSUME DynamoIInv, NEW v \in User, backfill_session_rosters(v)
    PROVE  DynamoIInv'
<1>0. /\ TablesInv /\ PortTypeOK /\ roster \in [User -> Roster] /\ revoking \subseteq Family
      /\ UNCHANGED <<live, retired, now, minted, families, closed, written, call, revoking>>
      /\ roster' = [roster EXCEPT ![v] = EmptyRoster]
    BY DEF DynamoIInv, TablesInv, backfill_session_rosters, portVars
<1>1. EmptyRoster \in Roster /\ \A f \in Family : EmptyRoster.families[f].live = None
    BY DEF EmptyRoster, Roster, Entry, NoEntry
<1>2. /\ roster' \in [User -> Roster]
      /\ \A u \in User, f \in Family : EntryShrinks(f, roster[u].families[f], roster'[u].families[f])
    BY <1>0, <1>1 DEF EntryShrinks
<1>3. Shrinks
    BY <1>0, <1>2 DEF Shrinks, PortTypeOK
<1> QED
    BY <1>0, <1>3, ShrinksAround

\* A key of a batch is deleted: a row, or a record that was condemned.
LEMMA StepDeleteItem ==
    ASSUME DynamoIInv, NEW p \in Call, DeleteItem(p)
    PROVE  DynamoIInv'
<1> PICK d : d = call[p]
    OBVIOUS
<1>0. /\ TablesInv /\ CallsInv /\ d \in CallRecord /\ d.pc \in {"delete entry", "delete all"}
      /\ RevokeFits(d) /\ d.todo \subseteq Item
      /\ UNCHANGED <<now, minted, families, closed, written, roster, revoking>>
      /\ live \in [Hash -> Session \cup {None}] /\ revoking \subseteq Family
      /\ retired \in [Hash -> RetiredRefreshToken \cup {None}] /\ now \in Nat
      /\ roster \in [User -> Roster]
      /\ \A h \in Hash : retired[h] # None => retired[h] = written[h]
    BY DEF DynamoIInv, TablesInv, PortTypeOK, CallsInv, CallFits, DeleteItem, CallRecord, HoldsMinted
<1>1. PICK k \in d.todo :
          /\ live' = IF k[1] = "SESSION" THEN [live EXCEPT ![k[2]] = None] ELSE live
          /\ retired' = IF k[1] = "RETIRED" THEN [retired EXCEPT ![k[2]] = None] ELSE retired
          /\ Step(p, [d EXCEPT !.todo = @ \ {k}])
    BY DEF DeleteItem
<1>2. PICK g \in Hash : k = <<"SESSION", g>> \/ k = <<"RETIRED", g>>
    <2>1. k \in {"SESSION", "RETIRED"} \X Hash
        BY <1>0 DEF Item
    <2>2. k = <<k[1], k[2]>> /\ k[1] \in {"SESSION", "RETIRED"} /\ k[2] \in Hash
        BY <2>1
    <2> QED
        BY <2>2
<1> PICK todo : todo = d.todo \ {k}
    OBVIOUS
<1> DEFINE c == [d EXCEPT !.todo = todo]
<1>3. /\ c.pc = d.pc /\ c.user = d.user /\ c.family = d.family /\ c.read = d.read /\ c.todo = todo
      /\ c \in CallRecord
    BY <1>0 DEF CallRecord
<1>4. call' = [call EXCEPT ![p] = c]
    BY <1>1 DEF Step
<1> HIDE DEF c
<1>5. /\ live' \in [Hash -> Session \cup {None}]
      /\ retired' \in [Hash -> RetiredRefreshToken \cup {None}]
      /\ \A h \in Hash : live'[h] \in {live[h], None}
      /\ \A h \in Hash : \/ retired'[h] = retired[h]
                         \/ retired'[h] = None /\ k = <<"RETIRED", h>>
    <2>1. CASE k = <<"SESSION", g>>
        BY <1>0, <1>1, <2>1
    <2>2. CASE k = <<"RETIRED", g>>
        BY <1>0, <1>1, <2>2
    <2> QED
        BY <1>2, <2>1, <2>2
<1>6. \A h \in Hash : <<"RETIRED", h>> \in d.todo => Condemned(h)
    BY <1>0 DEF RevokeFits
<1>7. Shrinks
    <2>1. \A h \in Hash : \/ retired'[h] = retired[h]
                          \/ retired'[h] = None /\ (written[h] # None => written[h].family_id \in revoking)
        BY <1>5, <1>6 DEF Condemned
    <2>2. now' \in Nat /\ now <= now' /\ roster' \in [User -> Roster]
        <3>1. now \in Nat /\ now' = now /\ roster' \in [User -> Roster]
            BY <1>0
        <3> QED
            BY <3>1
    <2>3. /\ revoking \subseteq revoking' /\ revoking' \subseteq Family
          /\ \A f \in closed' : f \in closed
          /\ \A u \in User, f \in Family :
                EntryShrinks(f, roster[u].families[f], roster'[u].families[f])
        BY <1>0 DEF EntryShrinks
    <2> QED
        BY <1>0, <1>5, <2>1, <2>2, <2>3 DEF Shrinks
<1>8. /\ \A h \in minted : h \in Hash /\ (live[h] = None => live'[h] = None)
      /\ \A h \in Hash : Condemned(h) => Condemned(h)'
    BY <1>0, <1>5 DEF Condemned, TablesInv, PortTypeOK
<1>9. ASSUME d.pc = "delete entry"
      PROVE  DeletesEntry(c, c.read.families[c.family])'
    <2> PICK e : e = d.read.families[d.family]
        OBVIOUS
    <2>1. DeletesEntry(d, e)
        BY <1>0, <1>9 DEF RevokeFits
    <2>2. e \in Entry /\ e.members \subseteq Hash
        <3>1. d.family \in Family /\ d.read \in Roster
            BY <1>0, <1>9 DEF RevokeFits, TablesInv, PortTypeOK
        <3> QED
            BY <3>1 DEF Roster, Entry
    <2>3. ASSUME e.live # Blank, <<"SESSION", e.live>> \notin todo
          PROVE  live'[e.live] = None
        <3>0. e.live \in minted /\ e.live \in Hash
            BY <1>8, <2>1, <2>3 DEF DeletesEntry
        <3>1. CASE <<"SESSION", e.live>> \in d.todo
            <4>1. k = <<"SESSION", e.live>>
                BY <2>3, <3>1
            <4> QED
                BY <1>0, <1>1, <3>0, <4>1
        <3>2. CASE <<"SESSION", e.live>> \notin d.todo
            BY <1>8, <2>1, <2>3, <3>0, <3>2 DEF DeletesEntry
        <3> QED
            BY <3>1, <3>2
    <2>4. ASSUME NEW h \in e.members, h # e.live, <<"RETIRED", h>> \notin todo
          PROVE  h \in minted /\ live'[h] = None /\ retired'[h] = None
        <3>1. CASE <<"RETIRED", h>> \in d.todo
            <4>1. k = <<"RETIRED", h>> /\ h \in Hash
                BY <2>2, <2>4, <3>1
            <4>2. Condemned(h)
                BY <1>6, <3>1, <4>1
            <4> QED
                BY <1>0, <1>1, <1>8, <4>1, <4>2 DEF Condemned
        <3>2. CASE <<"RETIRED", h>> \notin d.todo
            <4>1. h \in Hash /\ h \in minted /\ live[h] = None /\ retired[h] = None
                BY <2>1, <2>2, <2>4, <3>2 DEF DeletesEntry
            <4> QED
                BY <1>5, <1>8, <4>1
        <3> QED
            BY <3>1, <3>2
    <2>5. DeletesEntry(c, e)'
        BY <1>0, <1>3, <2>1, <2>3, <2>4 DEF DeletesEntry
    <2> QED
        BY <1>3, <2>5
<1>10. CallFits(c)'
    <2>1. \A h \in Hash : <<"RETIRED", h>> \in todo => Condemned(h)'
        BY <1>6, <1>8
    <2>2. /\ d.user \in User /\ d.read \in Roster
          /\ d.pc = "delete entry" => d.family \in families
        BY <1>0 DEF RevokeFits
    <2>3. RevokeFits(c)'
        BY <1>0, <1>3, <1>9, <2>1, <2>2 DEF RevokeFits
    <2> QED
        BY <1>0, <1>3, <2>3 DEF CallFits, RotateFits, RotatePc
<1>11. \A q \in Call : q # p => Apart(c, call[q]) /\ Apart(call[q], c)
    BY <1>0, <1>3 DEF Apart, RotatePc
<1> QED
    BY <1>0, <1>3, <1>4, <1>7, <1>10, <1>11, ShrinksKeepsCalls

-----------------------------------------------------------------------------
(* Steps that move an entry of a roster. *)

\* The rosters after u's sessions set becomes S and the entry of f becomes e.
Moved(u, S, f, e) == [roster EXCEPT ![u].sessions = S, ![u].families[f] = e]

\* The rosters change in one entry at most.
EntryBecomes(u, f, e) ==
    /\ roster' \in [User -> Roster]
    /\ \A v \in User, g \in Family :
          roster'[v].families[g] = IF v = u /\ g = f THEN e ELSE roster[v].families[g]

LEMMA EntryMoves ==
    ASSUME roster \in [User -> Roster], NEW u \in User, NEW f \in Family, NEW S \in SUBSET Hash,
           NEW e \in Entry,
           roster' = Moved(u, S, f, e)
    PROVE  EntryBecomes(u, f, e)
<1> PICK r : r = roster[u]
    OBVIOUS
<1> PICK m : m = [roster EXCEPT ![u].sessions = S]
    OBVIOUS
<1> PICK n : n = [m[u] EXCEPT !.families[f] = e]
    OBVIOUS
<1>1. r \in Roster /\ r.families \in [Family -> Entry]
    BY DEF Roster
<1>2. m \in [User -> Roster] /\ m[u] = [r EXCEPT !.sessions = S]
    BY <1>1 DEF Roster
<1>3. roster' = [m EXCEPT ![u] = n]
    <2>1. roster' = [m EXCEPT ![u].families[f] = e]
        BY DEF Moved
    <2> QED
        BY <2>1
<1>4. m[u] \in Roster /\ m[u].families = r.families
    BY <1>1, <1>2 DEF Roster
<1>5. n \in Roster /\ n.families = [r.families EXCEPT ![f] = e]
    BY <1>1, <1>4 DEF Roster
<1>6. \A v \in User : v # u => m[v] = roster[v]
    OBVIOUS
<1>7. roster' \in [User -> Roster] /\ roster'[u] = n /\ \A v \in User : v # u => roster'[v] = m[v]
    BY <1>2, <1>3, <1>5
<1>8. ASSUME NEW v \in User, NEW g \in Family
      PROVE  roster'[v].families[g] = IF v = u /\ g = f THEN e ELSE roster[v].families[g]
    <2>1. CASE v = u
        <3>1. roster'[v].families = n.families /\ roster[v].families = r.families
            BY <1>7, <2>1
        <3> QED
            BY <1>1, <1>5, <2>1, <3>1
    <2>2. CASE v # u
        BY <1>6, <1>7, <2>2
    <2> QED
        BY <2>1, <2>2
<1> QED
    BY <1>7, <1>8 DEF EntryBecomes

\* revoke_family clears the entry of a family that is gone.
LEMMA StepClearEntry ==
    ASSUME DynamoIInv, NEW p \in Call, ClearEntry(p)
    PROVE  DynamoIInv'
<1> PICK d : d = call[p]
    OBVIOUS
<1> PICK h : h = d.read.families[d.family].live
    OBVIOUS
<1>0. /\ TablesInv /\ PortTypeOK /\ d.user \in User /\ d.family \in families /\ FamilyGone(d.family)
      /\ roster \in [User -> Roster] /\ revoking \subseteq Family
      /\ UNCHANGED <<live, retired, now, minted, families, written, revoking>>
      /\ closed' = closed \cup {d.family} /\ Step(p, Done)
      /\ roster' = [roster EXCEPT ![d.user].sessions = @ \ {h}, ![d.user].families[d.family] = NoEntry]
    BY DEF DynamoIInv, TablesInv, CallsInv, CallFits, RevokeFits, ClearEntry
<1>1. /\ d.family \in Family /\ NoEntry \in Entry /\ NoEntry.live = None
      /\ roster[d.user].sessions \ {h} \in SUBSET Hash
    BY <1>0 DEF PortTypeOK, NoEntry, Entry, Roster
<1>2. /\ roster' \in [User -> Roster]
      /\ \A u \in User, f \in Family :
            roster'[u].families[f] = IF u = d.user /\ f = d.family THEN NoEntry
                                     ELSE roster[u].families[f]
    <2> PICK S : S = roster[d.user].sessions \ {h}
        OBVIOUS
    <2> PICK v : v = d.user
        OBVIOUS
    <2> PICK g : g = d.family
        OBVIOUS
    <2>1. /\ S \in SUBSET Hash /\ v \in User /\ g \in Family /\ NoEntry \in Entry
          /\ roster \in [User -> Roster]
          /\ roster' = Moved(v, S, g, NoEntry)
        BY <1>0, <1>1 DEF Moved
    <2>2. EntryBecomes(v, g, NoEntry)
        BY <2>1, EntryMoves
    <2> QED
        BY <2>2 DEF EntryBecomes
<1>3. \A u \in User, f \in Family :
          EntryShrinks(f, roster[u].families[f], roster'[u].families[f])
    BY <1>1, <1>2 DEF EntryShrinks
<1>4. Shrinks
    <2>1. /\ now \in Nat /\ live \in [Hash -> Session \cup {None}] /\ closed \subseteq families
          /\ retired \in [Hash -> RetiredRefreshToken \cup {None}]
        BY <1>0 DEF PortTypeOK
    <2>2. now' \in Nat /\ now <= now'
        <3>1. now \in Nat /\ now' = now
            BY <1>0, <2>1
        <3> QED
            BY <3>1
    <2> QED
        BY <1>0, <1>2, <1>3, <2>1, <2>2 DEF Shrinks
<1> QED
    BY <1>0, <1>4, ShrinksEnds

LEMMA StepClearAll ==
    ASSUME DynamoIInv, NEW p \in Call, ClearAll(p)
    PROVE  DynamoIInv'
<1> PICK v : v = call[p].user
    OBVIOUS
<1> PICK after : after = [EmptyRoster EXCEPT !.root = FALSE]
    OBVIOUS
<1>0. /\ PortTypeOK /\ roster \in [User -> Roster] /\ revoking \subseteq Family /\ v \in User
      /\ UNCHANGED <<live, retired, now, minted, families, closed, written, revoking>>
      /\ roster' = [roster EXCEPT ![v] = after] /\ Step(p, Done)
    BY DEF DynamoIInv, TablesInv, CallsInv, CallFits, RevokeFits, ClearAll, portVars
<1>1. after \in Roster /\ \A f \in Family : after.families[f].live = None
    BY DEF EmptyRoster, Roster, Entry, NoEntry
<1>2. /\ roster' \in [User -> Roster]
      /\ \A u \in User, f \in Family : EntryShrinks(f, roster[u].families[f], roster'[u].families[f])
    BY <1>0, <1>1 DEF EntryShrinks
<1>3. Shrinks
    BY <1>0, <1>2 DEF Shrinks, PortTypeOK
<1> QED
    BY <1>0, <1>3, ShrinksEnds

\* A logout takes the row, and blanks the pointer of a family that then has none.
LEMMA StepTransactRevoke ==
    ASSUME DynamoIInv, NEW p \in Call, TransactRevoke(p)
    PROVE  DynamoIInv'
<1> PICK d : d = call[p]
    OBVIOUS
<1> PICK g : g = d.old.family_id
    OBVIOUS
<1>0. /\ TablesInv /\ PortTypeOK /\ EntriesFit /\ Holds(d) /\ live[d.hash] # None
      /\ roster \in [User -> Roster] /\ revoking \subseteq Family
      /\ g # NoFamily => roster[d.user].families[g].live # None
      /\ UNCHANGED <<retired, now, minted, families, closed, written, revoking>>
      /\ live' = [live EXCEPT ![d.hash] = None] /\ Step(p, Done)
      /\ roster' = [roster EXCEPT ![d.user].sessions = @ \ {d.hash},
                        ![d.user].families = IF g = NoFamily THEN @ ELSE [@ EXCEPT ![g].live = Blank]]
    BY DEF DynamoIInv, TablesInv, CallsInv, CallFits, RevokeFits, TransactRevoke, revoke_session
<1>1. /\ live[d.hash] = d.old /\ d.old \in Session /\ d.user = d.old.user_id /\ d.user \in User
      /\ d.hash \in Hash /\ g \in Family \cup {NoFamily}
      /\ live \in [Hash -> Session \cup {None}]
    BY <1>0 DEF Holds, Session, PortTypeOK
<1> PICK r : r = roster[d.user]
    OBVIOUS
<1> DEFINE moved == IF g = NoFamily THEN r.families ELSE [r.families EXCEPT ![g].live = Blank]
           after == [r EXCEPT !.sessions = @ \ {d.hash}, !.families = moved]
<1>2. r \in Roster /\ r.families \in [Family -> Entry] /\ r.sessions \subseteq Hash
    BY <1>0, <1>1 DEF Roster
<1>3. moved \in [Family -> Entry]
    <2>1. CASE g = NoFamily
        BY <1>2, <2>1
    <2>2. CASE g # NoFamily
        <3> PICK e : e = r.families[g]
            OBVIOUS
        <3>1. e \in Entry /\ g \in Family
            BY <1>1, <1>2, <2>2
        <3>2. [e EXCEPT !.live = Blank] \in Entry
            BY <3>1 DEF Entry
        <3>3. moved = [r.families EXCEPT ![g] = [e EXCEPT !.live = Blank]]
            BY <2>2
        <3> QED
            BY <1>2, <3>1, <3>2, <3>3
    <2> QED
        BY <2>1, <2>2
<1>4. roster' = [roster EXCEPT ![d.user] = after]
    BY <1>0
<1> HIDE DEF moved
<1>5. after \in Roster /\ after.families = moved
    BY <1>2, <1>3 DEF Roster
<1> HIDE DEF after
<1>6. roster' \in [User -> Roster]
    BY <1>0, <1>4, <1>5
<1>7. /\ live' \in [Hash -> Session \cup {None}]
      /\ \A h \in Hash : live'[h] \in {live[h], None}
    BY <1>0, <1>1
<1>8. ASSUME NEW h \in Hash, live'[h] # None, live'[h].family_id = g, g # NoFamily
      PROVE  FALSE
    <2>1. EntryFits(d.user, g, r.families[g]) /\ r.families[g].live # None
        BY <1>0, <1>1, <1>8 DEF EntriesFit
    <2>2. h # d.hash /\ live[h] # None /\ live[h].family_id = g
        BY <1>0, <1>1, <1>8
    <2>3. live[d.hash] # None /\ live[d.hash].family_id = g
        BY <1>0, <1>1
    <2> QED
        BY <1>1, <2>1, <2>2, <2>3 DEF EntryFits
<1>9. ASSUME NEW u \in User, NEW f \in Family
      PROVE  EntryShrinks(f, roster[u].families[f], roster'[u].families[f])
    <2>1. CASE u = d.user
        <3>1. roster'[u].families = moved /\ roster[u].families = r.families
            BY <1>0, <1>1, <1>4, <1>5, <2>1
        <3>2. CASE f = g
            <4>1. moved[f] = [r.families[f] EXCEPT !.live = Blank] /\ g # NoFamily
                BY <1>2, <3>2, PortAssumption DEF moved
            <4>2. r.families[f].live # None
                BY <1>0, <3>2, <4>1
            <4> QED
                BY <1>8, <3>1, <3>2, <4>1, <4>2 DEF EntryShrinks
        <3>3. CASE f # g
            <4>1. moved[f] = r.families[f]
                BY <1>2, <3>3 DEF moved
            <4> QED
                BY <3>1, <4>1 DEF EntryShrinks
        <3> QED
            BY <3>2, <3>3
    <2>2. CASE u # d.user
        BY <1>0, <1>4, <2>2 DEF EntryShrinks
    <2> QED
        BY <2>1, <2>2
<1>10. Shrinks
    <2>1. now \in Nat /\ retired \in [Hash -> RetiredRefreshToken \cup {None}]
        BY <1>0 DEF PortTypeOK
    <2>2. now' \in Nat /\ now <= now'
        <3>1. now \in Nat /\ now' = now
            BY <1>0, <2>1
        <3> QED
            BY <3>1
    <2> QED
        BY <1>0, <1>6, <1>7, <1>9, <2>1, <2>2 DEF Shrinks
<1> QED
    BY <1>0, <1>10, ShrinksEnds

-----------------------------------------------------------------------------
(* Steps that add a row. *)

\* The other calls, if the names of their rotations are still fresh.
LEMMA OthersFit ==
    ASSUME DynamoIInv, Forward, NEW q \in Call, call'[q] = call[q],
           call[q].pc \in RotatePc =>
               /\ call[q].fresh \notin minted'
               /\ call[q].old.family_id = NoFamily => call[q].family \notin families'
    PROVE  CallFits(call[q])'
<1> PICK d : d = call[q]
    OBVIOUS
<1>1. d \in CallRecord /\ CallFits(d) /\ minted \subseteq Hash
    BY DEF DynamoIInv, CallsInv, TablesInv, PortTypeOK
<1>2. CallFits(d)'
    BY <1>1, CallFitsOn
<1> QED
    BY <1>2

\* A sign-in adds a row of a new family, and its entry.
LEMMA StepStore ==
    ASSUME DynamoIInv, NEW n \in FreshHash, NEW f \in FreshFamily, NEW u \in User,
           store_refresh_token_dynamo(n, f, u)
    PROVE  DynamoIInv'
<1> DEFINE s == [user_id |-> u, family_id |-> f, generation |-> 0, expires_at |-> now + Ttl]
           e == [live |-> n, members |-> {n}]
<1>0. /\ TablesInv /\ CallsInv /\ PortTypeOK /\ HoldsMinted /\ roster \in [User -> Roster]
      /\ live \in [Hash -> Session \cup {None}] /\ minted \subseteq Hash /\ families \subseteq Family
      /\ n \in Hash \ minted /\ \A q \in Call : n # call[q].fresh
      /\ f \in Family \ families /\ \A q \in Call : f # call[q].family
      /\ UNCHANGED <<retired, now, closed, written, call, revoking>>
    BY DEF DynamoIInv, TablesInv, PortTypeOK, FreshHash, FreshFamily, store_refresh_token_dynamo,
        store_refresh_token
<1>1. /\ s \in Session /\ s # None /\ s.family_id = f /\ s.user_id = u /\ f # NoFamily
      /\ e \in Entry /\ e.live = n /\ e.members = {n}
    BY <1>0, PortAssumption DEF PortTypeOK, Session, Entry
<1>2. /\ live' = [live EXCEPT ![n] = s] /\ minted' = minted \cup {n} /\ families' = families \cup {f}
    BY <1>1 DEF store_refresh_token_dynamo, store_refresh_token, session_to_item
<1>3. roster' = Moved(u, roster[u].sessions \cup {n}, f, e)
    BY DEF store_refresh_token_dynamo, Moved
<1> HIDE DEF s, e
<1>4. /\ roster' \in [User -> Roster]
      /\ \A v \in User, g \in Family :
            roster'[v].families[g] = IF v = u /\ g = f THEN e ELSE roster[v].families[g]
    <2> PICK S : S = roster[u].sessions \cup {n}
        OBVIOUS
    <2> PICK k : k = e
        OBVIOUS
    <2> PICK g1 : g1 = f
        OBVIOUS
    <2>1. /\ S \in SUBSET Hash /\ u \in User /\ g1 \in Family /\ k \in Entry
          /\ roster \in [User -> Roster]
          /\ roster' = Moved(u, S, g1, k)
        BY <1>0, <1>1, <1>3 DEF Roster
    <2>2. EntryBecomes(u, g1, k)
        BY <2>1, EntryMoves
    <2> QED
        BY <2>2 DEF EntryBecomes
<1>5. live[n] = None /\ retired[n] = None /\ written[n] = None
    BY <1>0 DEF HoldsMinted
<1>6. /\ live' \in [Hash -> Session \cup {None}] /\ live'[n] = s
      /\ \A h \in Hash : h # n => live'[h] = live[h]
    BY <1>0, <1>1, <1>2
<1>7. PortTypeOK'
    BY <1>0, <1>2, <1>6 DEF PortTypeOK
<1>8. HoldsMinted'
    BY <1>0, <1>1, <1>2, <1>5, <1>6 DEF HoldsMinted
<1>9. ClosedFamilyStaysDead'
    BY <1>0, <1>1, <1>6 DEF TablesInv, ClosedFamilyStaysDead, LiveOf, RetiredOf, PortTypeOK
<1>10. EntriesFit'
    <2> SUFFICES ASSUME NEW v \in User, NEW g \in Family
                 PROVE  EntryFits(v, g, roster[v].families[g])'
        BY DEF EntriesFit
    <2> PICK a : a = roster'[v].families[g]
        OBVIOUS
    <2>1. CASE v = u /\ g = f
        <3>1. a.live = n /\ a.members = {n}
            BY <1>1, <1>4, <2>1
        <3>2. Member(n, f)'
            BY <1>0, <1>1, <1>2, <1>5, <1>6 DEF Member
        <3>3. \A h \in Hash : h # n /\ live'[h] # None => live'[h].family_id # f
            BY <1>0, <1>1, <1>6 DEF HoldsMinted
        <3>4. \A h \in Hash : retired'[h] # None => retired'[h].family_id # f
            BY <1>0 DEF HoldsMinted
        <3>5. EntryFits(v, g, a)'
            BY <1>0, <1>1, <1>2, <1>5, <1>6, <2>1, <3>1, <3>2, <3>3, <3>4 DEF EntryFits
        <3> QED
            BY <3>5
    <2>2. CASE ~(v = u /\ g = f)
        <3>1. a = roster[v].families[g] /\ EntryFits(v, g, a)
            BY <1>0, <1>4, <2>2 DEF TablesInv, EntriesFit
        <3>2. a.live # None => g # f
            BY <1>0, <3>1 DEF EntryFits
        <3>3. \A h : Member(h, g) => Member(h, g)'
            BY <1>0, <1>2, <1>6 DEF Member
        <3>4. EntryFits(v, g, a)'
            BY <1>0, <1>1, <1>2, <1>6, <3>1, <3>2, <3>3 DEF EntryFits
        <3> QED
            BY <3>4
    <2> QED
        BY <2>1, <2>2
<1>11. RecordsKept'
    BY <1>0 DEF TablesInv, RecordsKept
<1>12. TablesInv'
    BY <1>0, <1>4, <1>7, <1>8, <1>9, <1>10, <1>11 DEF TablesInv
<1>13. Forward
    <2>1. \A g \in families : FamilyGone(g) => FamilyGone(g)'
        BY <1>0, <1>1, <1>6 DEF FamilyGone
    <2> QED
        BY <1>0, <1>2, <1>6, <2>1 DEF Forward
<1>14. ASSUME NEW q \in Call
       PROVE  CallFits(call[q])'
    <2>1. RotateFits(call[q]) /\ call'[q] = call[q]
        BY <1>0 DEF CallsInv, CallFits
    <2>2. call[q].pc \in RotatePc =>
              /\ call[q].fresh \notin minted'
              /\ call[q].old.family_id = NoFamily => call[q].family \notin families'
        BY <1>0, <1>2, <2>1 DEF RotateFits
    <2> QED
        BY <1>13, <2>1, <2>2, OthersFit
<1>15. CallsInv'
    BY <1>0, <1>14 DEF CallsInv, Apart
<1> QED
    BY <1>12, <1>15 DEF DynamoIInv

LEMMA GenerationType ==
    ASSUME NEW old \in Session, NEW f \in Family, NEW s, s = Generation(old, f)
    PROVE  s \in Session /\ s # None /\ s.family_id = f /\ s.user_id = old.user_id
<1>1. /\ old.user_id \in User /\ old.generation \in Nat /\ old.expires_at \in Nat
      /\ s = [user_id |-> old.user_id, family_id |-> f, generation |-> old.generation + 1,
              expires_at |-> old.expires_at]
    BY DEF Generation, Session
<1>2. s \in Session
    BY <1>1 DEF Session
<1> QED
    BY <1>1, <1>2, PortAssumption

LEMMA RecordType ==
    ASSUME NEW d, d.old \in Session, d.user \in User, d.fresh \in Hash, d.at \in Nat,
           NEW rec, rec = retirement_record(d)
    PROVE  /\ rec.family_id = d.old.family_id
           /\ d.old.family_id # NoFamily => rec \in RetiredRefreshToken /\ rec # None
<1> PICK t : t = retention_deadline(d.at, d.old.expires_at)
    OBVIOUS
<1>1. d.old.expires_at \in Nat /\ d.old.family_id \in Family \cup {NoFamily}
    BY DEF Session
<1>2. t \in Nat
    BY <1>1, DeadlineType
<1>3. rec = [family_id |-> d.old.family_id, user_id |-> d.user, successor_hash |-> d.fresh,
             retired_at |-> d.at, expires_at |-> t]
    BY DEF retirement_record
<1>4. d.old.family_id # NoFamily => rec \in RetiredRefreshToken
    BY <1>1, <1>2, <1>3 DEF RetiredRefreshToken
<1> QED
    BY <1>3, <1>4, PortAssumption

\* A rotation replaces the row, and moves the entry of its family.
LEMMA StepTransactRotate ==
    ASSUME DynamoIInv, NEW p \in Call, TransactRotate(p)
    PROVE  DynamoIInv'
<1> PICK d : d = call[p]
    OBVIOUS
<1> PICK h : h = d.hash
    OBVIOUS
<1> PICK n : n = d.fresh
    OBVIOUS
<1> PICK f : f = d.family
    OBVIOUS
<1> PICK u : u = d.user
    OBVIOUS
<1> PICK old : old = d.old
    OBVIOUS
<1> PICK rec : rec = retirement_record(d)
    OBVIOUS
<1> PICK s : s = Generation(old, f)
    OBVIOUS
<1> PICK entry : entry = roster[u].families[f]
    OBVIOUS
<1> PICK e : e = MovedEntry(entry, d)
    OBVIOUS
<1> PICK S : S = (d.read.sessions \ {h}) \cup {n}
    OBVIOUS
<1> DEFINE legacy == old.family_id = NoFamily
<1>1. /\ TablesInv /\ CallsInv /\ PortTypeOK /\ HoldsMinted /\ roster \in [User -> Roster]
      /\ d \in CallRecord /\ RotateFits(d) /\ Holds(d) /\ d.pc \in RotatePc /\ d.read \in Roster
      /\ n \in Hash \ minted /\ f \in Family /\ h \in minted /\ old \in Session /\ u = old.user_id
      /\ legacy => f \notin families
      /\ ~legacy => f = old.family_id /\ f \in families
    BY DEF DynamoIInv, TablesInv, CallsInv, CallFits, RotateFits, RotatePc, Holds, TransactRotate
<1>2. /\ minted \subseteq Hash /\ families \subseteq Family /\ closed \subseteq families
      /\ live \in [Hash -> Session \cup {None}] /\ now \in Nat
      /\ retired \in [Hash -> RetiredRefreshToken \cup {None}]
      /\ written \in [Hash -> RetiredRefreshToken \cup {None}]
      /\ h \in Hash /\ h # n /\ u \in User /\ d.at \in Nat /\ old.expires_at \in Nat
      /\ old.generation \in Nat /\ old.family_id \in Family \cup {NoFamily}
    BY <1>1 DEF PortTypeOK, Session, CallRecord
<1>3. /\ live[h] # None /\ (~legacy => entry.live # None)
      /\ live' = [live EXCEPT ![h] = None, ![n] = s]
      /\ retired' = IF legacy THEN retired ELSE [retired EXCEPT ![h] = rec]
      /\ written' = IF legacy THEN written ELSE [written EXCEPT ![h] = rec]
      /\ minted' = minted \cup {n} /\ families' = families \cup {f}
      /\ Step(p, Done) /\ UNCHANGED <<now, closed, revoking>>
    BY DEF TransactRotate
<1>4. roster' = Moved(u, S, f, e)
    <2>1. roster' = [roster EXCEPT ![u].sessions = S, ![u].families[f] = MovedEntry(@, d)]
        BY DEF TransactRotate
    <2>2. [roster EXCEPT ![u].sessions = S][u].families[f] = entry
        BY <1>1, <1>2 DEF Roster
    <2> QED
        BY <2>1, <2>2 DEF Moved
<1>5. live[h] = old /\ retired[h] = None /\ written[h] = None
    BY <1>1, <1>2, <1>3 DEF Holds, HoldsMinted
<1>6. live[n] = None /\ retired[n] = None /\ written[n] = None /\ n \in Hash /\ n # None
    BY <1>1, DynamoAssumption DEF HoldsMinted
<1>7. s \in Session /\ s # None /\ s.family_id = f /\ s.user_id = u
    BY <1>1, GenerationType
<1>8. rec.family_id = old.family_id /\ (~legacy => rec \in RetiredRefreshToken /\ rec # None)
    <2>1. d.old \in Session /\ d.user \in User /\ d.fresh \in Hash /\ d.at \in Nat
        BY <1>1, <1>2
    <2> QED
        BY <2>1, RecordType
<1>9. /\ entry \in Entry /\ e \in Entry /\ e.live = n /\ n \in e.members
      /\ \A x \in e.members : x = n \/ (~legacy /\ (x = h \/ x \in entry.members))
      /\ ~legacy => entry.members \subseteq e.members /\ h \in e.members
    <2> PICK r : r = roster[u]
        OBVIOUS
    <2>0. r \in Roster /\ entry = r.families[f]
        BY <1>1, <1>2
    <2>1. entry \in Entry /\ entry.members \subseteq Hash
        <3>1. r.families \in [Family -> Entry]
            BY <2>0 DEF Roster
        <3>2. entry \in Entry
            BY <1>1, <2>0, <3>1
        <3> QED
            BY <3>2 DEF Entry
    <2>2. /\ e.live = n
          /\ e.members = IF legacy THEN {n} ELSE entry.members \cup {h, n}
          /\ e = [live |-> n, members |-> e.members]
        BY DEF MovedEntry
    <2> HIDE DEF legacy
    <2>3. CASE legacy
        <3>1. e.members = {n}
            BY <2>2, <2>3
        <3>2. e \in Entry
            BY <1>6, <2>2, <3>1 DEF Entry
        <3> QED
            BY <2>1, <2>2, <2>3, <3>1, <3>2
    <2>4. CASE ~legacy
        <3>1. e.members = entry.members \cup {h, n}
            BY <2>2, <2>4
        <3>2. e \in Entry
            BY <1>2, <1>6, <2>1, <2>2, <3>1 DEF Entry
        <3> QED
            BY <2>1, <2>2, <2>4, <3>1, <3>2
    <2> QED
        BY <2>3, <2>4
<1>10. EntryBecomes(u, f, e)
    <2>1. S \in SUBSET Hash
        BY <1>1, <1>2 DEF Roster
    <2> QED
        BY <1>1, <1>2, <1>4, <1>9, <2>1, EntryMoves
<1>11. /\ live' \in [Hash -> Session \cup {None}] /\ live'[h] = None /\ live'[n] = s
       /\ \A x \in Hash : x # h /\ x # n => live'[x] = live[x]
    BY <1>1, <1>2, <1>3, <1>7
<1>12. /\ retired' \in [Hash -> RetiredRefreshToken \cup {None}]
       /\ written' \in [Hash -> RetiredRefreshToken \cup {None}]
       /\ \A x \in Hash : x # h => retired'[x] = retired[x] /\ written'[x] = written[x]
       /\ legacy => retired'[h] = None /\ written'[h] = None
       /\ ~legacy => retired'[h] = rec /\ written'[h] = rec
    <2>1. CASE legacy
        BY <1>2, <1>3, <1>5, <2>1
    <2>2. CASE ~legacy
        BY <1>2, <1>3, <1>8, <2>2
    <2> QED
        BY <2>1, <2>2
<1> HIDE DEF legacy
<1>12a. retired'[n] = None /\ written'[n] = None /\ n \in minted' /\ f \in families'
    BY <1>2, <1>3, <1>6, <1>12
<1>12b. /\ live'[h] = None /\ (retired'[h] # None => retired'[h].family_id = f)
        /\ live'[n].family_id = f /\ retired'[n] = None
    <2>1. retired'[h] # None => retired'[h].family_id = f
        <3>1. CASE legacy
            BY <1>12, <3>1
        <3>2. CASE ~legacy
            BY <1>1, <1>8, <1>12, <3>2 DEF legacy
        <3> QED
            BY <3>1, <3>2
    <2> QED
        BY <1>7, <1>11, <1>12a, <2>1
<1>13. ~legacy => EntryFits(u, f, entry)
    BY <1>1, <1>2 DEF TablesInv, EntriesFit
<1>14. \A x \in Hash :
          /\ live[x] # None /\ live[x].family_id = f => x = h /\ ~legacy
          /\ retired[x] # None /\ retired[x].family_id = f => ~legacy /\ x \in entry.members
    <2>1. CASE legacy
        BY <1>1, <1>2, <2>1, PortAssumption DEF HoldsMinted
    <2>2. CASE ~legacy
        BY <1>1, <1>2, <1>3, <1>5, <1>13, <2>2 DEF EntryFits
    <2> QED
        BY <2>1, <2>2
<1>15. f \notin closed
    <2>1. CASE legacy
        BY <1>1, <1>2, <2>1
    <2>2. CASE ~legacy
        BY <1>1, <1>2, <1>3, <1>5, <2>2 DEF TablesInv, ClosedFamilyStaysDead, LiveOf
    <2> QED
        BY <2>1, <2>2
<1>16. PortTypeOK'
    BY <1>1, <1>2, <1>3, <1>11, <1>12 DEF PortTypeOK
<1>17. HoldsMinted'
    <2> SUFFICES ASSUME NEW x \in Hash
                 PROVE  /\ live'[x] # None => /\ x \in minted'
                                              /\ live'[x].family_id \in families' \cup {NoFamily}
                        /\ retired'[x] # None => /\ x \in minted'
                                                 /\ retired'[x].family_id \in families'
                                                 /\ retired'[x] = written'[x]
                        /\ written'[x] # None => x \in minted' /\ live'[x] = None
        BY DEF HoldsMinted
    <2>1. CASE x = h
        BY <1>1, <1>3, <1>8, <1>11, <1>12, <2>1
    <2>2. CASE x = n
        BY <1>2, <1>3, <1>6, <1>7, <1>11, <1>12, <2>2
    <2>3. CASE x # h /\ x # n
        BY <1>1, <1>3, <1>11, <1>12, <2>3 DEF HoldsMinted
    <2> QED
        BY <2>1, <2>2, <2>3
<1>18. ClosedFamilyStaysDead'
    <2> SUFFICES ASSUME NEW g \in closed, NEW x \in Hash
                 PROVE  /\ live'[x] # None => live'[x].family_id # g
                        /\ retired'[x] # None => retired'[x].family_id # g
        BY <1>3 DEF ClosedFamilyStaysDead, LiveOf, RetiredOf
    <2>1. /\ live[x] # None => live[x].family_id # g
          /\ retired[x] # None => retired[x].family_id # g
        BY <1>1 DEF TablesInv, ClosedFamilyStaysDead, LiveOf, RetiredOf
    <2>2. CASE x = h
        BY <1>12b, <1>15, <2>2
    <2>3. CASE x = n
        BY <1>12b, <1>15, <2>3
    <2>4. CASE x # h /\ x # n
        BY <1>11, <1>12, <2>1, <2>4
    <2> QED
        BY <2>2, <2>3, <2>4
<1>19. EntriesFit'
    <2> SUFFICES ASSUME NEW v \in User, NEW g \in Family
                 PROVE  EntryFits(v, g, roster[v].families[g])'
        BY DEF EntriesFit
    <2> PICK a : a = roster'[v].families[g]
        OBVIOUS
    <2>1. CASE v = u /\ g = f
        <3>1. a = e
            BY <1>10, <2>1 DEF EntryBecomes
        <3>2. ASSUME NEW x \in e.members
              PROVE  Member(x, f)'
            <4>1. CASE x = n
                BY <1>2, <1>3, <1>6, <1>7, <1>11, <1>12, <4>1 DEF Member
            <4>2. CASE x = h /\ ~legacy
                <5>1. rec.family_id = f
                    BY <1>1, <1>8, <4>2 DEF legacy
                <5>2. /\ h \in minted' /\ live'[h] = None /\ written'[h] = rec
                    BY <1>1, <1>3, <1>12, <1>12b, <4>2
                <5> QED
                    BY <4>2, <5>1, <5>2 DEF Member
            <4>3. CASE x # h /\ x # n /\ ~legacy /\ x \in entry.members
                <5>1. Member(x, f) /\ x \in Hash
                    BY <1>2, <1>3, <1>13, <4>3 DEF EntryFits, Member
                <5> QED
                    BY <1>3, <1>11, <1>12, <4>3, <5>1 DEF Member
            <4> QED
                BY <1>9, <3>2, <4>1, <4>2, <4>3
        <3>3. ASSUME NEW x \in Hash
              PROVE  /\ live'[x] # None /\ live'[x].family_id = f =>
                            live'[x].user_id = u /\ e.live = x /\ x \in e.members
                     /\ retired'[x] # None /\ retired'[x].family_id = f => x \in e.members
            <4>1. CASE x = h
                BY <1>2, <1>9, <1>11, <1>12, <4>1
            <4>2. CASE x = n
                <5>1. live'[x] = s /\ s.user_id = u /\ e.live = x /\ x \in e.members
                    BY <1>7, <1>9, <1>11, <4>2
                <5>2. retired'[x] = None
                    BY <1>12a, <4>2
                <5> QED
                    BY <5>1, <5>2
            <4>3. CASE x # h /\ x # n
                <5>1. live'[x] = live[x] /\ retired'[x] = retired[x]
                    BY <1>11, <1>12, <4>3
                <5>2. live[x] # None => live[x].family_id # f
                    BY <1>14, <4>3
                <5>3. retired[x] # None /\ retired[x].family_id = f => x \in e.members
                    BY <1>9, <1>14
                <5> QED
                    BY <5>1, <5>2, <5>3
            <4> QED
                BY <4>1, <4>2, <4>3
        <3>4. f \in families' /\ e.live # None /\ written'[e.live] = None /\ e.live \in e.members
            BY <1>6, <1>9, <1>12a
        <3>5. EntryFits(v, g, a)'
            BY <2>1, <3>1, <3>2, <3>3, <3>4 DEF EntryFits
        <3> QED
            BY <3>5
    <2>2. CASE ~(v = u /\ g = f)
        <3>1. a = roster[v].families[g] /\ EntryFits(v, g, a)
            BY <1>1, <1>10, <2>2 DEF TablesInv, EntriesFit, EntryBecomes
        <3>2. CASE a.live = None
            <4>1. EntryFits(v, g, a)'
                BY <3>2 DEF EntryFits
            <4> QED
                BY <4>1
        <3>3. CASE a.live # None
            <4>1. g \in families /\ \A x \in a.members : Member(x, g)
                BY <3>1, <3>3 DEF EntryFits
            <4>2. g # f
                <5> SUFFICES ASSUME g = f PROVE FALSE
                    OBVIOUS
                <5>1. ~legacy
                    BY <1>1, <4>1 DEF legacy
                <5>2. live[h].user_id = v
                    BY <1>1, <1>2, <1>3, <1>5, <3>1, <3>3, <5>1 DEF EntryFits, legacy
                <5> QED
                    BY <1>1, <1>5, <2>2, <5>2
            <4>3. ASSUME NEW x \in a.members
                  PROVE  x \in Hash /\ x # h /\ x # n /\ Member(x, g)'
                <5>1. Member(x, g) /\ x \in minted /\ x \in Hash /\ x # n
                    BY <1>1, <1>2, <4>1, <4>3 DEF Member
                <5>2. x # h
                    BY <1>1, <1>3, <1>5, <4>2, <5>1, PortAssumption DEF Member, legacy
                <5> QED
                    BY <1>3, <1>11, <1>12, <5>1, <5>2 DEF Member
            <4>4. ASSUME NEW x \in Hash
                  PROVE  /\ live'[x] # None /\ live'[x].family_id = g =>
                                live'[x].user_id = v /\ a.live = x /\ x \in a.members
                         /\ retired'[x] # None /\ retired'[x].family_id = g => x \in a.members
                <5>1. /\ live[x] # None /\ live[x].family_id = g =>
                             live[x].user_id = v /\ a.live = x /\ x \in a.members
                      /\ retired[x] # None /\ retired[x].family_id = g => x \in a.members
                    BY <3>1, <3>3 DEF EntryFits
                <5>2. CASE x = h
                    BY <1>12b, <4>2, <5>2
                <5>3. CASE x = n
                    BY <1>12b, <4>2, <5>3
                <5>4. CASE x # h /\ x # n
                    BY <1>11, <1>12, <5>1, <5>4
                <5> QED
                    BY <5>2, <5>3, <5>4
            <4>5. a.live # Blank => a.live \in a.members /\ written'[a.live] = None
                BY <1>12, <3>1, <3>3, <4>3 DEF EntryFits
            <4>6. EntryFits(v, g, a)'
                BY <1>3, <4>1, <4>3, <4>4, <4>5 DEF EntryFits
            <4> QED
                BY <4>6
        <3> QED
            BY <3>2, <3>3
    <2> QED
        BY <2>1, <2>2
<1>20. RecordsKept'
    BY <1>1, <1>3, <1>12 DEF TablesInv, RecordsKept
<1>21. TablesInv'
    BY <1>1, <1>3, <1>10, <1>16, <1>17, <1>18, <1>19, <1>20 DEF TablesInv, EntryBecomes
<1>22. Forward
    <2>1. \A g \in families : FamilyGone(g) => FamilyGone(g)'
        <3> SUFFICES ASSUME NEW g \in families, FamilyGone(g) PROVE FamilyGone(g)'
            OBVIOUS
        <3>1. g # f
            BY <1>1, <1>2, <1>3, <1>5 DEF FamilyGone, legacy
        <3>2. ASSUME NEW x \in Hash
              PROVE  /\ live'[x] # None => live'[x].family_id # g
                     /\ retired'[x] # None => retired'[x].family_id # g
            <4>1. CASE x = h
                BY <1>12b, <3>1, <4>1
            <4>2. CASE x = n
                BY <1>12b, <3>1, <4>2
            <4>3. CASE x # h /\ x # n
                BY <1>11, <1>12, <4>3 DEF FamilyGone
            <4> QED
                BY <4>1, <4>2, <4>3
        <3> QED
            BY <3>2 DEF FamilyGone
    <2> QED
        BY <1>1, <1>2, <1>3, <1>11, <1>12, <2>1 DEF Forward
<1>23. ASSUME NEW q \in Call
       PROVE  call'[q] \in CallRecord /\ CallFits(call[q])'
    <2>1. CASE q = p
        <3>1. call'[q] = Done
            BY <1>1, <1>3, <2>1 DEF Step, CallsInv
        <3> QED
            BY <3>1, DoneFits
    <2>2. CASE q # p
        <3>1. /\ RotateFits(call[q]) /\ call'[q] = call[q] /\ call[q] \in CallRecord
              /\ Apart(call[q], d)
            BY <1>1, <1>3, <2>2 DEF Step, CallsInv, CallFits
        <3>2. call[q].pc \in RotatePc =>
                  /\ call[q].fresh \notin minted'
                  /\ call[q].old.family_id = NoFamily => call[q].family \notin families'
            BY <1>1, <1>3, <3>1 DEF RotateFits, Apart
        <3> QED
            BY <1>22, <3>1, <3>2, OthersFit
    <2> QED
        BY <2>1, <2>2
<1>24. call' \in [Call -> CallRecord]
    BY <1>1, <1>3, DoneFits DEF Step, CallsInv
<1>25. ASSUME NEW q \in Call, NEW r \in Call, q # r
       PROVE  Apart(call'[q], call'[r])
    <2>1. /\ call'[q] = call[q] \/ call'[q] = Done
          /\ call'[r] = call[r] \/ call'[r] = Done
        BY <1>1, <1>3 DEF Step, CallsInv
    <2> QED
        BY <1>1, <1>25, <2>1, DoneFits DEF CallsInv
<1>26. CallsInv'
    BY <1>23, <1>24, <1>25 DEF CallsInv, Apart
<1> QED
    BY <1>21, <1>26 DEF DynamoIInv

-----------------------------------------------------------------------------
(* The theorems. *)

LEMMA DynamoInitInv == DynamoInit => DynamoIInv
<1> SUFFICES ASSUME DynamoInit PROVE DynamoIInv
    OBVIOUS
<1>1. PortIInv
    BY InitPort DEF DynamoInit
<1>2. /\ PortTypeOK /\ HoldsMinted /\ ClosedFamilyStaysDead
      /\ written = [h \in Hash |-> None] /\ revoking = {}
      /\ call = [p \in Call |-> Done]
    BY <1>1 DEF PortIInv, DynamoInit, PortInit
<1>3. /\ NoEntry \in Entry /\ NoEntry.live = None
      /\ EmptyRoster \in Roster /\ NoRoster \in Roster
      /\ \A f \in Family : EmptyRoster.families[f] = NoEntry /\ NoRoster.families[f] = NoEntry
    <2>1. NoEntry \in Entry /\ NoEntry.live = None
        BY DEF NoEntry, Entry
    <2>2. EmptyRoster \in Roster /\ \A f \in Family : EmptyRoster.families[f] = NoEntry
        BY <2>1 DEF EmptyRoster, Roster
    <2>3. NoRoster \in Roster /\ NoRoster.families = EmptyRoster.families
        BY <2>2 DEF NoRoster, Roster
    <2> QED
        BY <2>1, <2>2, <2>3
<1>4. \A u \in User : roster[u] \in {EmptyRoster, NoRoster}
    BY DEF DynamoInit
<1>5. roster \in [User -> Roster]
    <2>1. roster = [u \in User |-> roster[u]]
        BY DEF DynamoInit
    <2> QED
        BY <1>3, <1>4, <2>1
<1>6. EntriesFit
    BY <1>3, <1>4 DEF EntriesFit, EntryFits
<1>7. RecordsKept
    BY <1>2 DEF RecordsKept
<1>8. TablesInv
    BY <1>2, <1>5, <1>6, <1>7 DEF TablesInv
<1>9. CallsInv
    <2>1. Done \in CallRecord /\ CallFits(Done) /\ \A d : Apart(d, Done)
        BY DEF Done, CallRecord, Pc, CallFits, RotateFits, RevokeFits, RotatePc, Apart
    <2> QED
        BY <1>2, <2>1 DEF CallsInv
<1> QED
    BY <1>8, <1>9 DEF DynamoIInv

LEMMA DynamoStutters == DynamoIInv /\ UNCHANGED dynamoVars => DynamoIInv'
<1> SUFFICES ASSUME DynamoIInv, UNCHANGED dynamoVars PROVE DynamoIInv'
    OBVIOUS
<1>1. /\ TablesInv /\ CallsInv /\ UNCHANGED <<portVars, roster>> /\ call' = call
      /\ revoking' = revoking /\ revoking \subseteq Family
      /\ UNCHANGED <<minted, families>> /\ minted \subseteq Hash
    BY DEF DynamoIInv, dynamoVars, TablesInv, PortTypeOK, portVars
<1>2. TablesInv' /\ Forward
    BY <1>1, QuietShrinks, ShrinksKeepsTables
<1>3. ASSUME NEW q \in Call
      PROVE  CallFits(call[q])'
    <2> PICK d : d = call[q]
        OBVIOUS
    <2>1. d \in CallRecord /\ CallFits(d) /\ call'[q] = d
        BY <1>1 DEF CallsInv
    <2>2. CallFits(d)'
        BY <1>1, <1>2, <2>1, CallFitsOn DEF CallFits, RotateFits
    <2> QED
        BY <2>1, <2>2
<1>4. CallsInv'
    BY <1>1, <1>3 DEF CallsInv, Apart
<1> QED
    BY <1>2, <1>4 DEF DynamoIInv

LEMMA DynamoNextInv == DynamoIInv /\ [DynamoNext]_dynamoVars => DynamoIInv'
<1> SUFFICES ASSUME DynamoIInv, [DynamoNext]_dynamoVars PROVE DynamoIInv'
    OBVIOUS
<1>1. ASSUME NEW p \in Call, CallStep(p) PROVE DynamoIInv'
    BY <1>1, StepReadRoster, StepTransactRotate, StepTransactRevoke, StepScan, StepReadEntry,
        StepDeleteItem, StepConfirmEntry, StepClearEntry, StepReadAll, StepConfirmAll, StepClearAll
        DEF CallStep
<1>2. ASSUME NEW p \in Call, NewCall(p) PROVE DynamoIInv'
    BY <1>2, StepCallRotate, StepBegin DEF NewCall
<1>3. ASSUME NEW p \in Call, Fails(p) PROVE DynamoIInv'
    BY <1>3, StepFails
<1>4. ASSUME NEW h \in FreshHash, NEW f \in FreshFamily, NEW u \in User,
             store_refresh_token_dynamo(h, f, u)
      PROVE  DynamoIInv'
    BY <1>4, StepStore
<1>5. ASSUME NEW h \in Hash, Expire(h) PROVE DynamoIInv'
    BY <1>5, StepExpire
<1>6. ASSUME NEW u \in User, backfill_session_rosters(u) PROVE DynamoIInv'
    BY <1>6, StepBackfill
<1>7. CASE Tick /\ UNCHANGED <<roster, call, revoking>>
    BY <1>7, StepTick
<1>8. CASE UNCHANGED dynamoVars
    BY <1>8, DynamoStutters
<1> QED
    BY <1>1, <1>2, <1>3, <1>4, <1>5, <1>6, <1>7, <1>8 DEF DynamoNext

\* However rotations, logouts, revocations that read the roster first, expiry, the migration and
\* failures half-way interleave, the adapter keeps its tables, rosters and calls consistent.
THEOREM DynamoInvariant == DynamoSpec => []DynamoIInv
<1> QED
    BY DynamoInitInv, DynamoNextInv, PTL DEF DynamoSpec

\* SR5 for the adapter.  A family whose entry revoke_family confirmed and cleared never comes
\* back, even by a rotation that had read its row and the roster before.
THEOREM DynamoClosedFamilyStaysDead == DynamoSpec => []ClosedFamilyStaysDead
<1>1. DynamoIInv => ClosedFamilyStaysDead
    BY DEF DynamoIInv, TablesInv
<1> QED
    BY <1>1, DynamoInvariant, PTL

\* As long as a family has an entry in its user's roster, what revoke_family and the listing read
\* there names its live row and remembers its every record.
THEOREM DynamoRosterEntryIsCurrent == DynamoSpec => []RosterEntryIsCurrent
<1>1. ASSUME DynamoIInv
      PROVE  RosterEntryIsCurrent
    <2> SUFFICES ASSUME NEW u \in User, NEW f \in Family, NEW h \in Hash,
                        roster[u].families[f].live # None
                 PROVE  /\ live[h] # None /\ live[h].family_id = f /\ live[h].user_id = u
                              => /\ roster[u].families[f].live = h
                                 /\ h \in roster[u].families[f].members
                                 /\ live[h].expires_at > now => h \in list_live_sessions_dynamo(u)
                        /\ h \in RetiredOf(f) => h \in roster[u].families[f].members
        BY DEF RosterEntryIsCurrent
    <2>1. EntryFits(u, f, roster[u].families[f])
        BY <1>1 DEF DynamoIInv, TablesInv, EntriesFit
    <2>2. h \in RetiredOf(f) => h \in roster[u].families[f].members
        BY <2>1 DEF EntryFits, RetiredOf
    <2>3. ASSUME live[h] # None, live[h].family_id = f, live[h].user_id = u
          PROVE  /\ roster[u].families[f].live = h
                 /\ h \in roster[u].families[f].members
        BY <2>1, <2>3 DEF EntryFits
    <2>4. ASSUME live[h] # None, roster[u].families[f].live = h, live[h].expires_at > now
          PROVE  h \in list_live_sessions_dynamo(u)
        BY <2>4, DynamoAssumption DEF list_live_sessions_dynamo, get_session_item, Blank
    <2> QED
        BY <2>2, <2>3, <2>4
<1> QED
    BY <1>1, DynamoInvariant, PTL

\* SR4 for the adapter.  A superseded token is recognised as such for its retention window, unless
\* a revocation of its family has begun.
THEOREM DynamoReuseDetectable == DynamoSpec => []ReuseDetectableUnlessRevoking
<1>1. ASSUME DynamoIInv
      PROVE  ReuseDetectableUnlessRevoking
    <2> SUFFICES ASSUME NEW h \in Hash, written[h] # None, written[h].family_id \notin revoking,
                        now < written[h].expires_at
                 PROVE  /\ get_retired_record(h) = written[h]
                        /\ resolve_refresh_token_dynamo(h) \in {"Superseded", "Retired"}
        BY DEF ReuseDetectableUnlessRevoking
    <2>1. retired[h] = written[h] /\ live[h] = None
        BY <1>1 DEF DynamoIInv, TablesInv, RecordsKept, HoldsMinted
    <2>2. ~(retired[h].expires_at <= now)
        <3>1. now \in Nat /\ written[h].expires_at \in Nat
            BY <1>1 DEF DynamoIInv, TablesInv, PortTypeOK, RetiredRefreshToken
        <3> QED
            BY <2>1, <3>1
    <2> QED
        BY <2>1, <2>2 DEF get_retired_record, get_session_item, resolve_refresh_token_dynamo
<1> QED
    BY <1>1, DynamoInvariant, PTL
=============================================================================
