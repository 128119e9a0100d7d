----------------------------- MODULE ValkeyProofs ------------------------------
(***************************************************************************)
(* Theorems about ValkeySessions, for every value of its constants: any    *)
(* number of calls whose commands interleave, fail or never come.          *)
(*                                                                         *)
(* The argument: a hash is stored once, so a key that is gone stays gone,  *)
(* and a member of an index set that a call found dead is dead when the    *)
(* call removes it.  Of a family whose set is empty nothing is left with a *)
(* second to go, nor ever will be, so what joins a set between the SCARD   *)
(* and the DEL is in its last second.  A key is written with a TTL that is *)
(* less than a second short of its expires_at, and a set with one that is  *)
(* less than a second short of that of each member.                        *)
(***************************************************************************)
EXTENDS ValkeySessions, FiniteSetTheorems, TLAPS

FamilyPc == {"familyMember", "familyUnfile", "familyCard", "familyDrop"}
UserPc == {"userDelete", "userDrop", "userScan", "userRecord", "userUnfile"}
CleanPc == {"pruneUser", "sremUser", "dropUser", "pruneFamily", "sremFamily", "dropFamily",
            "setCounter", "getCounter"}
Pc == {"done", "pipeline", "decr", "clamp", "unfile"} \cup FamilyPc \cup UserPc \cup CleanPc

CallRecord == [pc : Pc, of : Family \cup User \cup {None}, cur : Hash \cup {None},
               owner : User \cup {None}, members : SUBSET Hash, todo : SUBSET (Family \cup User),
               count : Nat, next : Pc]

\* The sessions there are, and those whose store has answered.
Lives == {h \in Hash : live[h] # None}
Settled == {h \in Hash : live[h] # None /\ ~Storing(h)}

RowsTyped ==
    /\ live \in [Hash -> Session \cup {None}]
    /\ retired \in [Hash -> RetiredRefreshToken \cup {None}]
    /\ written \in [Hash -> RetiredRefreshToken \cup {None}]
    /\ now \in Nat /\ minted \subseteq Hash /\ families \subseteq Family
    /\ IsFiniteSet(Lives)

SetsTyped ==
    /\ userSet \in [User -> SUBSET Hash] /\ userTtl \in [User -> Nat]
    /\ familySet \in [Family -> SUBSET Hash] /\ familyTtl \in [Family -> Nat]
    /\ retiredTtl \in [Hash -> Nat]
    /\ counter \in Int
    /\ begun \in [Removal -> Nat]

\* What the store holds was minted; a record is the one that was written.
RowsMinted ==
    \A h \in Hash :
        /\ live[h] # None => h \in minted /\ live[h].family_id \in families \cup {NoFamily}
        /\ retired[h] # None => retired[h] = written[h]
        /\ written[h] # None => h \in minted /\ live[h] = None /\ written[h].family_id \in families

Dead(h) == h \in minted /\ live[h] = None /\ retired[h] = None

\* What is left of h, or of f, has less than a second to go.
Spent(h) ==
    /\ live[h] # None => live[h].expires_at < now + Second
    /\ retired[h] # None => retired[h].expires_at < now + Second

FamilySpent(f) ==
    \A h \in Hash :
        /\ live[h] # None /\ live[h].family_id = f => live[h].expires_at < now + Second
        /\ retired[h] # None /\ retired[h].family_id = f => retired[h].expires_at < now + Second

\* h was answered, and is or was a generation of f, if of any.
Belongs(h, f) ==
    /\ h \in minted /\ ~Storing(h)
    /\ live[h] # None => live[h].family_id = f
    /\ written[h] # None => written[h].family_id = f

\* An index set has members of its family only, and outlives them but for a second.
MembersBelong ==
    \A f \in Family : \A h \in familySet[f] : f \in families /\ Belongs(h, f)

FamilyOutlives ==
    \A h \in Hash :
        /\ live[h] # None /\ live[h].family_id # NoFamily /\ ~Storing(h)
           => live[h].expires_at < familyTtl[live[h].family_id] + Second
        /\ retired[h] # None => retired[h].expires_at < familyTtl[retired[h].family_id] + Second

\* As long as nobody deletes a user's set as a whole.
Filed(h) ==
    /\ live[h].expires_at < userTtl[live[h].user_id] + Second
    /\ now + Second <= live[h].expires_at => h \in userSet[live[h].user_id]

UserFiled ==
    begun["user"] = 0 /\ begun["cleanup"] = 0 => \A h \in Hash : live[h] # None => Filed(h)

\* A record stays, the last second aside, unless its family or its user is sentenced.
RecordsOutlive ==
    \A h \in Hash : retired[h] # None => retired[h].expires_at < retiredTtl[h] + Second

RecordsKept ==
    \A h \in Hash :
        /\ written[h] # None /\ now + Second <= written[h].expires_at
        /\ written[h].family_id \notin sentenced /\ written[h].user_id \notin sentenced
        => retired[h] = written[h]

\* A store in its pipeline.
StoreOf(c) ==
    /\ c.of \in families /\ c.cur \in minted
    /\ written[c.cur] = None /\ familySet[c.of] = {}
    /\ \A h \in Hash : live[h] # None /\ live[h].family_id = c.of => h = c.cur
    /\ c.count # 0
    /\ live[c.cur] # None => live[c.cur].family_id = c.of /\ live[c.cur].expires_at < EXPIRE(c.count) + Second

StoresDiffer ==
    \A p, q \in Call : call[p].pc = "pipeline" /\ call[q].pc = "pipeline" /\ p # q =>
        call[p].cur # call[q].cur /\ call[p].of # call[q].of

\* Where a call goes on, the counter aside.
Where(c) == IF c.pc \in {"decr", "clamp"} THEN c.next ELSE c.pc

RevokeOf(c) ==
    /\ c.pc \in {"decr", "clamp"} => c.next \in {"unfile", "familyCard", "userDrop"}
    /\ c.pc = "clamp" => begun["user"] # 0 \/ begun["cleanup"] # 0
    /\ Where(c) = "unfile" => c.cur \in minted /\ live[c.cur] = None /\ c.owner \in User
    /\ Where(c) \in FamilyPc => /\ c.of \in families /\ c.of \in sentenced /\ Addressable(c.of)
                                /\ \A h \in c.members : Belongs(h, c.of)
    /\ Where(c) \in {"familyUnfile", "userUnfile"} => Dead(c.cur)
    /\ Where(c) \in {"familyDrop", "dropFamily"} => c.of \in families /\ FamilySpent(c.of)
    /\ Where(c) \in UserPc => c.of \in User /\ c.of \in sentenced /\ begun["user"] # 0

CleanOf(c) ==
    /\ Where(c) \in CleanPc => begun["cleanup"] # 0
    /\ Where(c) \in {"sremUser", "dropUser"} => c.of \in User
    /\ Where(c) \in {"pruneFamily", "sremFamily", "dropFamily"} =>
          \A f \in c.todo : f \in families /\ Addressable(f)
    /\ Where(c) = "sremFamily" => /\ c.of \in families /\ Addressable(c.of)
                                  /\ \A h \in c.members : Dead(h)

CallOf(c) == c \in CallRecord /\ RevokeOf(c) /\ CleanOf(c)

\* The sessions a call has deleted and not yet taken off the counter.
Owes(c) == IF c.pc \in {"decr", "familyMember", "familyUnfile"} THEN c.count ELSE 0
Owed == UNION {{p} \X (1..Owes(call[p])) : p \in Call}

CounterCovers ==
    begun["user"] = 0 /\ begun["cleanup"] = 0 =>
        /\ IsFiniteSet(Owed)
        /\ counter >= Cardinality(Settled) + Cardinality(Owed)

IndexInv ==
    /\ RowsTyped /\ SetsTyped /\ RowsMinted
    /\ MembersBelong /\ FamilyIndexComplete /\ FamilyOutlives
    /\ UserFiled /\ RecordsOutlive /\ RecordsKept

CallsInv ==
    /\ call \in [Call -> CallRecord]
    /\ \A p \in Call : CallOf(call[p]) /\ (call[p].pc = "pipeline" => StoreOf(call[p]))
    /\ StoresDiffer

ValkeyIInv == IndexInv /\ CallsInv /\ CounterCovers

-----------------------------------------------------------------------------
(* What all steps have in common. *)

\* What is over stays over, and what a call has found out stays true.
Forward ==
    /\ minted \subseteq minted' /\ families \subseteq families' /\ sentenced \subseteq sentenced'
    /\ begun["user"] # 0 => begun'["user"] # 0
    /\ begun["cleanup"] # 0 => begun'["cleanup"] # 0
    /\ \A h \in minted : /\ live[h] = None => live'[h] = None
                         /\ Dead(h) => Dead(h)'
                         /\ \A f \in Family : Belongs(h, f) => Belongs(h, f)'
    /\ \A f \in families : /\ Addressable(f) => Addressable(f)'
                           /\ FamilySpent(f) => FamilySpent(f)'

LEMMA ForwardKeepsCall ==
    ASSUME Forward, families \subseteq Family, NEW c, CallOf(c)
    PROVE  CallOf(c)'
<1>1. \A h, f : Belongs(h, f) => h \in minted
    BY DEF Belongs
<1>2. \A h : Dead(h) => h \in minted
    BY DEF Dead
<1>3. RevokeOf(c)'
    BY <1>1, <1>2 DEF Forward, CallOf, RevokeOf, Where, FamilyPc, UserPc
<1>4. CleanOf(c)'
    BY <1>1, <1>2 DEF Forward, CallOf, CleanOf, Where, CleanPc
<1> QED
    BY <1>3, <1>4 DEF CallOf

\* A step of a call that only takes away: keys, and members of sets that are spent.
Shrunk(p, c) ==
    /\ call[p].pc # "pipeline" /\ c.pc # "pipeline" /\ call' = [call EXCEPT ![p] = c]
    /\ UNCHANGED <<now, minted, families, written, userTtl, familyTtl, retiredTtl>>
    /\ live' \in [Hash -> Session \cup {None}]
    /\ \A h \in Hash : live'[h] = live[h] \/ live'[h] = None
    /\ retired' \in [Hash -> RetiredRefreshToken \cup {None}]
    /\ \A h \in Hash : \/ retired'[h] = retired[h]
                       \/ /\ retired'[h] = None
                          /\ written[h].family_id \in sentenced \/ written[h].user_id \in sentenced
    /\ familySet' \in [Family -> SUBSET Hash]
    /\ \A f \in Family : /\ familySet'[f] \subseteq familySet[f]
                         /\ \A h \in familySet[f] \ familySet'[f] : Spent(h)'
    /\ userSet' \in [User -> SUBSET Hash]
    /\ begun'["user"] = 0 /\ begun'["cleanup"] = 0 =>
          \A u \in User : \A h \in userSet[u] \ userSet'[u] : live[h] = None
    /\ sentenced \subseteq sentenced'
    /\ begun' \in [Removal -> Nat] /\ \A k \in Removal : begun[k] <= begun'[k]

\* Where the counter goes with it.
CounterStep(p, c) ==
    \/ begun'["user"] # 0 \/ begun'["cleanup"] # 0
    \/ counter' = counter /\ Owes(c) <= Owes(call[p])
    \/ counter' = counter /\ Owes(c) = Owes(call[p]) + 1 /\ \E h \in Settled : live'[h] = None
    \/ counter' = counter - Owes(call[p]) /\ Owes(c) = 0

\* The stores in flight are the same.
LEMMA ShrunkStores ==
    ASSUME call \in [Call -> CallRecord], NEW p \in Call, NEW c, Shrunk(p, c)
    PROVE  /\ \A q \in Call : /\ call'[q].pc = "pipeline" <=> call[q].pc = "pipeline"
                              /\ call[q].pc = "pipeline" => call'[q] = call[q]
           /\ \A h : Storing(h)' <=> Storing(h)
           /\ \A f : Addressable(f)' <=> Addressable(f)
<1>1. \A q \in Call : call'[q] = IF q = p THEN c ELSE call[q]
    BY DEF Shrunk
<1>2. \A q \in Call : /\ call'[q].pc = "pipeline" <=> call[q].pc = "pipeline"
                      /\ call[q].pc = "pipeline" => call'[q] = call[q]
    BY <1>1 DEF Shrunk
<1> QED
    BY <1>2 DEF Storing, Addressable

LEMMA ShrunkForward ==
    ASSUME IndexInv, call \in [Call -> CallRecord], NEW p \in Call, NEW c, Shrunk(p, c)
    PROVE  Forward
<1>0. /\ RowsTyped /\ SetsTyped /\ minted' = minted /\ families' = families /\ sentenced \subseteq sentenced'
      /\ written' = written /\ minted \subseteq Hash
    BY DEF IndexInv, RowsTyped, Shrunk
<1>1. (begun["user"] # 0 => begun'["user"] # 0) /\ (begun["cleanup"] # 0 => begun'["cleanup"] # 0)
    BY <1>0 DEF Shrunk, SetsTyped, Removal
<1>2. \A h \in Hash : /\ live'[h] = live[h] \/ live'[h] = None
                      /\ retired'[h] = retired[h] \/ retired'[h] = None
    BY DEF Shrunk
<1>3. \A h \in minted : /\ live[h] = None => live'[h] = None
                        /\ Dead(h) => Dead(h)'
    BY <1>0, <1>2 DEF Dead
<1>4. \A h \in minted : \A f \in Family : Belongs(h, f) => Belongs(h, f)'
    BY <1>0, <1>2, ShrunkStores DEF Belongs
<1>5. \A f \in families : (Addressable(f) => Addressable(f)') /\ (FamilySpent(f) => FamilySpent(f)')
    BY <1>2, ShrunkStores DEF FamilySpent, Shrunk
<1> QED
    BY <1>0, <1>1, <1>3, <1>4, <1>5 DEF Forward

LEMMA ShrunkIndex ==
    ASSUME IndexInv, call \in [Call -> CallRecord], NEW p \in Call, NEW c, Shrunk(p, c), counter' \in Int
    PROVE  IndexInv'
<1>0. /\ RowsTyped /\ SetsTyped /\ RowsMinted
      /\ UNCHANGED <<now, minted, families, written, userTtl, familyTtl, retiredTtl>>
    BY DEF IndexInv, Shrunk
<1>1. \A h \in Hash : /\ live'[h] = live[h] \/ live'[h] = None
                      /\ retired'[h] = retired[h] \/ retired'[h] = None
    BY DEF Shrunk
<1>2. \A h : Storing(h)' <=> Storing(h)
    BY ShrunkStores
<1>3. RowsTyped'
    <2>1. Lives' \in SUBSET Lives
        BY <1>1 DEF Lives
    <2>2. IsFiniteSet(Lives')
        BY <1>0, <2>1, FS_Subset DEF RowsTyped
    <2> QED
        BY <1>0, <2>2 DEF RowsTyped, Shrunk
<1>4. SetsTyped'
    BY <1>0 DEF SetsTyped, Shrunk
<1>5. RowsMinted'
    BY <1>0, <1>1 DEF RowsMinted
<1>6. MembersBelong'
    <2> SUFFICES ASSUME NEW f \in Family, NEW h \in familySet'[f]
                 PROVE  f \in families' /\ Belongs(h, f)'
        BY DEF MembersBelong
    <2>1. h \in Hash /\ h \in familySet[f]
        BY <1>0 DEF Shrunk, SetsTyped
    <2>2. f \in families /\ Belongs(h, f)
        BY <2>1 DEF IndexInv, MembersBelong
    <2> QED
        BY <1>0, <1>1, <1>2, <2>1, <2>2 DEF Belongs
<1>7. FamilyIndexComplete'
    <2> SUFFICES ASSUME NEW h \in Hash
                 PROVE  /\ /\ live'[h] # None /\ live'[h].family_id # NoFamily
                           /\ ~Storing(h) /\ now + Second <= live'[h].expires_at
                           => h \in familySet'[live'[h].family_id]
                        /\ retired'[h] # None /\ now + Second <= retired'[h].expires_at
                           => h \in familySet'[retired'[h].family_id]
        BY <1>0, <1>2 DEF FamilyIndexComplete
    <2>0. now \in Nat /\ Second \in Nat
        BY <1>0, ValkeyAssumption DEF RowsTyped
    <2>1. \A f \in Family : h \in familySet[f] /\ ~Spent(h)' => h \in familySet'[f]
        BY DEF Shrunk
    <2>2. ASSUME live'[h] # None, live'[h].family_id # NoFamily, ~Storing(h), now + Second <= live'[h].expires_at
          PROVE  h \in familySet'[live'[h].family_id]
        <3>1. live'[h] = live[h] /\ live[h].family_id \in Family /\ live[h].expires_at \in Nat
            BY <1>0, <1>1, <2>2 DEF RowsTyped, Session
        <3>2. h \in familySet[live[h].family_id]
            BY <2>2, <3>1 DEF IndexInv, FamilyIndexComplete
        <3>3. ~Spent(h)'
            BY <1>0, <2>0, <2>2, <3>1 DEF Spent
        <3> QED
            BY <2>1, <3>1, <3>2, <3>3
    <2>3. ASSUME retired'[h] # None, now + Second <= retired'[h].expires_at
          PROVE  h \in familySet'[retired'[h].family_id]
        <3>1. retired'[h] = retired[h] /\ retired[h].family_id \in Family /\ retired[h].expires_at \in Nat
            BY <1>0, <1>1, <2>3 DEF RowsTyped, RetiredRefreshToken
        <3>2. h \in familySet[retired[h].family_id]
            BY <2>3, <3>1 DEF IndexInv, FamilyIndexComplete
        <3>3. ~Spent(h)'
            BY <1>0, <2>0, <2>3, <3>1 DEF Spent
        <3> QED
            BY <2>1, <3>1, <3>2, <3>3
    <2> QED
        BY <2>2, <2>3
<1>8. FamilyOutlives'
    BY <1>0, <1>1, <1>2 DEF IndexInv, FamilyOutlives
<1>9. UserFiled'
    <2> SUFFICES ASSUME begun'["user"] = 0, begun'["cleanup"] = 0, NEW h \in Hash, live'[h] # None
                 PROVE  Filed(h)'
        BY DEF UserFiled
    <2>1. begun["user"] = 0 /\ begun["cleanup"] = 0
        BY <1>0 DEF Shrunk, SetsTyped, Removal
    <2>2. live'[h] = live[h] /\ live[h].user_id \in User
        BY <1>0, <1>1 DEF RowsTyped, Session
    <2>3. Filed(h)
        BY <2>1, <2>2 DEF IndexInv, UserFiled
    <2>4. h \in userSet[live[h].user_id] => h \in userSet'[live[h].user_id]
        BY <2>2 DEF Shrunk
    <2> QED
        BY <1>0, <2>2, <2>3, <2>4 DEF Filed
<1>10. RecordsKept' /\ RecordsOutlive'
    BY <1>0, <1>1 DEF Shrunk, IndexInv, RecordsKept, RecordsOutlive
<1> QED
    BY <1>3, <1>4, <1>5, <1>6, <1>7, <1>8, <1>9, <1>10 DEF IndexInv

LEMMA ShrunkCalls ==
    ASSUME IndexInv, CallsInv, NEW p \in Call, NEW c, Shrunk(p, c), c \in CallRecord, CallOf(c)'
    PROVE  CallsInv'
<1>0. call \in [Call -> CallRecord] /\ families \subseteq Family /\ SetsTyped
    BY DEF CallsInv, IndexInv, RowsTyped
<1>1. \A q \in Call : call'[q] = IF q = p THEN c ELSE call[q]
    BY <1>0 DEF Shrunk
<1>2. call' \in [Call -> CallRecord]
    BY <1>0 DEF Shrunk
<1>3. Forward
    BY <1>0, ShrunkForward
<1>4. ASSUME NEW q \in Call
      PROVE  CallOf(call[q])'
    <2>1. CASE q = p
        BY <1>1, <2>1
    <2>2. CASE q # p
        <3>1. PICK d : d = call[q]
            OBVIOUS
        <3>2. call'[q] = d /\ CallOf(d)
            BY <1>1, <2>2, <3>1 DEF CallsInv
        <3>3. CallOf(d)'
            BY <1>0, <1>3, <3>2, ForwardKeepsCall
        <3> QED
            BY <3>2, <3>3
    <2> QED
        BY <2>1, <2>2
<1>5. ASSUME NEW q \in Call, call'[q].pc = "pipeline"
      PROVE  StoreOf(call[q])'
    <2>1. PICK d : d = call[q]
        OBVIOUS
    <2>2. call'[q] = d /\ StoreOf(d)
        BY <1>0, <1>5, <2>1, ShrunkStores DEF CallsInv
    <2>3. UNCHANGED <<now, minted, families, written>> /\ d.of \in Family /\ d.cur \in Hash
        BY <1>0, <2>2 DEF Shrunk, StoreOf, IndexInv, RowsTyped
    <2>4. \A h \in Hash : live'[h] = live[h] \/ live'[h] = None
        BY DEF Shrunk
    <2>5. familySet'[d.of] = {}
        BY <2>2, <2>3 DEF Shrunk, StoreOf
    <2>6. StoreOf(d)'
        BY <2>2, <2>3, <2>4, <2>5 DEF StoreOf, EXPIRE
    <2> QED
        BY <2>2, <2>6
<1>6. StoresDiffer'
    <2>1. \A q \in Call : /\ call'[q].pc = "pipeline" <=> call[q].pc = "pipeline"
                          /\ call[q].pc = "pipeline" => call'[q] = call[q]
        BY <1>0, ShrunkStores
    <2> QED
        BY <2>1 DEF CallsInv, StoresDiffer
<1> QED
    BY <1>2, <1>4, <1>5, <1>6 DEF CallsInv

\* What a call owes is a number.
LEMMA OwesType ==
    ASSUME NEW c \in CallRecord
    PROVE  Owes(c) \in Nat
BY DEF Owes, CallRecord

\* So many pairs of p and a number.
LEMMA PairsOf ==
    ASSUME NEW p, NEW n \in Nat
    PROVE  IsFiniteSet({p} \X (1..n)) /\ Cardinality({p} \X (1..n)) = n
<1>1. IsFiniteSet({p}) /\ Cardinality({p}) = 1
    BY FS_Singleton
<1>2. IsFiniteSet(1..n) /\ Cardinality(1..n) = (IF 1 > n THEN 0 ELSE n - 1 + 1)
    BY FS_Interval
<1>3. Cardinality(1..n) = n
    BY <1>2
<1> DEFINE S == {p}
           T == 1..n
<1>4. IsFiniteSet(S) /\ IsFiniteSet(T) /\ Cardinality(S) = 1 /\ Cardinality(T) = n
    BY <1>1, <1>2, <1>3
<1> HIDE DEF S, T
<1>5. IsFiniteSet(S \X T) /\ Cardinality(S \X T) = Cardinality(S) * Cardinality(T)
    BY <1>4, FS_Product
<1>6. IsFiniteSet(S \X T) /\ Cardinality(S \X T) = n
    BY <1>4, <1>5
<1> QED
    BY <1>6 DEF S, T

LEMMA ShrunkCounter ==
    ASSUME IndexInv, CallsInv, CounterCovers, NEW p \in Call, NEW c, Shrunk(p, c), c \in CallRecord,
           CounterStep(p, c)
    PROVE  CounterCovers'
<1> SUFFICES ASSUME begun'["user"] = 0, begun'["cleanup"] = 0
             PROVE  /\ IsFiniteSet(Owed')
                    /\ counter' >= Cardinality(Settled') + Cardinality(Owed')
    BY DEF CounterCovers
<1>0. call \in [Call -> CallRecord] /\ SetsTyped /\ RowsTyped
    BY DEF CallsInv, IndexInv
<1>1. begun["user"] = 0 /\ begun["cleanup"] = 0
    BY <1>0 DEF Shrunk, SetsTyped, Removal
<1>2. IsFiniteSet(Owed) /\ counter >= Cardinality(Settled) + Cardinality(Owed)
    BY <1>1 DEF CounterCovers
<1>3. IsFiniteSet(Settled)
    <2>1. Settled \in SUBSET Lives
        BY DEF Settled, Lives
    <2> QED
        BY <1>0, <2>1, FS_Subset DEF RowsTyped
<1>4. Settled' \in SUBSET Settled
    <2>1. \A h : Storing(h)' <=> Storing(h)
        BY <1>0, ShrunkStores
    <2> QED
        BY <2>1 DEF Settled, Shrunk
<1>5. IsFiniteSet(Settled') /\ Cardinality(Settled') <= Cardinality(Settled)
    BY <1>3, <1>4, FS_Subset
<1>6. /\ Cardinality(Settled) \in Nat /\ Cardinality(Settled') \in Nat /\ Cardinality(Owed) \in Nat
      /\ counter \in Int
    BY <1>0, <1>2, <1>3, <1>5, FS_CardinalityType DEF SetsTyped
<1> DEFINE n == Owes(call[p])
           m == Owes(c)
<1>7. n \in Nat /\ m \in Nat
    BY <1>0, OwesType
<1>8. Owed' = {x \in Owed : x[1] # p} \cup ({p} \X (1..m))
    <2>1. \A q \in Call : call'[q] = IF q = p THEN c ELSE call[q]
        BY <1>0 DEF Shrunk
    <2>2. Owed' = UNION {{q} \X (1..Owes(call'[q])) : q \in Call}
        BY DEF Owed, Owes
    <2>3. \A x : x \in Owed' <=> \E q \in Call : x \in {q} \X (1..Owes(call'[q]))
        BY <2>2
    <2>4. \A x : x \in Owed <=> \E q \in Call : x \in {q} \X (1..Owes(call[q]))
        BY DEF Owed
    <2> QED
        BY <2>1, <2>3, <2>4
<1>9. Owed = {x \in Owed : x[1] # p} \cup ({p} \X (1..n))
    <2>1. \A x : x \in Owed <=> \E q \in Call : x \in {q} \X (1..Owes(call[q]))
        BY DEF Owed
    <2> QED
        BY <2>1
<1> HIDE DEF n, m
<1>10. CASE counter' = counter /\ m <= n
    <2>1. Owed' \in SUBSET Owed
        <3>1. 1..m \subseteq 1..n
            BY <1>7, <1>10
        <3>2. {p} \X (1..m) \subseteq {p} \X (1..n)
            BY <3>1
        <3> QED
            BY <1>8, <1>9, <3>2
    <2>2. IsFiniteSet(Owed') /\ Cardinality(Owed') <= Cardinality(Owed) /\ Cardinality(Owed') \in Nat
        BY <1>2, <2>1, FS_Subset, FS_CardinalityType
    <2> QED
        BY <1>2, <1>5, <1>6, <1>10, <2>2
<1>11. ASSUME counter' = counter, m = n + 1, NEW h \in Settled, live'[h] = None
       PROVE  /\ IsFiniteSet(Owed')
              /\ counter' >= Cardinality(Settled') + Cardinality(Owed')
    <2>1. Owed' = Owed \cup {<<p, m>>}
        <3>1. 1..m = (1..n) \cup {m}
            BY <1>7, <1>11
        <3>2. {p} \X (1..m) = ({p} \X (1..n)) \cup {<<p, m>>}
            BY <3>1
        <3> QED
            BY <1>8, <1>9, <3>2
    <2>2. IsFiniteSet(Owed') /\ Cardinality(Owed') <= Cardinality(Owed) + 1 /\ Cardinality(Owed') \in Nat
        <3>1. /\ IsFiniteSet(Owed \cup {<<p, m>>})
              /\ Cardinality(Owed \cup {<<p, m>>}) = IF <<p, m>> \in Owed THEN Cardinality(Owed)
                                                     ELSE Cardinality(Owed) + 1
            BY <1>2, FS_AddElement
        <3> QED
            BY <1>6, <2>1, <3>1
    <2>3. Settled' \in SUBSET (Settled \ {h})
        BY <1>4, <1>11 DEF Settled
    <2>4. IsFiniteSet(Settled \ {h}) /\ Cardinality(Settled \ {h}) = Cardinality(Settled) - 1
        BY <1>3, <1>11, FS_RemoveElement
    <2>5. Cardinality(Settled') <= Cardinality(Settled) - 1
        BY <2>3, <2>4, FS_Subset
    <2> QED
        BY <1>2, <1>6, <1>11, <2>2, <2>5
<1>12. CASE counter' = counter - n /\ m = 0
    <2> DEFINE T == {p} \X (1..n)
    <2>1. IsFiniteSet(T) /\ Cardinality(T) = n
        BY <1>7, PairsOf
    <2>2. Owed' = Owed \ T /\ Owed \cap T = T
        <3>1. 1..m = {}
            BY <1>12
        <3>2. {p} \X (1..m) = {}
            BY <3>1
        <3>3. \A x \in T : x[1] = p
            OBVIOUS
        <3>4. Owed' = {x \in Owed : x[1] # p}
            BY <1>8, <3>2
        <3>5. Owed = {x \in Owed : x[1] # p} \cup T
            BY <1>9
        <3> HIDE DEF T
        <3> QED
            BY <3>3, <3>4, <3>5
    <2> HIDE DEF T
    <2>3. IsFiniteSet(Owed \ T) /\ Cardinality(Owed \ T) = Cardinality(Owed) - Cardinality(Owed \cap T)
        BY <1>2, FS_Difference
    <2>4. IsFiniteSet(Owed') /\ Cardinality(Owed') = Cardinality(Owed) - n
        BY <2>1, <2>2, <2>3
    <2> QED
        BY <1>2, <1>5, <1>6, <1>7, <1>12, <2>4
<1> QED
    BY <1>10, <1>11, <1>12 DEF CounterStep, n, m

\* The four together.
LEMMA ShrunkKeeps ==
    ASSUME ValkeyIInv, NEW p \in Call, NEW c, Shrunk(p, c), c \in CallRecord, RevokeOf(c)', CleanOf(c)',
           counter' \in Int, CounterStep(p, c)
    PROVE  ValkeyIInv'
<1>1. call \in [Call -> CallRecord]
    BY DEF ValkeyIInv, CallsInv
<1>2. CallOf(c)'
    BY DEF CallOf, CallRecord, Pc
<1> QED
    BY <1>1, <1>2, ShrunkIndex, ShrunkCalls, ShrunkCounter DEF ValkeyIInv

-----------------------------------------------------------------------------
(* The commands that change no key. *)

LEMMA DoneIsRecord ==
    /\ Done \in CallRecord /\ Done.pc = "done" /\ Done.members = {} /\ Done.todo = {} /\ Done.count = 0
BY DEF Done, CallRecord, Pc

LEMMA PcNames ==
    /\ {"done", "pipeline", "decr", "clamp", "unfile"} \subseteq Pc /\ FamilyPc \subseteq Pc
    /\ UserPc \subseteq Pc /\ CleanPc \subseteq Pc
    /\ {"familyMember", "familyUnfile", "familyCard", "familyDrop"} = FamilyPc
    /\ {"userDelete", "userDrop", "userScan", "userRecord", "userUnfile"} = UserPc
    /\ {"pruneUser", "sremUser", "dropUser", "pruneFamily", "sremFamily", "dropFamily",
        "setCounter", "getCounter"} = CleanPc
BY DEF Pc, FamilyPc, UserPc, CleanPc

\* What is known of a call.
LEMMA CallFacts ==
    ASSUME ValkeyIInv, NEW p \in Call
    PROVE  /\ call \in [Call -> CallRecord] /\ call[p] \in CallRecord
           /\ RevokeOf(call[p]) /\ CleanOf(call[p])
           /\ RowsTyped /\ SetsTyped /\ RowsMinted /\ MembersBelong /\ FamilyIndexComplete
BY DEF ValkeyIInv, CallsInv, IndexInv, CallOf

\* The keys are as they were.
Quiet(p, c) ==
    /\ call[p].pc # "pipeline" /\ c.pc # "pipeline" /\ call' = [call EXCEPT ![p] = c]
    /\ UNCHANGED <<live, retired, now, minted, families, written, setVars>>
    /\ sentenced \subseteq sentenced'
    /\ begun' = begun \/ \E k \in Removal : begun' = [begun EXCEPT ![k] = @ + 1]

LEMMA QuietShrinks ==
    ASSUME ValkeyIInv, NEW p \in Call, NEW c, Quiet(p, c)
    PROVE  Shrunk(p, c)
<1>1. RowsTyped /\ SetsTyped
    BY CallFacts
<1>2. begun' \in [Removal -> Nat] /\ \A k \in Removal : begun[k] <= begun'[k]
    BY <1>1 DEF Quiet, SetsTyped
<1> QED
    BY <1>1, <1>2 DEF Quiet, Shrunk, RowsTyped, SetsTyped, setVars, ttlVars

\* With that, what was true of a call's next state still is.
LEMMA QuietKeeps ==
    ASSUME ValkeyIInv, NEW p \in Call, NEW c, Quiet(p, c), c \in CallRecord, RevokeOf(c), CleanOf(c),
           counter' \in Int, CounterStep(p, c)
    PROVE  ValkeyIInv'
<1>1. Shrunk(p, c)
    BY QuietShrinks
<1>2. Forward /\ families \subseteq Family
    BY <1>1, CallFacts, ShrunkForward DEF ValkeyIInv, RowsTyped
<1>3. CallOf(c)'
    BY <1>2, ForwardKeepsCall DEF CallOf
<1> QED
    BY <1>1, <1>3, ShrunkKeeps DEF CallOf

\* A call that ends, or is abandoned.
LEMMA EndKeeps ==
    ASSUME ValkeyIInv, NEW p \in Call, Quiet(p, Done), counter' = counter
    PROVE  ValkeyIInv'
<1>1. RevokeOf(Done) /\ CleanOf(Done)
    BY DoneIsRecord DEF RevokeOf, CleanOf, Where, FamilyPc, UserPc, CleanPc
<1>2. Owes(Done) = 0 /\ Owes(call[p]) \in Nat
    BY CallFacts, OwesType, DoneIsRecord DEF Owes
<1> QED
    BY <1>1, <1>2, QuietKeeps, DoneIsRecord, CallFacts DEF CounterStep, SetsTyped

\* If no member of its set is left of a family that no store is about, then the family is spent.
LEMMA DeadMembersSpentFamily ==
    ASSUME ValkeyIInv, NEW f \in families, Addressable(f), \A h \in familySet[f] : Dead(h)
    PROVE  FamilySpent(f)
<1>0. RowsTyped /\ FamilyIndexComplete /\ f \in Family /\ now \in Nat /\ Second \in Nat
    BY ValkeyAssumption DEF ValkeyIInv, IndexInv, RowsTyped
<1>1. ASSUME NEW h \in Hash, live[h] # None, live[h].family_id = f, ~(live[h].expires_at < now + Second)
      PROVE  FALSE
    <2>1. f # NoFamily /\ live[h].expires_at \in Nat
        BY <1>0, <1>1, PortAssumption DEF RowsTyped, Session
    <2>2. h \notin familySet[f] /\ now + Second <= live[h].expires_at
        BY <1>0, <1>1, <2>1 DEF Dead
    <2>3. Storing(h)
        BY <1>0, <1>1, <2>1, <2>2 DEF FamilyIndexComplete
    <2>4. PICK q \in Call : call[q].pc = "pipeline" /\ call[q].cur = h
        BY <2>3 DEF Storing
    <2>5. call[q].of = f
        BY <1>1, <2>4 DEF ValkeyIInv, CallsInv, StoreOf
    <2> QED
        BY <2>4, <2>5 DEF Addressable
<1>2. ASSUME NEW h \in Hash, retired[h] # None, retired[h].family_id = f, ~(retired[h].expires_at < now + Second)
      PROVE  FALSE
    <2>1. retired[h].expires_at \in Nat
        BY <1>0, <1>2 DEF RowsTyped, RetiredRefreshToken
    <2>2. h \in familySet[f]
        BY <1>0, <1>2, <2>1 DEF FamilyIndexComplete
    <2> QED
        BY <1>2, <2>2 DEF Dead
<1> QED
    BY <1>1, <1>2 DEF FamilySpent

\* A family with members is one no store is about.
LEMMA FilledIsAddressable ==
    ASSUME ValkeyIInv, NEW f \in Family, familySet[f] # {}
    PROVE  f \in families /\ Addressable(f)
BY DEF ValkeyIInv, IndexInv, MembersBelong, CallsInv, StoreOf, Addressable

LEMMA StepQuietFamily ==
    ASSUME ValkeyIInv, NEW p \in Call,
           MembersDone(p) \/ CardFamily(p) \/ \E f \in families : ReadFamily(p, f)
    PROVE  ValkeyIInv'
<1>0. /\ call \in [Call -> CallRecord] /\ call[p] \in CallRecord /\ RevokeOf(call[p]) /\ CleanOf(call[p])
      /\ SetsTyped /\ RowsTyped
    BY CallFacts
<1>1. PICK c : c = call'[p]
    OBVIOUS
<1>2. CASE MembersDone(p)
    <2>1. /\ c \in CallRecord /\ c.of = call[p].of /\ c.members = {} /\ c.next = "familyCard"
          /\ c.pc = (IF call[p].count > 0 THEN "decr" ELSE "familyCard")
          /\ c.count = call[p].count /\ call[p].pc = "familyMember" /\ call[p].count \in Nat
        BY <1>0, <1>1, <1>2 DEF MembersDone, CallRecord, Pc, FamilyPc
    <2>2. Quiet(p, c) /\ counter' = counter
        <3>1. call' = [call EXCEPT ![p] = c]
            BY <1>0, <1>1, <1>2 DEF MembersDone
        <3> QED
            BY <1>2, <2>1, <3>1 DEF MembersDone, Quiet, portVars
    <2>3. RevokeOf(c) /\ CleanOf(c)
        BY <1>0, <2>1 DEF RevokeOf, CleanOf, Where, FamilyPc, UserPc, CleanPc
    <2>4. Owes(c) <= Owes(call[p])
        BY <2>1 DEF Owes
    <2> QED
        BY <1>0, <2>1, <2>2, <2>3, <2>4, QuietKeeps DEF CounterStep, SetsTyped
<1>3. CASE CardFamily(p)
    <2>1. call[p].pc = "familyCard" /\ counter' = counter
        BY <1>3 DEF CardFamily
    <2>2. CASE familySet[call[p].of] = {}
        <3>1. /\ c \in CallRecord /\ c.of = call[p].of /\ c.members = call[p].members /\ c.pc = "familyDrop"
            BY <1>0, <1>1, <1>3, <2>2, PcNames DEF CardFamily, CallRecord
        <3>2. Quiet(p, c)
            BY <1>0, <1>1, <1>3, <2>1, <3>1 DEF CardFamily, Quiet, portVars
        <3>3. c.of \in families /\ Addressable(c.of)
            BY <1>0, <2>1, <3>1 DEF RevokeOf, Where, FamilyPc
        <3>4. FamilySpent(c.of)
            BY <2>2, <3>1, <3>3, DeadMembersSpentFamily
        <3>5. RevokeOf(c) /\ CleanOf(c)
            BY <1>0, <2>1, <3>1, <3>3, <3>4 DEF RevokeOf, CleanOf, Where, FamilyPc, UserPc, CleanPc
        <3>6. Owes(c) = 0 /\ Owes(call[p]) = 0
            BY <2>1, <3>1 DEF Owes
        <3> QED
            BY <1>0, <2>1, <3>1, <3>2, <3>5, <3>6, QuietKeeps DEF CounterStep, SetsTyped
    <2>3. CASE familySet[call[p].of] # {}
        <3>1. Quiet(p, Done)
            BY <1>0, <1>3, <2>1, <2>3, DoneIsRecord DEF CardFamily, Quiet, portVars
        <3> QED
            BY <2>1, <3>1, EndKeeps
    <2> QED
        BY <2>2, <2>3
<1>4. ASSUME NEW f \in families, ReadFamily(p, f)
      PROVE  ValkeyIInv'
    <2>0. f \in Family /\ familySet[f] \in SUBSET Hash
        BY <1>0 DEF RowsTyped, SetsTyped
    <2>1. /\ c \in CallRecord /\ c.of = f /\ c.members = familySet[f] /\ c.pc = "familyMember"
          /\ c.count = 0 /\ call[p].pc = "done"
        <3>1. PICK M \in SUBSET Hash : M = familySet[f]
            BY <2>0
        <3>2. c = [Done EXCEPT !.pc = "familyMember", !.of = f, !.members = M]
            BY <1>0, <1>1, <1>4, <3>1 DEF ReadFamily
        <3>3. c \in CallRecord /\ c.of = f /\ c.members = M /\ c.pc = "familyMember" /\ c.count = 0
            BY <2>0, <3>2, DoneIsRecord, PcNames DEF CallRecord
        <3> QED
            BY <1>4, <3>1, <3>3 DEF ReadFamily
    <2>2. /\ Quiet(p, c) /\ counter' = counter /\ f \in sentenced' /\ Addressable(f)
        BY <1>0, <1>1, <1>4, <2>1 DEF ReadFamily, Quiet, portVars, Begin, Removal
    <2>3. Shrunk(p, c)
        BY <2>2, QuietShrinks
    <2>4. Forward
        BY <1>0, <2>3, ShrunkForward DEF ValkeyIInv
    <2>5. \A h \in familySet[f] : Belongs(h, f) /\ h \in minted
        BY <2>0 DEF ValkeyIInv, IndexInv, MembersBelong, Belongs
    <2>6. f \in families' /\ Addressable(f)' /\ \A h \in c.members : Belongs(h, f)'
        BY <2>0, <2>1, <2>2, <2>4, <2>5 DEF Forward
    <2>7. RevokeOf(c)' /\ CleanOf(c)'
        BY <2>1, <2>2, <2>6 DEF RevokeOf, CleanOf, Where, FamilyPc, UserPc, CleanPc
    <2>8. Owes(c) = 0 /\ Owes(call[p]) = 0
        BY <2>1 DEF Owes
    <2> QED
        BY <1>0, <2>1, <2>2, <2>3, <2>7, <2>8, ShrunkKeeps DEF CounterStep, SetsTyped
<1> QED
    BY <1>2, <1>3, <1>4

LEMMA StepQuietUser ==
    ASSUME ValkeyIInv, NEW p \in Call,
           ScanRecords(p) \/ RecordsDone(p) \/ \E u \in User : ReadUserSet(p, u)
    PROVE  ValkeyIInv'
<1>0. /\ call \in [Call -> CallRecord] /\ call[p] \in CallRecord /\ RevokeOf(call[p]) /\ CleanOf(call[p])
      /\ SetsTyped /\ RowsTyped
    BY CallFacts
<1>1. PICK c : c = call'[p]
    OBVIOUS
<1>2. CASE ScanRecords(p)
    <2>1. /\ c \in CallRecord /\ c.of = call[p].of /\ c.pc = "userRecord" /\ call[p].pc = "userScan"
        BY <1>0, <1>1, <1>2, PcNames DEF ScanRecords, CallRecord
    <2>2. Quiet(p, c) /\ counter' = counter
        <3>1. call' = [call EXCEPT ![p] = c]
            BY <1>0, <1>1, <1>2 DEF ScanRecords
        <3> QED
            BY <1>2, <2>1, <3>1 DEF ScanRecords, Quiet, portVars
    <2>3. RevokeOf(c) /\ CleanOf(c)
        BY <1>0, <2>1 DEF RevokeOf, CleanOf, Where, FamilyPc, UserPc, CleanPc
    <2>4. Owes(c) = 0 /\ Owes(call[p]) = 0
        BY <2>1 DEF Owes
    <2> QED
        BY <1>0, <2>1, <2>2, <2>3, <2>4, QuietKeeps DEF CounterStep, SetsTyped
<1>3. CASE RecordsDone(p)
    <2>1. Quiet(p, Done) /\ counter' = counter
        BY <1>3, DoneIsRecord DEF RecordsDone, Quiet, portVars
    <2> QED
        BY <2>1, EndKeeps
<1>4. ASSUME NEW u \in User, ReadUserSet(p, u)
      PROVE  ValkeyIInv'
    <2>0. userSet[u] \in SUBSET Hash
        BY <1>0 DEF SetsTyped
    <2>1. PICK M \in SUBSET Hash : call' = [call EXCEPT ![p] = [Done EXCEPT !.pc = "userDelete", !.of = u, !.members = M]]
        BY <1>4, <2>0 DEF ReadUserSet
    <2>2. c = [Done EXCEPT !.pc = "userDelete", !.of = u, !.members = M] /\ call' = [call EXCEPT ![p] = c]
        BY <1>0, <1>1, <2>1
    <2>3. c \in CallRecord /\ c.of = u /\ c.pc = "userDelete" /\ call[p].pc = "done"
        BY <1>4, <2>2, DoneIsRecord, PcNames DEF ReadUserSet, CallRecord
    <2>4. begun' = [begun EXCEPT !["user"] = @ + 1] /\ "user" \in Removal
        BY <1>4 DEF ReadUserSet, Begin, Removal
    <2>5. begun'["user"] # 0
        BY <1>0, <2>4 DEF SetsTyped
    <2>6. Quiet(p, c) /\ counter' = counter /\ u \in sentenced'
        BY <1>4, <2>2, <2>3, <2>4 DEF ReadUserSet, Quiet, portVars
    <2>7. Shrunk(p, c)
        BY <2>6, QuietShrinks
    <2>8. RevokeOf(c)' /\ CleanOf(c)'
        BY <2>3, <2>5, <2>6 DEF RevokeOf, CleanOf, Where, FamilyPc, UserPc, CleanPc
    <2> QED
        BY <1>0, <2>3, <2>5, <2>6, <2>7, <2>8, ShrunkKeeps DEF CounterStep, SetsTyped
<1> QED
    BY <1>2, <1>3, <1>4

LEMMA StepQuietCleanup ==
    ASSUME ValkeyIInv, NEW p \in Call,
           \/ ScanUserSets(p) \/ \E u \in User : PruneUser(p, u)
           \/ ScanFamilySets(p) \/ \E f \in Family : PruneFamily(p, f)
           \/ ScanSessions(p) \/ GetCounter(p) \/ Abandon(p)
    PROVE  ValkeyIInv'
<1>0. /\ call \in [Call -> CallRecord] /\ call[p] \in CallRecord /\ RevokeOf(call[p]) /\ CleanOf(call[p])
      /\ SetsTyped /\ RowsTyped
    BY CallFacts
<1>1. PICK c : c = call'[p]
    OBVIOUS
<1>2. CASE ScanUserSets(p)
    <2>1. PICK T \in SUBSET (Family \cup User) :
              call' = [call EXCEPT ![p] = [Done EXCEPT !.pc = "pruneUser", !.todo = T]]
        BY <1>2 DEF ScanUserSets
    <2>2. c = [Done EXCEPT !.pc = "pruneUser", !.todo = T] /\ call' = [call EXCEPT ![p] = c]
        BY <1>0, <1>1, <2>1
    <2>3. c \in CallRecord /\ c.pc = "pruneUser" /\ call[p].pc = "done"
        BY <1>2, <2>2, DoneIsRecord, PcNames DEF ScanUserSets, CallRecord
    <2>4. begun' = [begun EXCEPT !["cleanup"] = @ + 1] /\ "cleanup" \in Removal
        BY <1>2 DEF ScanUserSets, Begin, Removal
    <2>5. begun'["cleanup"] # 0
        BY <1>0, <2>4 DEF SetsTyped
    <2>6. Quiet(p, c) /\ counter' = counter
        BY <1>2, <2>2, <2>3, <2>4 DEF ScanUserSets, Quiet, portVars
    <2>7. Shrunk(p, c)
        BY <2>6, QuietShrinks
    <2>8. RevokeOf(c)' /\ CleanOf(c)'
        BY <2>3, <2>5 DEF RevokeOf, CleanOf, Where, FamilyPc, UserPc, CleanPc
    <2> QED
        BY <1>0, <2>3, <2>5, <2>6, <2>7, <2>8, ShrunkKeeps DEF CounterStep, SetsTyped
<1>3. ASSUME NEW u \in User, PruneUser(p, u)
      PROVE  ValkeyIInv'
    <2>a. {h \in userSet[u] : live[h] = None} \in SUBSET Hash /\ call[p].todo \ {u} \in SUBSET (Family \cup User)
        BY <1>0 DEF SetsTyped, CallRecord
    <2>b. PICK M \in SUBSET Hash, T \in SUBSET (Family \cup User) :
              M = {h \in userSet[u] : live[h] = None} /\ T = call[p].todo \ {u}
        BY <2>a
    <2>c. /\ c = [call[p] EXCEPT !.pc = "sremUser", !.of = u, !.todo = T, !.members = M]
          /\ call' = [call EXCEPT ![p] = c]
        <3>1. PICK d : d = [call[p] EXCEPT !.pc = "sremUser", !.of = u, !.todo = @ \ {u},
                              !.members = {h \in userSet[u] : live[h] = None}]
            OBVIOUS
        <3>2. call' = [call EXCEPT ![p] = d]
            BY <1>3, <3>1 DEF PruneUser
        <3>3. c = d
            BY <1>0, <1>1, <3>2
        <3>4. d = [call[p] EXCEPT !.pc = "sremUser", !.of = u, !.todo = T, !.members = M]
            BY <2>b, <3>1, Zenon
        <3> QED
            BY <3>2, <3>3, <3>4
    <2>1. c \in CallRecord /\ c.pc = "sremUser" /\ c.of = u /\ call[p].pc = "pruneUser"
        BY <1>0, <1>3, <2>c, PcNames DEF PruneUser, CallRecord
    <2>2. Quiet(p, c) /\ counter' = counter
        BY <1>3, <2>1, <2>c DEF PruneUser, Quiet, portVars
    <2>3. RevokeOf(c) /\ CleanOf(c)
        BY <1>0, <2>1 DEF RevokeOf, CleanOf, Where, FamilyPc, UserPc, CleanPc
    <2>4. Owes(c) = 0 /\ Owes(call[p]) = 0
        BY <2>1 DEF Owes
    <2> QED
        BY <1>0, <2>1, <2>2, <2>3, <2>4, QuietKeeps DEF CounterStep, SetsTyped
<1>4. CASE ScanFamilySets(p)
    <2>1. /\ c \in CallRecord /\ c.pc = "pruneFamily" /\ c.todo = {f \in Family : familySet[f] # {}}
          /\ call[p].pc = "pruneUser"
        <3>1. PICK T : T = {f \in Family : familySet[f] # {}}
            OBVIOUS
        <3>2. c = [Done EXCEPT !.pc = "pruneFamily", !.todo = T] /\ T \in SUBSET (Family \cup User)
            BY <1>0, <1>1, <1>4, <3>1 DEF ScanFamilySets
        <3>3. c \in CallRecord /\ c.pc = "pruneFamily" /\ c.todo = T
            BY <3>2, DoneIsRecord, PcNames DEF CallRecord
        <3> QED
            BY <1>4, <3>1, <3>3 DEF ScanFamilySets
    <2>2. Quiet(p, c) /\ counter' = counter
        <3>1. call' = [call EXCEPT ![p] = c]
            BY <1>0, <1>1, <1>4 DEF ScanFamilySets
        <3> QED
            BY <1>4, <2>1, <3>1 DEF ScanFamilySets, Quiet, portVars
    <2>3. \A f \in c.todo : f \in families /\ Addressable(f)
        BY <2>1, FilledIsAddressable
    <2>4. RevokeOf(c) /\ CleanOf(c)
        BY <1>0, <2>1, <2>3 DEF RevokeOf, CleanOf, Where, FamilyPc, UserPc, CleanPc
    <2>5. Owes(c) = 0 /\ Owes(call[p]) = 0
        BY <2>1 DEF Owes
    <2> QED
        BY <1>0, <2>1, <2>2, <2>4, <2>5, QuietKeeps DEF CounterStep, SetsTyped
<1>5. ASSUME NEW f \in Family, PruneFamily(p, f)
      PROVE  ValkeyIInv'
    <2>1. /\ c \in CallRecord /\ c.pc = "sremFamily" /\ c.of = f /\ call[p].pc = "pruneFamily"
          /\ f \in call[p].todo /\ c.todo \subseteq call[p].todo
          /\ c.members = {h \in familySet[f] : live[h] = None /\ retired[h] = None}
        <3>1. PICK M, T : /\ M = {h \in familySet[f] : live[h] = None /\ retired[h] = None}
                          /\ T = call[p].todo \ {f}
            OBVIOUS
        <3>2. M \in SUBSET Hash /\ T \in SUBSET (Family \cup User) /\ T \subseteq call[p].todo
            BY <1>0, <3>1 DEF SetsTyped, CallRecord
        <3>3. c = [call[p] EXCEPT !.pc = "sremFamily", !.of = f, !.todo = T, !.members = M]
            <4>1. PICK d : d = [call[p] EXCEPT !.pc = "sremFamily", !.of = f, !.todo = @ \ {f},
                                  !.members = {h \in familySet[f] : live[h] = None /\ retired[h] = None}]
                OBVIOUS
            <4>2. call' = [call EXCEPT ![p] = d]
                BY <1>5, <4>1 DEF PruneFamily
            <4>3. c = d
                BY <1>0, <1>1, <4>2
            <4> QED
                BY <3>1, <4>1, <4>3, Zenon
        <3>4. c \in CallRecord /\ c.pc = "sremFamily" /\ c.of = f /\ c.todo = T /\ c.members = M
            BY <1>0, <3>2, <3>3, PcNames DEF CallRecord
        <3> QED
            BY <1>5, <3>1, <3>2, <3>4 DEF PruneFamily
    <2>2. Quiet(p, c) /\ counter' = counter
        <3>1. call' = [call EXCEPT ![p] = c]
            BY <1>0, <1>1, <1>5 DEF PruneFamily
        <3> QED
            BY <1>5, <2>1, <3>1 DEF PruneFamily, Quiet, portVars
    <2>3. \A h \in c.members : Dead(h)
        BY <2>1 DEF ValkeyIInv, IndexInv, MembersBelong, Belongs, Dead
    <2>4. RevokeOf(c) /\ CleanOf(c)
        BY <1>0, <2>1, <2>3 DEF RevokeOf, CleanOf, Where, FamilyPc, UserPc, CleanPc
    <2>5. Owes(c) = 0 /\ Owes(call[p]) = 0
        BY <2>1 DEF Owes
    <2> QED
        BY <1>0, <2>1, <2>2, <2>4, <2>5, QuietKeeps DEF CounterStep, SetsTyped
<1>6. CASE ScanSessions(p)
    <2>1. Cardinality({h \in Hash : live[h] # None}) \in Nat
        BY <1>0, FS_CardinalityType DEF RowsTyped, Lives
    <2>2. c \in CallRecord /\ c.pc = "setCounter" /\ call[p].pc = "pruneFamily"
        <3>1. PICK n \in Nat : n = Cardinality({h \in Hash : live[h] # None})
            BY <2>1
        <3>2. c = [Done EXCEPT !.pc = "setCounter", !.count = n]
            BY <1>0, <1>1, <1>6, <3>1 DEF ScanSessions
        <3> QED
            BY <1>6, <3>2, DoneIsRecord, PcNames DEF ScanSessions, CallRecord
    <2>3. Quiet(p, c) /\ counter' = counter
        <3>1. call' = [call EXCEPT ![p] = c]
            BY <1>0, <1>1, <1>6 DEF ScanSessions
        <3> QED
            BY <1>6, <2>2, <3>1 DEF ScanSessions, Quiet, portVars
    <2>4. RevokeOf(c) /\ CleanOf(c)
        BY <1>0, <2>2 DEF RevokeOf, CleanOf, Where, FamilyPc, UserPc, CleanPc
    <2>5. Owes(c) = 0 /\ Owes(call[p]) = 0
        BY <2>2 DEF Owes
    <2> QED
        BY <1>0, <2>2, <2>3, <2>4, <2>5, QuietKeeps DEF CounterStep, SetsTyped
<1>7. CASE GetCounter(p) \/ Abandon(p)
    <2>1. Quiet(p, Done) /\ counter' = counter
        BY <1>7, DoneIsRecord DEF GetCounter, Abandon, Quiet, portVars
    <2> QED
        BY <2>1, EndKeeps
<1> QED
    BY <1>2, <1>3, <1>4, <1>5, <1>6, <1>7

\* DECRBY and the SETs.  As long as nobody deletes a user's set or sweeps, the counter covers
\* what the calls owe, and is never clamped.
LEMMA StepCounter ==
    ASSUME ValkeyIInv, NEW p \in Call, Decr(p) \/ Clamp(p) \/ SetCounter(p)
    PROVE  ValkeyIInv'
<1>0. /\ call \in [Call -> CallRecord] /\ call[p] \in CallRecord /\ RevokeOf(call[p]) /\ CleanOf(call[p])
      /\ SetsTyped /\ RowsTyped
    BY CallFacts
<1>1. PICK c : c = call'[p]
    OBVIOUS
<1>2. CASE Decr(p)
    <2>1. /\ c \in CallRecord /\ c.of = call[p].of /\ c.cur = call[p].cur /\ c.owner = call[p].owner
          /\ c.members = call[p].members /\ c.todo = call[p].todo /\ c.next = call[p].next
          /\ c.pc = (IF counter' < 0 THEN "clamp" ELSE c.next)
          /\ call[p].pc = "decr" /\ c.next \in {"unfile", "familyCard", "userDrop"}
        BY <1>0, <1>1, <1>2 DEF Decr, CallRecord, Pc, RevokeOf
    <2>2. counter' = counter - Owes(call[p]) /\ Owes(call[p]) \in Nat /\ counter' \in Int
        BY <1>0, <2>1, <1>2, OwesType DEF Decr, Owes, SetsTyped
    <2>3. Quiet(p, c)
        BY <1>0, <1>1, <1>2, <2>1 DEF Decr, Quiet, portVars
    <2>4. Owes(c) = 0
        BY <2>1 DEF Owes
    <2>5. begun["user"] = 0 /\ begun["cleanup"] = 0 => counter' >= 0
        <3> SUFFICES ASSUME begun["user"] = 0, begun["cleanup"] = 0
                     PROVE  counter' >= 0
            OBVIOUS
        <3>1. IsFiniteSet(Owed) /\ counter >= Cardinality(Settled) + Cardinality(Owed)
            BY DEF ValkeyIInv, CounterCovers
        <3>2. Settled \in SUBSET Lives
            BY DEF Settled, Lives
        <3>3. Cardinality(Settled) \in Nat
            BY <1>0, <3>2, FS_Subset, FS_CardinalityType DEF RowsTyped
        <3>4. {p} \X (1..Owes(call[p])) \in SUBSET Owed
            BY DEF Owed
        <3> DEFINE T == {p} \X (1..Owes(call[p]))
        <3>5. Cardinality(T) = Owes(call[p])
            BY <2>2, PairsOf
        <3>6. T \in SUBSET Owed
            BY <3>4
        <3> HIDE DEF T
        <3>7. Cardinality(T) <= Cardinality(Owed) /\ Cardinality(Owed) \in Nat
            BY <3>1, <3>6, FS_Subset, FS_CardinalityType
        <3> QED
            BY <1>0, <2>2, <3>1, <3>3, <3>5, <3>7 DEF SetsTyped
    <2>6. RevokeOf(c) /\ CleanOf(c)
        <3>1. Where(c) = Where(call[p])
            BY <2>1 DEF Where
        <3>2. c.pc = "clamp" => begun["user"] # 0 \/ begun["cleanup"] # 0
            BY <2>1, <2>2, <2>5
        <3>3. CleanOf(c)
            BY <2>1, <3>1 DEF CleanOf, Where, CleanPc
        <3> QED
            BY <1>0, <2>1, <3>1, <3>2, <3>3 DEF RevokeOf, FamilyPc, UserPc
    <2> QED
        BY <2>1, <2>2, <2>3, <2>4, <2>6, QuietKeeps DEF CounterStep
<1>3. CASE Clamp(p)
    <2>1. /\ c \in CallRecord /\ c.of = call[p].of /\ c.cur = call[p].cur /\ c.owner = call[p].owner
          /\ c.members = call[p].members /\ c.todo = call[p].todo /\ c.next = call[p].next
          /\ c.pc = c.next /\ call[p].pc = "clamp" /\ c.next \in {"unfile", "familyCard", "userDrop"}
        BY <1>0, <1>1, <1>3 DEF Clamp, CallRecord, Pc, RevokeOf
    <2>2. Quiet(p, c) /\ counter' \in Int /\ begun' = begun
        BY <1>0, <1>1, <1>3, <2>1 DEF Clamp, Quiet, portVars
    <2>3. begun["user"] # 0 \/ begun["cleanup"] # 0
        BY <1>0, <2>1 DEF RevokeOf
    <2>4. RevokeOf(c) /\ CleanOf(c)
        <3>1. Where(c) = Where(call[p])
            BY <2>1 DEF Where
        <3>2. CleanOf(c)
            BY <2>1, <3>1 DEF CleanOf, Where, CleanPc
        <3> QED
            BY <1>0, <2>1, <3>1, <3>2 DEF RevokeOf, FamilyPc, UserPc
    <2> QED
        BY <2>1, <2>2, <2>3, <2>4, QuietKeeps DEF CounterStep
<1>4. CASE SetCounter(p)
    <2>1. c \in CallRecord /\ c.pc = "getCounter" /\ call[p].pc = "setCounter" /\ call[p].count \in Nat
        BY <1>0, <1>1, <1>4 DEF SetCounter, CallRecord, Pc, CleanPc
    <2>2. Quiet(p, c) /\ counter' \in Int /\ begun' = begun
        BY <1>0, <1>1, <1>4, <2>1 DEF SetCounter, Quiet, portVars
    <2>3. RevokeOf(c) /\ CleanOf(c) /\ begun["cleanup"] # 0
        BY <1>0, <2>1 DEF RevokeOf, CleanOf, Where, FamilyPc, UserPc, CleanPc
    <2> QED
        BY <2>1, <2>2, <2>3, QuietKeeps DEF CounterStep
<1> QED
    BY <1>2, <1>3, <1>4

-----------------------------------------------------------------------------
(* The commands that delete keys. *)

LEMMA ValkeyStutterInv ==
    ASSUME ValkeyIInv, UNCHANGED valkeyVars
    PROVE  ValkeyIInv'
<1> USE DEF valkeyVars, portVars, setVars, ttlVars
<1>2. (\A h : Storing(h)' <=> Storing(h)) /\ (\A f : Addressable(f)' <=> Addressable(f))
    BY DEF Storing, Addressable
<1>3. IndexInv'
    BY <1>2 DEF ValkeyIInv, IndexInv, RowsTyped, Lives, SetsTyped, RowsMinted, MembersBelong, Belongs,
               FamilyIndexComplete, FamilyOutlives, UserFiled, Filed, RecordsOutlive, RecordsKept
<1>4. CallsInv'
    BY <1>2 DEF ValkeyIInv, CallsInv, CallOf, RevokeOf, CleanOf, StoreOf, EXPIRE, StoresDiffer, Belongs, Dead, FamilySpent
<1>5. CounterCovers'
    BY <1>2 DEF ValkeyIInv, CounterCovers, Settled, Owed
<1> QED
    BY <1>3, <1>4, <1>5 DEF ValkeyIInv

\* Session keys and records go, the sets stay.
Deletes(p, c) ==
    /\ call[p].pc # "pipeline" /\ c.pc # "pipeline" /\ call' = [call EXCEPT ![p] = c]
    /\ UNCHANGED <<now, minted, families, written, setVars, sentenced>>
    /\ live' \in [Hash -> Session \cup {None}]
    /\ \A h \in Hash : live'[h] = live[h] \/ live'[h] = None
    /\ retired' \in [Hash -> RetiredRefreshToken \cup {None}]
    /\ \A h \in Hash : \/ retired'[h] = retired[h]
                       \/ /\ retired'[h] = None
                          /\ written[h].family_id \in sentenced \/ written[h].user_id \in sentenced
    /\ begun' = begun \/ \E k \in Removal : begun' = [begun EXCEPT ![k] = @ + 1]

LEMMA DeletesShrinks ==
    ASSUME ValkeyIInv, NEW p \in Call, NEW c, Deletes(p, c)
    PROVE  Shrunk(p, c)
<1>1. SetsTyped
    BY CallFacts
<1>2. begun' \in [Removal -> Nat] /\ \A k \in Removal : begun[k] <= begun'[k]
    BY <1>1 DEF Deletes, SetsTyped
<1>3. UNCHANGED <<familySet, userSet, userTtl, familyTtl, retiredTtl>>
    BY DEF Deletes, setVars, ttlVars
<1> QED
    BY <1>1, <1>2, <1>3 DEF Deletes, Shrunk, SetsTyped

LEMMA StepDeleteSession ==
    ASSUME ValkeyIInv, NEW p \in Call, NEW h \in Hash, DeleteSession(p, h)
    PROVE  ValkeyIInv'
<1>0. /\ call \in [Call -> CallRecord] /\ call[p] \in CallRecord /\ SetsTyped /\ RowsTyped /\ RowsMinted
    BY CallFacts
<1>1. PICK u : u = live[h].user_id
    OBVIOUS
<1>2. /\ live[h] # None /\ h \in minted /\ h \in Settled /\ u \in User
      /\ live'[h] = None /\ live' \in [Hash -> Session \cup {None}]
    BY <1>0, <1>1 DEF DeleteSession, RowsTyped, RowsMinted, Session, Settled
<1>3. PICK c : c = [Done EXCEPT !.pc = "decr", !.cur = h, !.count = 1, !.owner = u, !.next = "unfile"]
    OBVIOUS
<1>4. /\ c \in CallRecord /\ c.pc = "decr" /\ c.cur = h /\ c.count = 1 /\ c.owner = u /\ c.next = "unfile"
    BY <1>2, <1>3, DoneIsRecord, PcNames DEF CallRecord
<1>5. Deletes(p, c) /\ counter' = counter /\ call[p].pc = "done"
    <2>1. call' = [call EXCEPT ![p] = c] /\ call[p].pc = "done"
        BY <1>1, <1>3 DEF DeleteSession
    <2>2. \E k \in Removal : begun' = [begun EXCEPT ![k] = @ + 1]
        BY DEF DeleteSession, Begin, Removal
    <2>3. \A k \in Hash : live'[k] = live[k] \/ live'[k] = None
        BY <1>0 DEF DeleteSession, RowsTyped
    <2>4. UNCHANGED <<retired, now, minted, families, written, setVars, sentenced>> /\ counter' = counter
        BY DEF DeleteSession, historyVars
    <2> QED
        BY <1>0, <1>2, <1>4, <2>1, <2>2, <2>3, <2>4 DEF Deletes, RowsTyped
<1>6. Shrunk(p, c)
    BY <1>5, DeletesShrinks
<1>7. RevokeOf(c)' /\ CleanOf(c)'
    <2>1. c.cur \in minted' /\ live'[c.cur] = None /\ c.owner \in User
        BY <1>2, <1>4, <1>5 DEF Deletes
    <2> QED
        BY <1>4, <2>1 DEF RevokeOf, CleanOf, Where, FamilyPc, UserPc, CleanPc
<1>8. Owes(c) = Owes(call[p]) + 1
    BY <1>4, <1>5 DEF Owes
<1> QED
    BY <1>0, <1>2, <1>4, <1>5, <1>6, <1>7, <1>8, ShrunkKeeps DEF CounterStep, SetsTyped

LEMMA StepDeleteNothing ==
    ASSUME ValkeyIInv, NEW p \in Call, NEW h \in Hash, DeleteNothing(p, h)
    PROVE  ValkeyIInv'
<1>0. call \in [Call -> CallRecord] /\ SetsTyped
    BY CallFacts
<1>1. CASE UNCHANGED <<call, begun>>
    <2>1. UNCHANGED valkeyVars
        BY <1>1 DEF DeleteNothing, valkeyVars
    <2> QED
        BY <2>1, ValkeyStutterInv
<1>2. ASSUME NEW u \in User, Begin("session"), h \in minted,
             call' = [call EXCEPT ![p] = [Done EXCEPT !.pc = "unfile", !.cur = h, !.owner = u]]
      PROVE  ValkeyIInv'
    <2>1. PICK c : c = [Done EXCEPT !.pc = "unfile", !.cur = h, !.owner = u]
        OBVIOUS
    <2>2. c \in CallRecord /\ c.pc = "unfile" /\ c.cur = h /\ c.owner = u
        BY <2>1, DoneIsRecord, PcNames DEF CallRecord
    <2>3. call[p].pc = "done" /\ live[h] = None /\ UNCHANGED <<portVars, setVars, counter, sentenced>>
        BY DEF DeleteNothing
    <2>4. Quiet(p, c) /\ counter' = counter
        BY <1>2, <2>1, <2>2, <2>3 DEF Begin, Removal, Quiet, portVars
    <2>5. RevokeOf(c) /\ CleanOf(c)
        BY <1>2, <2>2, <2>3 DEF RevokeOf, CleanOf, Where, FamilyPc, UserPc, CleanPc
    <2>6. Owes(c) = 0 /\ Owes(call[p]) = 0
        BY <2>2, <2>3 DEF Owes
    <2> QED
        BY <1>0, <2>2, <2>4, <2>5, <2>6, QuietKeeps DEF CounterStep, SetsTyped
<1> QED
    BY <1>1, <1>2 DEF DeleteNothing

LEMMA StepDeleteMember ==
    ASSUME ValkeyIInv, NEW p \in Call, NEW h \in Hash, DeleteMember(p, h)
    PROVE  ValkeyIInv'
<1>0. /\ call \in [Call -> CallRecord] /\ call[p] \in CallRecord /\ RevokeOf(call[p])
      /\ SetsTyped /\ RowsTyped /\ RowsMinted
    BY CallFacts
<1>1. /\ call[p].pc = "familyMember" /\ h \in call[p].members /\ call[p].of \in families
      /\ call[p].of \in sentenced /\ Addressable(call[p].of) /\ \A k \in call[p].members : Belongs(k, call[p].of)
    BY <1>0 DEF DeleteMember, RevokeOf, Where, FamilyPc
<1>2. PICK u : u = IF live[h] = None THEN None ELSE live[h].user_id
    OBVIOUS
<1>3. PICK n : n = IF live[h] = None THEN call[p].count ELSE call[p].count + 1
    OBVIOUS
<1>4. PICK M : M = call[p].members \ {h}
    OBVIOUS
<1>5. u \in User \cup {None} /\ n \in Nat /\ M \in SUBSET Hash /\ M \subseteq call[p].members
    BY <1>0, <1>2, <1>3, <1>4 DEF RowsTyped, Session, CallRecord
<1>6. PICK c : c = [call[p] EXCEPT !.pc = "familyUnfile", !.cur = h, !.owner = u, !.members = M, !.count = n]
    OBVIOUS
<1>7. /\ c \in CallRecord /\ c.pc = "familyUnfile" /\ c.cur = h /\ c.owner = u /\ c.members = M /\ c.count = n
      /\ c.of = call[p].of
    BY <1>0, <1>5, <1>6, PcNames DEF CallRecord
<1>8. /\ call' = [call EXCEPT ![p] = c]
    BY <1>2, <1>3, <1>4, <1>6 DEF DeleteMember
<1>9. /\ live' \in [Hash -> Session \cup {None}] /\ live'[h] = None
      /\ \A k \in Hash : live'[k] = live[k] \/ live'[k] = None
    BY <1>0 DEF DeleteMember, RowsTyped
<1>10. /\ retired' \in [Hash -> RetiredRefreshToken \cup {None}]
       /\ \A k \in Hash : k # h => retired'[k] = retired[k]
       /\ retired'[h] = None
    <2>1. CASE live[h] # None
        <3>1. retired[h] = None
            BY <1>0, <2>1 DEF RowsMinted
        <3>2. retired' = retired
            BY <2>1 DEF DeleteMember
        <3> QED
            BY <1>0, <3>1, <3>2 DEF RowsTyped
    <2>2. CASE live[h] = None
        <3>1. retired' = [retired EXCEPT ![h] = None]
            BY <2>2 DEF DeleteMember
        <3> QED
            BY <1>0, <3>1 DEF RowsTyped
    <2> QED
        BY <2>1, <2>2
<1>11. Belongs(h, call[p].of)
    BY <1>1
<1>12. retired[h] # None => written[h].family_id \in sentenced
    BY <1>0, <1>1, <1>11 DEF RowsMinted, Belongs
<1>13. UNCHANGED <<now, minted, families, written, setVars, sentenced>> /\ begun' = begun /\ counter' = counter
    BY DEF DeleteMember, historyVars
<1>14. Deletes(p, c)
    BY <1>1, <1>7, <1>8, <1>9, <1>10, <1>12, <1>13 DEF Deletes
<1>15. Shrunk(p, c)
    BY <1>14, DeletesShrinks
<1>16. Forward
    BY <1>0, <1>15, ShrunkForward DEF ValkeyIInv
<1>17. RevokeOf(c)' /\ CleanOf(c)'
    <2>1. \A k \in M : Belongs(k, c.of)'
        <3>1. c.of \in Family
            BY <1>0, <1>1, <1>7 DEF RowsTyped
        <3>2. \A k \in M : k \in minted /\ Belongs(k, c.of)
            BY <1>1, <1>5, <1>7 DEF Belongs
        <3> QED
            BY <1>16, <3>1, <3>2 DEF Forward
    <2>2. Dead(h)'
        BY <1>9, <1>10, <1>11, <1>13 DEF Dead, Belongs
    <2>3. c.of \in families' /\ c.of \in sentenced' /\ Addressable(c.of)'
        BY <1>1, <1>7, <1>16 DEF Forward
    <2> QED
        BY <1>7, <2>1, <2>2, <2>3 DEF RevokeOf, CleanOf, Where, FamilyPc, UserPc, CleanPc
<1>18. CounterStep(p, c)
    <2>1. Owes(c) = n /\ Owes(call[p]) = call[p].count /\ call[p].count \in Nat
        BY <1>0, <1>1, <1>7 DEF Owes, CallRecord
    <2>2. CASE live[h] = None
        BY <1>3, <1>13, <2>1, <2>2 DEF CounterStep
    <2>3. CASE live[h] # None
        <3>1. h \in Settled
            BY <1>11, <2>3 DEF Settled, Belongs
        <3> QED
            BY <1>3, <1>9, <1>13, <2>1, <2>3, <3>1 DEF CounterStep
    <2> QED
        BY <2>2, <2>3
<1> QED
    BY <1>0, <1>7, <1>13, <1>15, <1>17, <1>18, ShrunkKeeps DEF SetsTyped

LEMMA StepDeleteUserKeys ==
    ASSUME ValkeyIInv, NEW p \in Call, DeleteUserKeys(p)
    PROVE  ValkeyIInv'
<1>0. /\ call \in [Call -> CallRecord] /\ call[p] \in CallRecord /\ RevokeOf(call[p])
      /\ SetsTyped /\ RowsTyped /\ RowsMinted
    BY CallFacts
<1>1. /\ call[p].pc = "userDelete" /\ call[p].of \in User /\ call[p].of \in sentenced /\ begun["user"] # 0
    BY <1>0 DEF DeleteUserKeys, RevokeOf, Where, UserPc
<1>2. PICK gone : gone = {h \in call[p].members : live[h] # None}
    OBVIOUS
<1>3. gone \in SUBSET Lives
    BY <1>0, <1>2 DEF CallRecord, Lives
<1>4. PICK n \in Nat : n = Cardinality(gone)
    BY <1>0, <1>3, FS_Subset, FS_CardinalityType DEF RowsTyped
<1>5. PICK pc \in {"userDrop", "decr"} : pc = IF gone = {} THEN "userDrop" ELSE "decr"
    OBVIOUS
<1>6. PICK c : c = [call[p] EXCEPT !.pc = pc, !.next = "userDrop", !.count = n, !.members = {}]
    OBVIOUS
<1>7. c \in CallRecord /\ c.pc = pc /\ c.next = "userDrop" /\ c.of = call[p].of /\ c.members = {}
    <2>1. pc \in Pc /\ "userDrop" \in Pc
        BY <1>5, PcNames
    <2> QED
        BY <1>0, <1>6, <2>1 DEF CallRecord
<1>8. /\ call' = [call EXCEPT ![p] = c] /\ live' = [h \in Hash |-> IF h \in gone THEN None ELSE live[h]]
    BY <1>2, <1>4, <1>5, <1>6 DEF DeleteUserKeys
<1>9. UNCHANGED <<retired, now, minted, families, written, setVars, sentenced>> /\ begun' = begun /\ counter' = counter
    BY DEF DeleteUserKeys, historyVars
<1>10. Deletes(p, c)
    BY <1>0, <1>1, <1>5, <1>7, <1>8, <1>9 DEF Deletes, RowsTyped
<1>11. Shrunk(p, c)
    BY <1>10, DeletesShrinks
<1>12. RevokeOf(c)' /\ CleanOf(c)'
    <2>1. Where(c) = "userDrop"
        BY <1>5, <1>7 DEF Where
    <2>2. c.of \in User /\ c.of \in sentenced' /\ begun'["user"] # 0
        BY <1>1, <1>7, <1>9
    <2> QED
        BY <1>5, <1>7, <2>1, <2>2 DEF RevokeOf, CleanOf, FamilyPc, UserPc, CleanPc
<1> QED
    BY <1>0, <1>1, <1>7, <1>9, <1>11, <1>12, ShrunkKeeps DEF CounterStep, SetsTyped

LEMMA StepDeleteRecord ==
    ASSUME ValkeyIInv, NEW p \in Call, NEW h \in Hash, DeleteRecord(p, h)
    PROVE  ValkeyIInv'
<1>0. /\ call \in [Call -> CallRecord] /\ call[p] \in CallRecord /\ RevokeOf(call[p])
      /\ SetsTyped /\ RowsTyped /\ RowsMinted
    BY CallFacts
<1>1. /\ call[p].pc = "userRecord" /\ call[p].of \in User /\ call[p].of \in sentenced /\ begun["user"] # 0
    BY <1>0 DEF DeleteRecord, RevokeOf, Where, UserPc
<1>2. PICK mine \in BOOLEAN : mine <=> retired[h] # None /\ retired[h].user_id = call[p].of
    OBVIOUS
<1>3. PICK M : M = call[p].members \ {h}
    OBVIOUS
<1>4. PICK T : T = IF mine THEN {retired[h].family_id} ELSE {}
    OBVIOUS
<1>5. M \in SUBSET Hash /\ T \in SUBSET (Family \cup User)
    BY <1>0, <1>2, <1>3, <1>4 DEF RowsTyped, RetiredRefreshToken, CallRecord
<1>6. PICK c : c = [call[p] EXCEPT !.members = M, !.pc = IF mine THEN "userUnfile" ELSE "userRecord",
                                   !.todo = T, !.cur = IF mine THEN h ELSE None]
    OBVIOUS
<1>7. /\ c \in CallRecord /\ c.of = call[p].of /\ c.pc = (IF mine THEN "userUnfile" ELSE "userRecord")
      /\ c.cur = (IF mine THEN h ELSE None)
    BY <1>0, <1>5, <1>6, PcNames DEF CallRecord
<1>8. /\ call' = [call EXCEPT ![p] = c]
      /\ retired' = IF mine THEN [retired EXCEPT ![h] = None] ELSE retired
    BY <1>2, <1>3, <1>4, <1>6 DEF DeleteRecord
<1>9. UNCHANGED <<live, now, minted, families, written, setVars, sentenced>> /\ begun' = begun /\ counter' = counter
    BY DEF DeleteRecord, historyVars
<1>10. retired' \in [Hash -> RetiredRefreshToken \cup {None}]
    BY <1>0, <1>8 DEF RowsTyped
<1>11. /\ \A k \in Hash : k # h => retired'[k] = retired[k]
       /\ mine => retired'[h] = None /\ written[h].user_id \in sentenced
       /\ ~mine => retired'[h] = retired[h]
    BY <1>0, <1>1, <1>2, <1>8 DEF RowsTyped, RowsMinted
<1>12. Deletes(p, c)
    BY <1>0, <1>1, <1>7, <1>8, <1>9, <1>10, <1>11 DEF Deletes, RowsTyped
<1>13. Shrunk(p, c)
    BY <1>12, DeletesShrinks
<1>14. RevokeOf(c)' /\ CleanOf(c)'
    <2>1. mine => Dead(h)'
        BY <1>0, <1>2, <1>9, <1>11 DEF RowsMinted, Dead
    <2>2. c.of \in User /\ c.of \in sentenced' /\ begun'["user"] # 0
        BY <1>1, <1>7, <1>9
    <2> QED
        BY <1>7, <2>1, <2>2 DEF RevokeOf, CleanOf, Where, FamilyPc, UserPc, CleanPc
<1> QED
    BY <1>0, <1>1, <1>7, <1>9, <1>13, <1>14, ShrunkKeeps DEF CounterStep, SetsTyped

-----------------------------------------------------------------------------
(* The commands that take members out of the sets. *)

\* A member leaves its family's set only if it is spent, and its user's set only if the
\* session is gone, unless a revocation of all sessions or a sweep has begun.
Unfiles(p, c) ==
    /\ call[p].pc # "pipeline" /\ c.pc # "pipeline" /\ call' = [call EXCEPT ![p] = c]
    /\ UNCHANGED <<live, retired, now, minted, families, written, userTtl, familyTtl, retiredTtl, begun, sentenced, counter>>
    /\ familySet' \in [Family -> SUBSET Hash]
    /\ \A f \in Family : /\ familySet'[f] \subseteq familySet[f]
                         /\ \A h \in familySet[f] \ familySet'[f] : Spent(h)
    /\ userSet' \in [User -> SUBSET Hash]
    /\ \/ begun["user"] # 0 \/ begun["cleanup"] # 0
       \/ \A u \in User : \A h \in userSet[u] \ userSet'[u] : live[h] = None

LEMMA UnfilesKeeps ==
    ASSUME ValkeyIInv, NEW p \in Call, NEW c, Unfiles(p, c), c \in CallRecord, RevokeOf(c), CleanOf(c),
           Owes(c) <= Owes(call[p])
    PROVE  ValkeyIInv'
<1>0. call \in [Call -> CallRecord] /\ RowsTyped /\ SetsTyped
    BY CallFacts
<1>1. Shrunk(p, c)
    BY <1>0 DEF Unfiles, Shrunk, Spent, RowsTyped, SetsTyped
<1>2. Forward /\ families \subseteq Family
    BY <1>0, <1>1, ShrunkForward DEF ValkeyIInv, RowsTyped
<1>3. CallOf(c)'
    BY <1>2, ForwardKeepsCall DEF CallOf
<1>4. counter' = counter /\ counter' \in Int
    BY <1>0 DEF Unfiles, SetsTyped
<1> QED
    BY <1>1, <1>3, <1>4, ShrunkKeeps DEF CallOf, CounterStep

\* The members of a set whose family is spent are spent.
LEMMA SpentFamilySpentMembers ==
    ASSUME ValkeyIInv, NEW f \in Family, FamilySpent(f)
    PROVE  \A h \in familySet[f] : Spent(h)
<1>0. RowsTyped /\ SetsTyped /\ RowsMinted /\ MembersBelong
    BY DEF ValkeyIInv, IndexInv
<1> SUFFICES ASSUME NEW h \in familySet[f]
             PROVE  Spent(h)
    OBVIOUS
<1>1. h \in Hash /\ Belongs(h, f)
    BY <1>0 DEF SetsTyped, MembersBelong
<1> QED
    BY <1>0, <1>1 DEF FamilySpent, Belongs, RowsMinted, Spent

LEMMA StepUnfileSession ==
    ASSUME ValkeyIInv, NEW p \in Call, UnfileSession(p)
    PROVE  ValkeyIInv'
<1>0. /\ call \in [Call -> CallRecord] /\ call[p] \in CallRecord /\ RevokeOf(call[p]) /\ SetsTyped /\ RowsTyped
    BY CallFacts
<1>1. call[p].pc = "unfile" /\ live[call[p].cur] = None /\ call[p].owner \in User
    BY <1>0 DEF UnfileSession, RevokeOf, Where
<1>2. userSet' = [userSet EXCEPT ![call[p].owner] = @ \ {call[p].cur}]
    BY DEF UnfileSession, Unfile
<1>3. userSet' \in [User -> SUBSET Hash] /\ \A u \in User : \A h \in userSet[u] \ userSet'[u] : live[h] = None
    BY <1>0, <1>1, <1>2 DEF SetsTyped
<1>4. Unfiles(p, Done)
    BY <1>0, <1>1, <1>3, DoneIsRecord DEF UnfileSession, Unfiles, portVars, ttlVars, SetsTyped
<1>5. RevokeOf(Done) /\ CleanOf(Done) /\ Owes(Done) <= Owes(call[p])
    BY <1>1, DoneIsRecord DEF RevokeOf, CleanOf, Where, FamilyPc, UserPc, CleanPc, Owes
<1> QED
    BY <1>4, <1>5, DoneIsRecord, UnfilesKeeps

LEMMA StepUnfileMember ==
    ASSUME ValkeyIInv, NEW p \in Call, UnfileMember(p)
    PROVE  ValkeyIInv'
<1>0. /\ call \in [Call -> CallRecord] /\ call[p] \in CallRecord /\ RevokeOf(call[p]) /\ SetsTyped /\ RowsTyped
    BY CallFacts
<1>1. call[p].pc = "familyUnfile" /\ Dead(call[p].cur)
    BY <1>0 DEF UnfileMember, RevokeOf, Where
<1>2. PICK c : c = call'[p]
    OBVIOUS
<1>3. /\ c \in CallRecord /\ c.pc = "familyMember" /\ c.of = call[p].of /\ c.members = call[p].members
      /\ c.count = call[p].count
    BY <1>0, <1>2, PcNames DEF UnfileMember, CallRecord
<1>4. call' = [call EXCEPT ![p] = c]
    BY <1>0, <1>2 DEF UnfileMember
<1>5. userSet' \in [User -> SUBSET Hash] /\ \A u \in User : \A h \in userSet[u] \ userSet'[u] : live[h] = None
    <2>1. CASE call[p].owner = None
        BY <1>0, <2>1 DEF UnfileMember, SetsTyped
    <2>2. CASE call[p].owner # None
        <3>1. userSet' = [userSet EXCEPT ![call[p].owner] = @ \ {call[p].cur}]
            BY <2>2 DEF UnfileMember, Unfile
        <3> QED
            BY <1>0, <1>1, <3>1 DEF SetsTyped, Dead
    <2> QED
        BY <2>1, <2>2
<1>6. familySet' = [familySet EXCEPT ![call[p].of] = @ \ {call[p].cur}]
    BY DEF UnfileMember, Unfile
<1>7. /\ familySet' \in [Family -> SUBSET Hash]
      /\ \A f \in Family : /\ familySet'[f] \subseteq familySet[f]
                           /\ \A h \in familySet[f] \ familySet'[f] : Spent(h)
    BY <1>0, <1>1, <1>6 DEF SetsTyped, Dead, Spent
<1>8. UNCHANGED <<live, retired, now, minted, families, written, userTtl, familyTtl, retiredTtl, begun, sentenced, counter>>
    BY DEF UnfileMember, portVars, ttlVars
<1>9. Unfiles(p, c)
    BY <1>1, <1>3, <1>4, <1>5, <1>7, <1>8 DEF Unfiles
<1>10. RevokeOf(c) /\ CleanOf(c)
    BY <1>0, <1>1, <1>3 DEF RevokeOf, CleanOf, Where, FamilyPc, UserPc, CleanPc
<1>11. Owes(c) <= Owes(call[p])
    BY <1>0, <1>1, <1>3 DEF Owes, CallRecord
<1> QED
    BY <1>3, <1>9, <1>10, <1>11, UnfilesKeeps

LEMMA StepUnfileRecord ==
    ASSUME ValkeyIInv, NEW p \in Call, UnfileRecord(p)
    PROVE  ValkeyIInv'
<1>0. /\ call \in [Call -> CallRecord] /\ call[p] \in CallRecord /\ RevokeOf(call[p]) /\ SetsTyped /\ RowsTyped
    BY CallFacts
<1>1. call[p].pc = "userUnfile" /\ Dead(call[p].cur)
    BY <1>0 DEF UnfileRecord, RevokeOf, Where
<1>2. PICK c : c = [call[p] EXCEPT !.pc = "userRecord", !.todo = {}, !.cur = None]
    OBVIOUS
<1>3. c \in CallRecord /\ c.pc = "userRecord" /\ c.of = call[p].of
    BY <1>0, <1>2, PcNames DEF CallRecord
<1>4. call' = [call EXCEPT ![p] = c]
    BY <1>2 DEF UnfileRecord
<1>5. /\ familySet' \in [Family -> SUBSET Hash]
      /\ \A f \in Family : /\ familySet'[f] \subseteq familySet[f]
                           /\ \A h \in familySet[f] \ familySet'[f] : Spent(h)
    BY <1>0, <1>1 DEF UnfileRecord, SetsTyped, Dead, Spent
<1>6. UNCHANGED <<live, retired, now, minted, families, written, userTtl, familyTtl, retiredTtl, begun, sentenced, counter, userSet>>
    BY DEF UnfileRecord, portVars, ttlVars
<1>7. Unfiles(p, c)
    BY <1>0, <1>1, <1>3, <1>4, <1>5, <1>6 DEF Unfiles, SetsTyped
<1>8. RevokeOf(c) /\ CleanOf(c)
    BY <1>0, <1>1, <1>3 DEF RevokeOf, CleanOf, Where, FamilyPc, UserPc, CleanPc
<1>9. Owes(c) <= Owes(call[p])
    BY <1>1, <1>3 DEF Owes
<1> QED
    BY <1>3, <1>7, <1>8, <1>9, UnfilesKeeps

\* The user's set, whole or in part: somebody has begun to revoke all sessions or to sweep.
LEMMA StepUnfileUsers ==
    ASSUME ValkeyIInv, NEW p \in Call, DropUserSet(p) \/ SremUser(p) \/ DropUser(p)
    PROVE  ValkeyIInv'
<1>0. /\ call \in [Call -> CallRecord] /\ call[p] \in CallRecord /\ RevokeOf(call[p]) /\ CleanOf(call[p])
      /\ SetsTyped /\ RowsTyped
    BY CallFacts
<1>1. PICK c : c = call'[p]
    OBVIOUS
<1>2. /\ call' = [call EXCEPT ![p] = c]
      /\ UNCHANGED <<live, retired, now, minted, families, written, userTtl, familyTtl, retiredTtl, begun, sentenced, counter, familySet>>
    BY <1>0, <1>1 DEF DropUserSet, SremUser, DropUser, portVars, ttlVars
<1>3. CASE DropUserSet(p)
    <2>1. /\ c \in CallRecord /\ c.pc = "userScan" /\ c.of = call[p].of /\ call[p].pc = "userDrop"
        BY <1>0, <1>1, <1>3, PcNames DEF DropUserSet, CallRecord
    <2>2. begun["user"] # 0 /\ userSet' \in [User -> SUBSET Hash]
        BY <1>0, <1>3, <2>1 DEF DropUserSet, RevokeOf, Where, UserPc, SetsTyped
    <2>3. Unfiles(p, c)
        BY <1>0, <1>2, <2>1, <2>2 DEF Unfiles, SetsTyped
    <2>4. RevokeOf(c) /\ CleanOf(c) /\ Owes(c) <= Owes(call[p])
        BY <1>0, <2>1 DEF RevokeOf, CleanOf, Where, FamilyPc, UserPc, CleanPc, Owes
    <2> QED
        BY <2>1, <2>3, <2>4, UnfilesKeeps
<1>4. CASE SremUser(p)
    <2>1. PICK rest : rest = userSet[call[p].of] \ call[p].members
        OBVIOUS
    <2>2. PICK pc \in {"dropUser", "pruneUser"} : pc = IF rest = {} THEN "dropUser" ELSE "pruneUser"
        OBVIOUS
    <2>3. c = [call[p] EXCEPT !.members = {}, !.pc = pc] /\ userSet' = [userSet EXCEPT ![call[p].of] = rest]
        BY <1>0, <1>1, <1>4, <2>1, <2>2 DEF SremUser
    <2>4. c \in CallRecord /\ c.pc = pc /\ c.of = call[p].of /\ call[p].pc = "sremUser"
        BY <1>0, <1>4, <2>2, <2>3, PcNames DEF SremUser, CallRecord
    <2>5. begun["cleanup"] # 0 /\ call[p].of \in User
        BY <1>0, <2>4 DEF CleanOf, Where, CleanPc
    <2>6. userSet' \in [User -> SUBSET Hash]
        BY <1>0, <2>1, <2>3, <2>5 DEF SetsTyped
    <2>7. Unfiles(p, c)
        BY <1>0, <1>2, <2>2, <2>4, <2>5, <2>6 DEF Unfiles, SetsTyped
    <2>8. RevokeOf(c) /\ CleanOf(c) /\ Owes(c) <= Owes(call[p])
        BY <1>0, <2>2, <2>4, <2>5 DEF RevokeOf, CleanOf, Where, FamilyPc, UserPc, CleanPc, Owes
    <2> QED
        BY <2>4, <2>7, <2>8, UnfilesKeeps
<1>5. CASE DropUser(p)
    <2>1. /\ c \in CallRecord /\ c.pc = "pruneUser" /\ c.of = call[p].of /\ call[p].pc = "dropUser"
        BY <1>0, <1>1, <1>5, PcNames DEF DropUser, CallRecord
    <2>2. begun["cleanup"] # 0 /\ userSet' \in [User -> SUBSET Hash]
        BY <1>0, <1>5, <2>1 DEF DropUser, CleanOf, Where, CleanPc, SetsTyped
    <2>3. Unfiles(p, c)
        BY <1>0, <1>2, <2>1, <2>2 DEF Unfiles, SetsTyped
    <2>4. RevokeOf(c) /\ CleanOf(c) /\ Owes(c) <= Owes(call[p])
        BY <1>0, <2>1 DEF RevokeOf, CleanOf, Where, FamilyPc, UserPc, CleanPc, Owes
    <2> QED
        BY <2>1, <2>3, <2>4, UnfilesKeeps
<1> QED
    BY <1>3, <1>4, <1>5

\* The family's set: by the time of the DEL the family is spent, whoever came in between.
LEMMA StepDropFamily ==
    ASSUME ValkeyIInv, NEW p \in Call, DropFamily(p) \/ DropEmptyFamily(p)
    PROVE  ValkeyIInv'
<1>0. /\ call \in [Call -> CallRecord] /\ call[p] \in CallRecord /\ RevokeOf(call[p]) /\ CleanOf(call[p])
      /\ SetsTyped /\ RowsTyped
    BY CallFacts
<1>1. call[p].of \in families /\ call[p].of \in Family /\ FamilySpent(call[p].of)
    BY <1>0 DEF DropFamily, DropEmptyFamily, RevokeOf, Where, RowsTyped
<1>2. \A h \in familySet[call[p].of] : Spent(h)
    BY <1>1, SpentFamilySpentMembers
<1>3. familySet' = [familySet EXCEPT ![call[p].of] = {}]
    BY DEF DropFamily, DropEmptyFamily
<1>4. /\ familySet' \in [Family -> SUBSET Hash]
      /\ \A f \in Family : /\ familySet'[f] \subseteq familySet[f]
                           /\ \A h \in familySet[f] \ familySet'[f] : Spent(h)
    BY <1>0, <1>1, <1>2, <1>3 DEF SetsTyped
<1>5. UNCHANGED <<live, retired, now, minted, families, written, userTtl, familyTtl, retiredTtl, begun, sentenced, counter, userSet>>
    BY DEF DropFamily, DropEmptyFamily, portVars, ttlVars
<1>6. CASE DropFamily(p)
    <2>1. Unfiles(p, Done)
        BY <1>0, <1>4, <1>5, <1>6, DoneIsRecord DEF DropFamily, Unfiles, SetsTyped
    <2>2. RevokeOf(Done) /\ CleanOf(Done) /\ Owes(Done) <= Owes(call[p])
        BY <1>6, DoneIsRecord DEF DropFamily, RevokeOf, CleanOf, Where, FamilyPc, UserPc, CleanPc, Owes
    <2> QED
        BY <2>1, <2>2, DoneIsRecord, UnfilesKeeps
<1>7. CASE DropEmptyFamily(p)
    <2>1. PICK c : c = call'[p]
        OBVIOUS
    <2>2. /\ c \in CallRecord /\ c.pc = "pruneFamily" /\ c.todo = call[p].todo /\ call[p].pc = "dropFamily"
        BY <1>0, <1>7, <2>1, PcNames DEF DropEmptyFamily, CallRecord
    <2>3. call' = [call EXCEPT ![p] = c]
        BY <1>0, <1>7, <2>1 DEF DropEmptyFamily
    <2>4. Unfiles(p, c)
        BY <1>0, <1>4, <1>5, <2>2, <2>3 DEF Unfiles, SetsTyped
    <2>5. RevokeOf(c) /\ CleanOf(c) /\ Owes(c) <= Owes(call[p])
        BY <1>0, <2>2 DEF RevokeOf, CleanOf, Where, FamilyPc, UserPc, CleanPc, Owes
    <2> QED
        BY <2>2, <2>4, <2>5, UnfilesKeeps
<1> QED
    BY <1>6, <1>7

LEMMA StepSremFamily ==
    ASSUME ValkeyIInv, NEW p \in Call, SremFamily(p)
    PROVE  ValkeyIInv'
<1>0. /\ call \in [Call -> CallRecord] /\ call[p] \in CallRecord /\ RevokeOf(call[p]) /\ CleanOf(call[p])
      /\ SetsTyped /\ RowsTyped
    BY CallFacts
<1>1. PICK f : f = call[p].of
    OBVIOUS
<1>2. /\ call[p].pc = "sremFamily" /\ f \in families /\ Addressable(f) /\ \A h \in call[p].members : Dead(h)
      /\ \A g \in call[p].todo : g \in families /\ Addressable(g)
    BY <1>0, <1>1 DEF SremFamily, CleanOf, Where
<1>3. PICK rest : rest = familySet[f] \ call[p].members
    OBVIOUS
<1>4. PICK pc \in {"dropFamily", "pruneFamily"} : pc = IF rest = {} THEN "dropFamily" ELSE "pruneFamily"
    OBVIOUS
<1>5. PICK c : c = [call[p] EXCEPT !.members = {}, !.pc = pc]
    OBVIOUS
<1>6. call' = [call EXCEPT ![p] = c] /\ familySet' = [familySet EXCEPT ![f] = rest]
    BY <1>1, <1>3, <1>4, <1>5 DEF SremFamily
<1>7. c \in CallRecord /\ c.pc = pc /\ c.of = f /\ c.todo = call[p].todo
    BY <1>0, <1>1, <1>4, <1>5, PcNames DEF CallRecord
<1>8. /\ familySet' \in [Family -> SUBSET Hash]
      /\ \A g \in Family : /\ familySet'[g] \subseteq familySet[g]
                           /\ \A h \in familySet[g] \ familySet'[g] : Spent(h)
    BY <1>0, <1>2, <1>3, <1>6 DEF SetsTyped, Dead, Spent
<1>9. UNCHANGED <<live, retired, now, minted, families, written, userTtl, familyTtl, retiredTtl, begun, sentenced, counter, userSet>>
    BY DEF SremFamily, portVars, ttlVars
<1>10. Unfiles(p, c)
    BY <1>0, <1>2, <1>4, <1>6, <1>7, <1>8, <1>9 DEF Unfiles, SetsTyped
<1>11. pc = "dropFamily" => FamilySpent(f)
    <2>1. pc = "dropFamily" => \A h \in familySet[f] : Dead(h)
        BY <1>2, <1>3, <1>4
    <2> QED
        BY <1>2, <2>1, DeadMembersSpentFamily
<1>12. RevokeOf(c) /\ CleanOf(c) /\ Owes(c) <= Owes(call[p])
    BY <1>0, <1>2, <1>4, <1>7, <1>11 DEF RevokeOf, CleanOf, Where, FamilyPc, UserPc, CleanPc, Owes
<1> QED
    BY <1>7, <1>10, <1>12, UnfilesKeeps

-----------------------------------------------------------------------------
(* The steps that store, rotate and expire. *)

LEMMA ForwardKeepsOther ==
    ASSUME Forward, ValkeyIInv, NEW q \in Call, call'[q] = call[q]
    PROVE  CallOf(call[q])'
<1>1. families \subseteq Family
    BY DEF ValkeyIInv, IndexInv, RowsTyped
<1>2. PICK d : d = call[q]
    OBVIOUS
<1>3. call'[q] = d /\ CallOf(d)
    BY <1>2 DEF ValkeyIInv, CallsInv
<1>4. CallOf(d)'
    BY <1>1, <1>3, ForwardKeepsCall
<1> QED
    BY <1>3, <1>4

LEMMA OwedSame ==
    ASSUME \A q \in Call : Owes(call'[q]) = Owes(call[q])
    PROVE  Owed' = Owed
<1>1. Owed' = UNION {{q} \X (1..Owes(call'[q])) : q \in Call}
    BY DEF Owed, Owes
<1>2. \A x : x \in Owed' <=> \E q \in Call : x \in {q} \X (1..Owes(call'[q]))
    BY <1>1
<1>3. \A x : x \in Owed <=> \E q \in Call : x \in {q} \X (1..Owes(call[q]))
    BY DEF Owed
<1> QED
    BY <1>2, <1>3

\* A TTL of whole seconds, read off a clock that is not ahead, ends less than a second early.
LEMMA WholeSeconds ==
    ASSUME now \in Nat, NEW at \in Int, at <= now, NEW deadline \in Int,
           NEW secs \in Int, num_seconds(deadline - at) <= secs
    PROVE  deadline < EXPIRE(secs) + Second /\ EXPIRE(secs) \in Int
<1>0. Second \in Nat \ {0}
    BY ValkeyAssumption
<1>1. PICK n : n = (deadline - at) \div Second
    OBVIOUS
<1>2. n \in Int /\ deadline - at < Second * n + Second /\ Second * n \in Int
    BY <1>0, <1>1
<1>3. Second * n <= Second * secs /\ Second * secs \in Int
    <2>1. n <= secs
        BY <1>1 DEF num_seconds
    <2> QED
        BY <1>0, <1>2, <2>1
<1> QED
    BY <1>0, <1>2, <1>3 DEF EXPIRE

\* An index set is given a second at least, and while it has a member it is not given less than it has.
LEMMA BumpTtl ==
    ASSUME now \in Nat, NEW set, NEW ttl \in Nat, NEW secs \in Nat \ {0}
    PROVE  /\ EXPIRE(secs) \in Nat /\ now + Second <= EXPIRE(secs)
           /\ bump_ttl(set, ttl, secs) \in Nat /\ extend_ttl(set, ttl, secs) \in Nat
           /\ set = {} => bump_ttl(set, ttl, secs) = EXPIRE(secs)
           /\ set # {} => ttl <= bump_ttl(set, ttl, secs) /\ ttl <= extend_ttl(set, ttl, secs)
           /\ EXPIRE(secs) <= extend_ttl(set, ttl, secs)
<1>0. Second \in Nat \ {0}
    BY ValkeyAssumption
<1>1. Second * secs \in Nat /\ Second <= Second * secs
    BY <1>0
<1>2. EXPIRE(secs) = now + Second * secs /\ EXPIRE(secs) \in Nat /\ now + Second <= EXPIRE(secs)
    BY <1>0, <1>1 DEF EXPIRE
<1>3. secs > TTL(ttl) => ttl <= EXPIRE(secs)
    <2>1. PICK x, n : x = ttl - now + Second \div 2 /\ n = x \div Second
        OBVIOUS
    <2>2. x \in Int /\ ttl - now <= x
        BY <1>0, <2>1
    <2>3. n \in Int /\ x < Second * n + Second /\ Second * n \in Int
        BY <1>0, <2>1, <2>2
    <2>4. secs > n => Second * n + Second <= Second * secs
        BY <1>0, <2>3
    <2>5. TTL(ttl) = n
        BY <2>1 DEF TTL
    <2> QED
        <3>1. PICK w, m : w = Second * n /\ m = Second * secs
            OBVIOUS
        <3>2. /\ w \in Int /\ m \in Int /\ x < w + Second /\ (secs > n => w + Second <= m)
              /\ EXPIRE(secs) = now + m /\ x \in Int /\ ttl - now <= x
            BY <1>1, <1>2, <2>2, <2>3, <2>4, <3>1
        <3> QED
            BY <1>0, <2>5, <3>2
<1> QED
    BY <1>2, <1>3 DEF bump_ttl, extend_ttl

LEMMA SettledFinite ==
    ASSUME RowsTyped
    PROVE  IsFiniteSet(Settled)
<1>1. Settled \in SUBSET Lives
    BY DEF Settled, Lives
<1> QED
    BY <1>1, FS_Subset DEF RowsTyped

\* A store is about a hash and a family that are known.
LEMMA StoreNames ==
    ASSUME ValkeyIInv
    PROVE  /\ \A h : Storing(h) => h \in minted /\ h \in Hash
           /\ \A f : f \notin families => Addressable(f)
           /\ \A q \in Call : call[q].pc = "pipeline" => StoreOf(call[q])
BY DEF ValkeyIInv, CallsInv, StoreOf, Storing, Addressable, IndexInv, RowsTyped

LEMMA StepStoreSessionKey ==
    ASSUME ValkeyIInv, NEW p \in Call, NEW h \in FreshHash, NEW f \in FreshFamily, NEW u \in User,
           StoreSessionKey(p, h, f, u)
    PROVE  ValkeyIInv'
<1>0. /\ call \in [Call -> CallRecord] /\ SetsTyped /\ RowsTyped /\ RowsMinted /\ MembersBelong /\ FamilyIndexComplete
      /\ FamilyOutlives /\ UserFiled /\ RecordsOutlive /\ RecordsKept /\ StoresDiffer /\ CounterCovers
      /\ h \in Hash /\ h \notin minted /\ f \in Family /\ f \notin families
    BY DEF ValkeyIInv, CallsInv, IndexInv, FreshHash, FreshFamily
<1>s. PICK issued \in Readings, at \in Readings :
          LET secs == num_seconds(issued + Ttl - at)
          IN  /\ secs >= 1 /\ issued <= at
              /\ call[p].pc = "done"
              /\ store_refresh_token(h, [user_id |-> u, family_id |-> f, generation |-> 0, expires_at |-> issued + Ttl])
              /\ userSet' = [userSet EXCEPT ![u] = @ \cup {h}]
              /\ userTtl' = [userTtl EXCEPT ![u] = extend_ttl(userSet[u], @, secs)]
              /\ call' = [call EXCEPT ![p] = [Done EXCEPT !.pc = "pipeline", !.of = f, !.cur = h, !.count = secs]]
              /\ UNCHANGED <<familySet, familyTtl, retiredTtl, counter, begun, sentenced>>
    BY DEF StoreSessionKey
<1>t. PICK secs : secs = num_seconds(issued + Ttl - at)
    OBVIOUS
<1>a. /\ secs = num_seconds(issued + Ttl - at) /\ secs >= 1 /\ issued <= at
      /\ call[p].pc = "done"
      /\ store_refresh_token(h, [user_id |-> u, family_id |-> f, generation |-> 0, expires_at |-> issued + Ttl])
      /\ userSet' = [userSet EXCEPT ![u] = @ \cup {h}]
      /\ userTtl' = [userTtl EXCEPT ![u] = extend_ttl(userSet[u], @, secs)]
      /\ call' = [call EXCEPT ![p] = [Done EXCEPT !.pc = "pipeline", !.of = f, !.cur = h, !.count = secs]]
      /\ UNCHANGED <<familySet, familyTtl, retiredTtl, counter, begun, sentenced>>
    BY <1>s, <1>t
<1>b. PICK e : e = issued + Ttl
    OBVIOUS
<1>u. secs = num_seconds(e - at)
    <2>1. issued \in Int /\ at \in Int /\ Ttl \in Int /\ e \in Int
        BY <1>0, <1>b, PortAssumption, ValkeyAssumption DEF RowsTyped, Readings
    <2> QED
        BY <1>b, <1>t, <2>1 DEF num_seconds
<1>c. /\ now \in Nat /\ Second \in Nat \ {0} /\ at \in Int /\ at <= now /\ e \in Nat /\ secs \in Nat \ {0}
    <2>1. now \in Nat /\ issued \in Nat /\ at \in Int /\ at <= now /\ e \in Nat /\ Second \in Nat \ {0}
        BY <1>0, <1>b, PortAssumption, ValkeyAssumption DEF RowsTyped, Readings
    <2>2. (e - at) \div Second \in Int
        BY <2>1
    <2>3. secs \in Int
        BY <1>u, <2>2 DEF num_seconds
    <2> QED
        BY <1>a, <2>1, <2>3
<1>d. e < EXPIRE(secs) + Second /\ EXPIRE(secs) \in Nat
    <2>1. num_seconds(e - at) <= secs
        BY <1>c, <1>u
    <2>2. e < EXPIRE(secs) + Second
        BY <1>c, <2>1, WholeSeconds
    <2> QED
        BY <1>c, <2>2, BumpTtl
<1>1. PICK row : row = [user_id |-> u, family_id |-> f, generation |-> 0, expires_at |-> e]
    OBVIOUS
<1>2. row \in Session /\ row.user_id = u /\ row.family_id = f /\ row.expires_at = e /\ row # None
    BY <1>0, <1>1, <1>c, PortAssumption DEF Session
<1>3. PICK c : c = [Done EXCEPT !.pc = "pipeline", !.of = f, !.cur = h, !.count = secs]
    OBVIOUS
<1>4. c \in CallRecord /\ c.pc = "pipeline" /\ c.of = f /\ c.cur = h /\ c.count = secs
    BY <1>0, <1>3, <1>c, DoneIsRecord, PcNames DEF CallRecord
<1>5. /\ call[p].pc = "done" /\ call' = [call EXCEPT ![p] = c]
      /\ live' = [live EXCEPT ![h] = row] /\ minted' = minted \cup {h} /\ families' = families \cup {f}
      /\ userSet' = [userSet EXCEPT ![u] = @ \cup {h}]
      /\ userTtl' = [userTtl EXCEPT ![u] = extend_ttl(userSet[u], @, secs)]
      /\ UNCHANGED <<retired, now, written, familySet, familyTtl, retiredTtl, counter, begun, sentenced>>
    BY <1>1, <1>2, <1>3, <1>a, <1>b DEF store_refresh_token
<1>6. /\ \A q \in Call : call'[q] = IF q = p THEN c ELSE call[q]
      /\ \A k \in Hash : live'[k] = IF k = h THEN row ELSE live[k]
      /\ live[h] = None /\ retired[h] = None /\ written[h] = None
    BY <1>0, <1>5 DEF RowsTyped, RowsMinted
<1>7. /\ \A k : Storing(k)' <=> Storing(k) \/ k = h
      /\ \A g : Addressable(g)' <=> Addressable(g) /\ g # f
    BY <1>4, <1>5, <1>6 DEF Storing, Addressable
<1>8. Forward
    <2>1. \A k \in minted : /\ live[k] = None => live'[k] = None
                            /\ Dead(k) => Dead(k)'
                            /\ \A g \in Family : Belongs(k, g) => Belongs(k, g)'
        BY <1>0, <1>5, <1>6, <1>7 DEF Dead, Belongs, RowsTyped
    <2>2. \A g \in families : FamilySpent(g) => FamilySpent(g)'
        BY <1>0, <1>2, <1>5, <1>6 DEF FamilySpent
    <2> QED
        BY <1>0, <1>5, <1>7, <2>1, <2>2 DEF Forward
<1>9. IndexInv'
    <2>1. RowsTyped'
        <3>1. Lives' = Lives \cup {h}
            BY <1>0, <1>2, <1>6 DEF Lives
        <3>2. IsFiniteSet(Lives')
            BY <1>0, <3>1, FS_AddElement DEF RowsTyped
        <3> QED
            BY <1>0, <1>2, <1>5, <3>2 DEF RowsTyped
    <2>2. /\ userTtl' \in [User -> Nat] /\ EXPIRE(secs) <= userTtl'[u]
          /\ \A v \in User : v # u \/ userSet[v] # {} => userTtl[v] <= userTtl'[v]
        <3>1. userTtl[u] \in Nat
            BY <1>0 DEF SetsTyped
        <3>2. PICK b : b = extend_ttl(userSet[u], userTtl[u], secs)
            OBVIOUS
        <3>3. b \in Nat /\ EXPIRE(secs) <= b /\ (userSet[u] # {} => userTtl[u] <= b)
            BY <1>c, <3>1, <3>2, BumpTtl
        <3>4. userTtl' = [userTtl EXCEPT ![u] = b]
            BY <1>5, <3>2
        <3> QED
            BY <1>0, <3>3, <3>4 DEF SetsTyped
    <2>3. SetsTyped'
        BY <1>0, <1>5, <2>2 DEF SetsTyped
    <2>4. RowsMinted'
        BY <1>0, <1>2, <1>5, <1>6 DEF RowsMinted
    <2>5. MembersBelong'
        <3> SUFFICES ASSUME NEW g \in Family, NEW k \in familySet[g]
                     PROVE  g \in families' /\ Belongs(k, g)'
            BY <1>5 DEF MembersBelong
        <3>1. g \in families /\ Belongs(k, g) /\ k \in minted
            BY <1>0 DEF MembersBelong, Belongs
        <3> QED
            BY <1>8, <3>1 DEF Forward
    <2>6. FamilyIndexComplete'
        BY <1>0, <1>5, <1>6, <1>7 DEF FamilyIndexComplete
    <2>7. FamilyOutlives'
        BY <1>0, <1>5, <1>6, <1>7 DEF FamilyOutlives
    <2>8. UserFiled'
        <3> SUFFICES ASSUME begun["user"] = 0, begun["cleanup"] = 0, NEW k \in Hash, live'[k] # None
                     PROVE  Filed(k)'
            BY <1>5 DEF UserFiled
        <3>1. CASE k = h
            <4>1. live'[k] = row /\ h \in userSet'[u]
                BY <1>0, <1>5, <1>6, <3>1 DEF SetsTyped
            <4>2. e < userTtl'[u] + Second
                BY <1>c, <1>d, <2>2
            <4> QED
                BY <1>2, <3>1, <4>1, <4>2 DEF Filed
        <3>2. CASE k # h
            <4>1. PICK v : v = live[k].user_id
                OBVIOUS
            <4>2. live'[k] = live[k] /\ v \in User /\ live[k].expires_at \in Nat
                BY <1>0, <1>6, <3>2, <4>1 DEF RowsTyped, Session
            <4>3. Filed(k)
                BY <1>0, <4>2 DEF UserFiled
            <4>4. k \in userSet[v] => k \in userSet'[v]
                BY <1>0, <1>5, <4>2 DEF SetsTyped
            <4>5. live[k].expires_at < userTtl'[v] + Second
                <5>1. userTtl[v] \in Nat /\ userTtl'[v] \in Nat /\ userTtl'[u] \in Nat
                    BY <1>0, <2>2, <4>2 DEF SetsTyped
                <5>2. CASE userTtl[v] <= userTtl'[v]
                    BY <1>c, <4>1, <4>2, <4>3, <5>1, <5>2 DEF Filed
                <5>3. CASE ~(userTtl[v] <= userTtl'[v])
                    <6>1. v = u /\ k \notin userSet[v]
                        BY <2>2, <4>2, <5>3
                    <6>2. live[k].expires_at < now + Second
                        BY <1>c, <4>1, <4>2, <4>3, <6>1 DEF Filed
                    <6>3. now + Second <= EXPIRE(secs) /\ EXPIRE(secs) <= userTtl'[v]
                        BY <1>c, <2>2, <6>1, BumpTtl
                    <6> QED
                        BY <1>c, <1>d, <4>2, <5>1, <6>2, <6>3
                <5> QED
                    BY <5>2, <5>3
            <4> QED
                BY <1>5, <4>1, <4>2, <4>3, <4>4, <4>5 DEF Filed
        <3> QED
            BY <3>1, <3>2
    <2>9. RecordsKept' /\ RecordsOutlive'
        BY <1>0, <1>5 DEF RecordsKept, RecordsOutlive
    <2> QED
        BY <2>1, <2>3, <2>4, <2>5, <2>6, <2>7, <2>8, <2>9 DEF IndexInv
<1>10. CallsInv'
    <2>1. call' \in [Call -> CallRecord]
        BY <1>0, <1>4, <1>5
    <2>2. ASSUME NEW q \in Call
          PROVE  CallOf(call[q])' /\ (call'[q].pc = "pipeline" => StoreOf(call[q])')
        <3>1. CASE q # p
            <4>1. PICK d : d = call[q]
                OBVIOUS
            <4>2. call'[q] = d
                BY <1>6, <3>1, <4>1
            <4>3. CallOf(call[q])'
                BY <1>8, <4>1, <4>2, ForwardKeepsOther
            <4>4. ASSUME d.pc = "pipeline"
                  PROVE  StoreOf(d)'
                <5>1. StoreOf(d)
                    BY <4>1, <4>4, StoreNames
                <5>2. d.cur # h /\ d.of # f /\ d.cur \in Hash
                    BY <1>0, <5>1 DEF StoreOf, RowsTyped
                <5> QED
                    BY <1>2, <1>5, <1>6, <5>1, <5>2 DEF StoreOf, EXPIRE
            <4> QED
                BY <4>2, <4>3, <4>4
        <3>2. CASE q = p
            <4>1. call'[q] = c
                BY <1>6, <3>2
            <4>2. CallOf(c)'
                BY <1>4 DEF CallOf, CallRecord, Pc, RevokeOf, CleanOf, Where, FamilyPc, UserPc, CleanPc
            <4>3. familySet[f] = {}
                BY <1>0 DEF MembersBelong
            <4>4. \A k \in Hash : live'[k] # None /\ live'[k].family_id = f => k = h
                BY <1>0, <1>6, PortAssumption DEF RowsMinted
            <4>5. StoreOf(c)'
                BY <1>0, <1>2, <1>4, <1>5, <1>6, <1>c, <1>d, <4>3, <4>4 DEF StoreOf, EXPIRE
            <4> QED
                BY <4>1, <4>2, <4>5
        <3> QED
            BY <3>1, <3>2
    <2>3. StoresDiffer'
        <3>1. \A q \in Call : call[q].pc = "pipeline" => call[q].cur # h /\ call[q].of # f
            BY <1>0, StoreNames DEF StoreOf
        <3> QED
            BY <1>0, <1>4, <1>6, <3>1 DEF StoresDiffer
    <2> QED
        BY <2>1, <2>2, <2>3 DEF CallsInv
<1>11. CounterCovers'
    <2>1. Settled' = Settled
        BY <1>6, <1>7 DEF Settled
    <2>2. Owed' = Owed
        BY <1>4, <1>5, <1>6, OwedSame DEF Owes
    <2> QED
        BY <1>0, <1>5, <2>1, <2>2 DEF CounterCovers
<1> QED
    BY <1>9, <1>10, <1>11 DEF ValkeyIInv

LEMMA StepStoreFamilyKey ==
    ASSUME ValkeyIInv, NEW p \in Call, StoreFamilyKey(p)
    PROVE  ValkeyIInv'
<1>0. /\ call \in [Call -> CallRecord] /\ SetsTyped /\ RowsTyped /\ RowsMinted /\ MembersBelong /\ FamilyIndexComplete
      /\ FamilyOutlives /\ UserFiled /\ RecordsOutlive /\ RecordsKept /\ StoresDiffer /\ CounterCovers
    BY DEF ValkeyIInv, CallsInv, IndexInv
<1>1. PICK f, h, secs : f = call[p].of /\ h = call[p].cur /\ secs = call[p].count
    OBVIOUS
<1>2. call[p].pc = "pipeline" /\ StoreOf(call[p])
    BY StoreNames DEF StoreFamilyKey
<1>3. /\ f \in families /\ f \in Family /\ h \in minted /\ h \in Hash /\ written[h] = None /\ familySet[f] = {}
      /\ \A k \in Hash : live[k] # None /\ live[k].family_id = f => k = h
      /\ live[h] # None => live[h].family_id = f /\ live[h].expires_at < EXPIRE(secs) + Second
      /\ secs \in Nat \ {0} /\ now \in Nat /\ Second \in Nat \ {0}
    BY <1>0, <1>1, <1>2, ValkeyAssumption DEF StoreOf, RowsTyped, CallRecord
<1>a. EXPIRE(secs) \in Nat /\ now + Second <= EXPIRE(secs)
    BY <1>3, BumpTtl
<1>4. /\ call' = [call EXCEPT ![p] = Done] /\ counter' = counter + 1
      /\ familySet' = [familySet EXCEPT ![f] = {h}] /\ familyTtl' = [familyTtl EXCEPT ![f] = EXPIRE(secs)]
      /\ UNCHANGED <<live, retired, now, minted, families, written, userSet, userTtl, retiredTtl, begun, sentenced>>
    <2>1. extend_ttl(familySet[f], familyTtl[f], secs) = EXPIRE(secs)
        BY <1>3 DEF extend_ttl
    <2>2. familySet[f] \cup {h} = {h}
        BY <1>3
    <2>3. familySet' = [familySet EXCEPT ![f] = familySet[f] \cup {h}]
        BY <1>1 DEF StoreFamilyKey
    <2>4. familyTtl' = [familyTtl EXCEPT ![f] = extend_ttl(familySet[f], familyTtl[f], secs)]
        BY <1>1 DEF StoreFamilyKey
    <2>5. familySet' = [familySet EXCEPT ![f] = {h}] /\ familyTtl' = [familyTtl EXCEPT ![f] = EXPIRE(secs)]
        BY <2>1, <2>2, <2>3, <2>4
    <2> QED
        BY <2>5 DEF StoreFamilyKey, portVars
<1>5. \A q \in Call : call'[q] = IF q = p THEN Done ELSE call[q]
    BY <1>0, <1>4
<1>6. /\ \A k : Storing(k)' <=> Storing(k) /\ k # h
      /\ \A g : Addressable(g) => Addressable(g)'
    BY <1>0, <1>1, <1>2, <1>5, DoneIsRecord DEF Storing, Addressable, StoresDiffer
<1>7. Forward
    <2>1. \A k \in minted : /\ Dead(k) => Dead(k)'
                            /\ \A g \in Family : Belongs(k, g) => Belongs(k, g)'
        BY <1>4, <1>6 DEF Dead, Belongs
    <2>2. \A g \in families : FamilySpent(g) => FamilySpent(g)'
        BY <1>4 DEF FamilySpent
    <2> QED
        BY <1>4, <1>6, <2>1, <2>2 DEF Forward
<1>8. IndexInv'
    <2>1. RowsTyped'
        BY <1>0, <1>4 DEF RowsTyped, Lives
    <2>2. SetsTyped'
        BY <1>0, <1>3, <1>4, <1>a DEF SetsTyped
    <2>3. RowsMinted'
        BY <1>0, <1>4 DEF RowsMinted
    <2>4. MembersBelong'
        <3> SUFFICES ASSUME NEW g \in Family, NEW k \in familySet'[g]
                     PROVE  g \in families' /\ Belongs(k, g)'
            BY DEF MembersBelong
        <3>1. CASE g = f
            <4>1. k = h
                BY <1>0, <1>3, <1>4, <3>1 DEF SetsTyped
            <4>2. Belongs(h, f)'
                BY <1>3, <1>4, <1>6 DEF Belongs
            <4> QED
                BY <1>3, <1>4, <3>1, <4>1, <4>2
        <3>2. CASE g # f
            <4>1. k \in familySet[g]
                BY <1>0, <1>4, <3>2 DEF SetsTyped
            <4>2. g \in families /\ Belongs(k, g) /\ k \in minted
                BY <1>0, <4>1 DEF MembersBelong, Belongs
            <4> QED
                BY <1>7, <4>2 DEF Forward
        <3> QED
            BY <3>1, <3>2
    <2>5. FamilyIndexComplete'
        <3> SUFFICES ASSUME NEW k \in Hash
                     PROVE  /\ /\ live[k] # None /\ live[k].family_id # NoFamily
                               /\ ~Storing(k)' /\ now + Second <= live[k].expires_at
                               => k \in familySet'[live[k].family_id]
                            /\ retired[k] # None /\ now + Second <= retired[k].expires_at
                               => k \in familySet'[retired[k].family_id]
            BY <1>4 DEF FamilyIndexComplete
        <3>1. \A g \in Family : k \in familySet[g] => k \in familySet'[g]
            BY <1>0, <1>3, <1>4 DEF SetsTyped
        <3>2. ASSUME live[k] # None, live[k].family_id # NoFamily, ~Storing(k)', now + Second <= live[k].expires_at
              PROVE  k \in familySet'[live[k].family_id]
            <4>1. live[k].family_id \in Family
                BY <1>0, <3>2 DEF RowsTyped, Session
            <4>2. CASE k = h
                BY <1>0, <1>3, <1>4, <3>2, <4>2 DEF SetsTyped
            <4>3. CASE k # h
                BY <1>0, <1>6, <3>1, <3>2, <4>1, <4>3 DEF FamilyIndexComplete
            <4> QED
                BY <4>2, <4>3
        <3>3. ASSUME retired[k] # None, now + Second <= retired[k].expires_at
              PROVE  k \in familySet'[retired[k].family_id]
            <4>1. retired[k].family_id \in Family
                BY <1>0, <3>3 DEF RowsTyped, RetiredRefreshToken
            <4> QED
                BY <1>0, <3>1, <3>3, <4>1 DEF FamilyIndexComplete
        <3> QED
            BY <3>2, <3>3
    <2>6. FamilyOutlives'
        <3> SUFFICES ASSUME NEW k \in Hash
                     PROVE  /\ live[k] # None /\ live[k].family_id # NoFamily /\ ~Storing(k)'
                               => live[k].expires_at < familyTtl'[live[k].family_id] + Second
                            /\ retired[k] # None => retired[k].expires_at < familyTtl'[retired[k].family_id] + Second
            BY <1>4 DEF FamilyOutlives
        <3>1. /\ \A g \in Family : g # f => familyTtl'[g] = familyTtl[g]
              /\ familyTtl'[f] = EXPIRE(secs)
            BY <1>0, <1>3, <1>4 DEF SetsTyped
        <3>2. ASSUME live[k] # None, live[k].family_id # NoFamily, ~Storing(k)'
              PROVE  live[k].expires_at < familyTtl'[live[k].family_id] + Second
            <4>1. live[k].family_id \in Family
                BY <1>0, <3>2 DEF RowsTyped, Session
            <4>2. CASE k = h
                BY <1>3, <3>1, <3>2, <4>2
            <4>3. CASE k # h
                <5>1. live[k].family_id # f /\ ~Storing(k)
                    BY <1>3, <1>6, <3>2, <4>3
                <5> QED
                    BY <1>0, <3>1, <3>2, <4>1, <5>1 DEF FamilyOutlives
            <4> QED
                BY <4>2, <4>3
        <3>3. ASSUME retired[k] # None
              PROVE  retired[k].expires_at < familyTtl'[retired[k].family_id] + Second
            <4>1. retired[k].family_id \in Family /\ retired[k].expires_at \in Nat
                BY <1>0, <3>3 DEF RowsTyped, RetiredRefreshToken
            <4>2. CASE retired[k].family_id = f
                <5>1. ~(now + Second <= retired[k].expires_at)
                    BY <1>0, <1>3, <3>3, <4>2 DEF FamilyIndexComplete
                <5> QED
                    BY <1>3, <1>a, <3>1, <4>1, <4>2, <5>1
            <4>3. CASE retired[k].family_id # f
                BY <1>0, <3>1, <3>3, <4>1, <4>3 DEF FamilyOutlives
            <4> QED
                BY <4>2, <4>3
        <3> QED
            BY <3>2, <3>3
    <2>7. UserFiled'
        BY <1>0, <1>4 DEF UserFiled, Filed
    <2>8. RecordsKept' /\ RecordsOutlive'
        BY <1>0, <1>4 DEF RecordsKept, RecordsOutlive
    <2> QED
        BY <2>1, <2>2, <2>3, <2>4, <2>5, <2>6, <2>7, <2>8 DEF IndexInv
<1>9. CallsInv'
    <2>1. call' \in [Call -> CallRecord]
        BY <1>0, <1>4, DoneIsRecord
    <2>2. ASSUME NEW q \in Call
          PROVE  CallOf(call[q])' /\ (call'[q].pc = "pipeline" => StoreOf(call[q])')
        <3>1. CASE q # p
            <4>1. PICK d : d = call[q]
                OBVIOUS
            <4>2. call'[q] = d
                BY <1>5, <3>1, <4>1
            <4>3. CallOf(call[q])'
                BY <1>7, <4>1, <4>2, ForwardKeepsOther
            <4>4. ASSUME d.pc = "pipeline"
                  PROVE  StoreOf(d)'
                <5>1. StoreOf(d)
                    BY <4>1, <4>4, StoreNames
                <5>2. d.of # f /\ d.of \in Family
                    BY <1>0, <1>1, <1>2, <3>1, <4>1, <4>4, <5>1 DEF StoresDiffer, StoreOf, RowsTyped
                <5>3. familySet'[d.of] = familySet[d.of]
                    BY <1>0, <1>4, <5>2 DEF SetsTyped
                <5> QED
                    BY <1>4, <5>1, <5>3 DEF StoreOf, EXPIRE
            <4> QED
                BY <4>2, <4>3, <4>4
        <3>2. CASE q = p
            <4>1. call'[q] = Done
                BY <1>5, <3>2
            <4>2. PICK d : d = Done
                OBVIOUS
            <4>3. d \in CallRecord /\ d.pc = "done"
                BY <4>2, DoneIsRecord
            <4>4. CallOf(d)'
                BY <4>3 DEF CallOf, CallRecord, Pc, RevokeOf, CleanOf, Where, FamilyPc, UserPc, CleanPc
            <4> QED
                BY <4>1, <4>2, <4>3, <4>4
        <3> QED
            BY <3>1, <3>2
    <2>3. StoresDiffer'
        BY <1>0, <1>5, DoneIsRecord DEF StoresDiffer
    <2> QED
        BY <2>1, <2>2, <2>3 DEF CallsInv
<1>10. CounterCovers'
    <2> SUFFICES ASSUME begun["user"] = 0, begun["cleanup"] = 0
                 PROVE  IsFiniteSet(Owed') /\ counter' >= Cardinality(Settled') + Cardinality(Owed')
        BY <1>4 DEF CounterCovers
    <2>1. Owed' = Owed
        BY <1>2, <1>5, DoneIsRecord, OwedSame DEF Owes
    <2>2. IsFiniteSet(Owed) /\ counter >= Cardinality(Settled) + Cardinality(Owed)
        BY <1>0 DEF CounterCovers
    <2>3. IsFiniteSet(Settled)
        BY <1>0, SettledFinite
    <2>4. Settled' \in SUBSET (Settled \cup {h})
        BY <1>4, <1>6 DEF Settled
    <2> DEFINE T == Settled \cup {h}
    <2>5. /\ IsFiniteSet(T)
          /\ Cardinality(T) = IF h \in Settled THEN Cardinality(Settled) ELSE Cardinality(Settled) + 1
        BY <2>3, FS_AddElement
    <2>6. Settled' \in SUBSET T
        BY <2>4
    <2> HIDE DEF T
    <2>7. Cardinality(Settled') <= Cardinality(T) /\ IsFiniteSet(Settled')
        BY <2>5, <2>6, FS_Subset
    <2>8. Cardinality(Settled) \in Nat /\ Cardinality(Settled') \in Nat /\ Cardinality(Owed) \in Nat
        BY <2>2, <2>3, <2>7, FS_CardinalityType
    <2>9. Cardinality(Settled') <= Cardinality(Settled) + 1
        BY <2>5, <2>7, <2>8
    <2>10. counter' >= Cardinality(Settled') + Cardinality(Owed)
        BY <1>0, <1>4, <2>2, <2>8, <2>9 DEF SetsTyped
    <2> QED
        BY <2>1, <2>2, <2>10
<1> QED
    BY <1>8, <1>9, <1>10 DEF ValkeyIInv

\* A set outlives its members, so a key that is not in its last second keeps its place in the set.
LEMMA StepExpire ==
    ASSUME ValkeyIInv, Expire
    PROVE  ValkeyIInv'
<1>0. /\ call \in [Call -> CallRecord] /\ SetsTyped /\ RowsTyped /\ RowsMinted /\ MembersBelong /\ FamilyIndexComplete
      /\ FamilyOutlives /\ UserFiled /\ RecordsOutlive /\ RecordsKept /\ StoresDiffer /\ CounterCovers
    BY DEF ValkeyIInv, CallsInv, IndexInv
<1>1. /\ now' = now + 1 /\ now \in Nat
      /\ Second \in Nat \ {0}
      /\ UNCHANGED <<minted, families, written, userTtl, familyTtl, retiredTtl, counter, call, begun, sentenced>>
    BY <1>0, ValkeyAssumption DEF Expire, historyVars, ttlVars, RowsTyped
<1>2. \A h \in Hash : live'[h] = live[h] \/ live'[h] = None
    BY DEF Expire
<1>3. \A h \in Hash : retired'[h] = IF retiredTtl[h] > now + 1 THEN retired[h] ELSE None
    BY <1>1 DEF Expire
<1>4. /\ \A u \in User : userSet'[u] = IF userTtl[u] > now + 1 THEN userSet[u] ELSE {}
      /\ \A f \in Family : familySet'[f] = IF familyTtl[f] > now + 1 THEN familySet[f] ELSE {}
    BY <1>1 DEF Expire
<1>5. (\A h : Storing(h)' <=> Storing(h)) /\ (\A f : Addressable(f)' <=> Addressable(f))
    BY <1>1 DEF Storing, Addressable
<1>6. Forward
    <2>1. \A h \in minted : /\ live[h] = None => live'[h] = None
                            /\ Dead(h) => Dead(h)'
                            /\ \A f \in Family : Belongs(h, f) => Belongs(h, f)'
        BY <1>0, <1>1, <1>2, <1>3, <1>5 DEF Dead, Belongs, RowsTyped
    <2>2. ASSUME NEW f \in families, FamilySpent(f)
          PROVE  FamilySpent(f)'
        <3>1. \A h \in Hash : /\ live[h] # None => live[h].expires_at \in Nat
                              /\ retired[h] # None => retired[h].expires_at \in Nat
            BY <1>0 DEF RowsTyped, Session, RetiredRefreshToken
        <3>2. \A x \in Nat : x < now + Second => x < now' + Second
            BY <1>1
        <3> QED
            BY <1>2, <1>3, <2>2, <3>1, <3>2 DEF FamilySpent
    <2> QED
        BY <1>1, <1>5, <2>1, <2>2 DEF Forward
<1>7. IndexInv'
    <2>1. RowsTyped'
        <3>1. Lives' \in SUBSET Lives
            BY <1>2 DEF Lives
        <3>2. IsFiniteSet(Lives')
            BY <1>0, <3>1, FS_Subset DEF RowsTyped
        <3>3. live' \in [Hash -> Session \cup {None}] /\ retired' \in [Hash -> RetiredRefreshToken \cup {None}]
            BY <1>0 DEF Expire, RowsTyped
        <3> QED
            BY <1>0, <1>1, <3>2, <3>3 DEF RowsTyped
    <2>2. SetsTyped'
        <3>1. userSet' \in [User -> SUBSET Hash] /\ familySet' \in [Family -> SUBSET Hash]
            BY <1>0 DEF Expire, SetsTyped
        <3> QED
            BY <1>0, <1>1, <3>1 DEF SetsTyped
    <2>3. RowsMinted'
        BY <1>0, <1>1, <1>2, <1>3 DEF RowsMinted
    <2>4. MembersBelong'
        <3> SUFFICES ASSUME NEW f \in Family, NEW h \in familySet'[f]
                     PROVE  f \in families' /\ Belongs(h, f)'
            BY DEF MembersBelong
        <3>1. f \in families /\ Belongs(h, f) /\ h \in minted
            BY <1>0, <1>4 DEF MembersBelong, Belongs
        <3> QED
            BY <1>6, <3>1 DEF Forward
    <2>5. FamilyIndexComplete'
        <3> SUFFICES ASSUME NEW h \in Hash
                     PROVE  /\ /\ live'[h] # None /\ live'[h].family_id # NoFamily
                               /\ ~Storing(h) /\ now' + Second <= live'[h].expires_at
                               => h \in familySet'[live'[h].family_id]
                            /\ retired'[h] # None /\ now' + Second <= retired'[h].expires_at
                               => h \in familySet'[retired'[h].family_id]
            BY <1>5 DEF FamilyIndexComplete
        <3>1. ASSUME live'[h] # None, live'[h].family_id # NoFamily, ~Storing(h), now' + Second <= live'[h].expires_at
              PROVE  h \in familySet'[live'[h].family_id]
            <4>1. PICK f : f = live[h].family_id
                OBVIOUS
            <4>2. live'[h] = live[h] /\ live[h] # None /\ live[h].expires_at \in Nat /\ f \in Family
                BY <1>0, <1>2, <3>1, <4>1 DEF RowsTyped, Session
            <4>3. now + Second <= live[h].expires_at
                BY <1>1, <3>1, <4>2
            <4>4. live[h].expires_at < familyTtl[f] + Second /\ familyTtl[f] \in Nat /\ h \in familySet[f]
                BY <1>0, <3>1, <4>1, <4>2, <4>3 DEF FamilyOutlives, SetsTyped, FamilyIndexComplete
            <4>5. familyTtl[f] > now + 1
                BY <1>1, <3>1, <4>2, <4>4
            <4> QED
                BY <1>4, <4>1, <4>2, <4>4, <4>5
        <3>2. ASSUME retired'[h] # None, now' + Second <= retired'[h].expires_at
              PROVE  h \in familySet'[retired'[h].family_id]
            <4>1. PICK f : f = retired[h].family_id
                OBVIOUS
            <4>2. retired'[h] = retired[h] /\ retired[h] # None /\ retired[h].expires_at \in Nat /\ f \in Family
                BY <1>0, <1>3, <3>2, <4>1 DEF RowsTyped, RetiredRefreshToken
            <4>3. now + Second <= retired[h].expires_at
                BY <1>1, <3>2, <4>2
            <4>4. retired[h].expires_at < familyTtl[f] + Second /\ familyTtl[f] \in Nat /\ h \in familySet[f]
                BY <1>0, <4>1, <4>2, <4>3 DEF FamilyOutlives, SetsTyped, FamilyIndexComplete
            <4>5. familyTtl[f] > now + 1
                BY <1>1, <3>2, <4>2, <4>4
            <4> QED
                BY <1>4, <4>1, <4>2, <4>4, <4>5
        <3> QED
            BY <3>1, <3>2
    <2>6. FamilyOutlives'
        BY <1>0, <1>1, <1>2, <1>3, <1>5 DEF FamilyOutlives
    <2>7. UserFiled'
        <3> SUFFICES ASSUME begun["user"] = 0, begun["cleanup"] = 0, NEW h \in Hash, live'[h] # None
                     PROVE  Filed(h)'
            BY <1>1 DEF UserFiled
        <3>1. PICK u : u = live[h].user_id
            OBVIOUS
        <3>2. live'[h] = live[h] /\ live[h] # None /\ live[h].expires_at \in Nat /\ u \in User /\ userTtl[u] \in Nat
            BY <1>0, <1>2, <3>1 DEF RowsTyped, Session, SetsTyped
        <3>3. Filed(h)
            BY <1>0, <3>2 DEF UserFiled
        <3>4. now' + Second <= live[h].expires_at => h \in userSet[u] /\ userTtl[u] > now + 1
            BY <1>1, <3>1, <3>2, <3>3 DEF Filed
        <3> QED
            BY <1>1, <1>4, <3>1, <3>2, <3>3, <3>4 DEF Filed
    <2>8. RecordsKept'
        <3> SUFFICES ASSUME NEW h \in Hash, written[h] # None, now' + Second <= written[h].expires_at,
                            written[h].family_id \notin sentenced, written[h].user_id \notin sentenced
                     PROVE  retired'[h] = written[h]
            BY <1>1 DEF RecordsKept
        <3>1. written[h].expires_at \in Nat /\ retiredTtl[h] \in Nat
            BY <1>0 DEF RowsTyped, RetiredRefreshToken, SetsTyped
        <3>2. now + Second <= written[h].expires_at
            BY <1>1, <3>1
        <3>3. retired[h] = written[h]
            BY <1>0, <3>2 DEF RecordsKept
        <3>4. written[h].expires_at < retiredTtl[h] + Second
            BY <1>0, <3>3 DEF RecordsOutlive
        <3>5. retiredTtl[h] > now + 1
            BY <1>1, <3>1, <3>4
        <3> QED
            BY <1>3, <3>3, <3>5
    <2>9. RecordsOutlive'
        BY <1>0, <1>1, <1>3 DEF RecordsOutlive
    <2> QED
        BY <2>1, <2>2, <2>3, <2>4, <2>5, <2>6, <2>7, <2>8, <2>9 DEF IndexInv
<1>8. CallsInv'
    <2>2. ASSUME NEW q \in Call
          PROVE  CallOf(call[q])' /\ (call'[q].pc = "pipeline" => StoreOf(call[q])')
        <3>1. PICK d : d = call[q]
            OBVIOUS
        <3>2. call'[q] = d
            BY <1>1, <3>1
        <3>3. CallOf(call[q])'
            BY <1>6, <3>1, <3>2, ForwardKeepsOther
        <3>4. ASSUME d.pc = "pipeline"
              PROVE  StoreOf(d)'
            <4>1. StoreOf(d) /\ d.of \in Family /\ d.cur \in Hash
                BY <1>0, <3>1, <3>4, StoreNames DEF StoreOf, RowsTyped
            <4>2. familySet'[d.of] = {}
                BY <1>4, <4>1 DEF StoreOf
            <4>3. /\ d.count # 0
                  /\ live'[d.cur] # None =>
                        live'[d.cur].family_id = d.of /\ live'[d.cur].expires_at < EXPIRE(d.count)' + Second
                <5>1. d.count \in Nat \ {0}
                    BY <1>0, <3>1, <4>1 DEF StoreOf, CallRecord
                <5>2. PICK n \in Nat : n = Second * d.count
                    BY <1>1, <5>1
                <5>3. live[d.cur] # None => live[d.cur].expires_at \in Nat /\ live[d.cur].expires_at < now + n + Second
                    BY <1>0, <4>1, <5>2 DEF RowsTyped, Session, StoreOf, EXPIRE
                <5>4. EXPIRE(d.count)' = now + 1 + n
                    BY <1>1, <5>2 DEF EXPIRE
                <5> QED
                    BY <1>1, <1>2, <4>1, <5>1, <5>3, <5>4 DEF StoreOf
            <4> QED
                BY <1>1, <1>2, <4>1, <4>2, <4>3 DEF StoreOf, EXPIRE
        <3> QED
            BY <3>2, <3>3, <3>4
    <2> QED
        BY <1>0, <1>1, <2>2 DEF CallsInv, StoresDiffer
<1>9. CounterCovers'
    <2>1. Owed' = Owed
        BY <1>1, OwedSame
    <2>2. IsFiniteSet(Settled)
        BY <1>0, SettledFinite
    <2>3. Settled' \in SUBSET Settled
        BY <1>2, <1>5 DEF Settled
    <2>4. IsFiniteSet(Settled') /\ Cardinality(Settled') <= Cardinality(Settled)
        BY <2>2, <2>3, FS_Subset
    <2>5. Cardinality(Settled) \in Nat /\ Cardinality(Settled') \in Nat
        BY <2>2, <2>4, FS_CardinalityType
    <2>6. IsFiniteSet(Owed) => Cardinality(Owed) \in Nat
        BY FS_CardinalityType
    <2>7. begun["user"] = 0 /\ begun["cleanup"] = 0 =>
              IsFiniteSet(Owed) /\ counter >= Cardinality(Settled') + Cardinality(Owed)
        BY <1>0, <2>4, <2>5, <2>6 DEF CounterCovers, SetsTyped
    <2> QED
        BY <1>1, <2>1, <2>7 DEF CounterCovers
<1> QED
    BY <1>7, <1>8, <1>9 DEF ValkeyIInv

\* The replacement of a rotation, the record it leaves, and the TTLs of the two.
Replacement(h, f) == [live[h] EXCEPT !.family_id = f, !.generation = @ + 1]
RecordOf(h, h2, at) ==
    [family_id |-> live[h].family_id, user_id |-> live[h].user_id, successor_hash |-> h2,
     retired_at |-> at, expires_at |-> retention_deadline(at, live[h].expires_at)]
SecsLeft(h, at) == num_seconds(live[h].expires_at - at)
SecsKept(h, at) ==
    LET kept_for == num_seconds(retention_deadline(at, live[h].expires_at) - at)
    IN  IF kept_for < 1 THEN 1 ELSE kept_for

\* A rotation by a process that read the clock at first, for the replacement, and at at,
\* for the record.
RotateAt(h, h2, f, first, at) ==
    /\ live[h] # None /\ ~Storing(h)
    /\ IF live[h].family_id = NoFamily THEN f \in FreshFamily ELSE f = live[h].family_id
    /\ SecsLeft(h, first) >= 1
    /\ RotationScript(h, h2, Replacement(h, f), at, SecsLeft(h, first), SecsKept(h, at))

LEMMA ReplacementOf ==
    ASSUME RowsTyped, NEW h \in Hash, live[h] # None, NEW f \in Family
    PROVE  /\ live[h] \in Session /\ Replacement(h, f) \in Session
           /\ Replacement(h, f).user_id = live[h].user_id /\ Replacement(h, f).family_id = f
           /\ Replacement(h, f).expires_at = live[h].expires_at
<1>1. live[h] \in Session
    BY DEF RowsTyped
<1>2. PICK n : n = live[h].generation + 1
    OBVIOUS
<1>3. n \in Nat
    BY <1>1, <1>2 DEF Session
<1>4. Replacement(h, f) = [live[h] EXCEPT !.family_id = f, !.generation = n]
    BY <1>2 DEF Replacement
<1> QED
    BY <1>1, <1>3, <1>4 DEF Session

LEMMA RotationAt ==
    ASSUME ValkeyIInv, NEW h \in Hash, NEW h2, NEW f \in Family, RotateRefreshToken(h, h2, f)
    PROVE  \E first, at \in Readings : RotateAt(h, h2, f, first, at)
<1>1. Replacement(h, f).expires_at = live[h].expires_at
    BY ReplacementOf DEF ValkeyIInv, IndexInv, RotateRefreshToken
<1>2. PICK s : s = Replacement(h, f)
    OBVIOUS
<1>3. PICK first \in Readings, at \in Readings :
          LET secs == num_seconds(s.expires_at - first)
              kept_for == num_seconds(retention_deadline(at, s.expires_at) - at)
          IN  secs >= 1 /\ RotationScript(h, h2, s, at, secs, IF kept_for < 1 THEN 1 ELSE kept_for)
    BY <1>2 DEF RotateRefreshToken, Replacement
<1>4. SecsLeft(h, first) >= 1 /\ RotationScript(h, h2, s, at, SecsLeft(h, first), SecsKept(h, at))
    BY <1>1, <1>2, <1>3 DEF SecsLeft, SecsKept
<1>5. RotateAt(h, h2, f, first, at)
    BY <1>2, <1>4 DEF RotateAt, RotateRefreshToken
<1> QED
    BY <1>5

LEMMA RotationTtls ==
    ASSUME RowsTyped, NEW h \in Hash, live[h] # None, NEW first \in Readings, NEW at \in Readings, SecsLeft(h, first) >= 1,
           NEW d, d = retention_deadline(at, live[h].expires_at)
    PROVE  /\ SecsLeft(h, first) \in Nat \ {0} /\ SecsKept(h, at) \in Nat \ {0}
           /\ EXPIRE(SecsLeft(h, first)) \in Nat /\ EXPIRE(SecsKept(h, at)) \in Nat
           /\ live[h].expires_at < EXPIRE(SecsLeft(h, first)) + Second
           /\ d \in Nat /\ d <= live[h].expires_at /\ d < EXPIRE(SecsKept(h, at)) + Second
<1>1. /\ now \in Nat /\ at \in Nat /\ at <= now /\ first \in Nat /\ first <= now /\ live[h].expires_at \in Nat
      /\ Second \in Nat \ {0} /\ Retention \in Nat
    BY PortAssumption, ValkeyAssumption DEF RowsTyped, Readings, Session
<1>2. d \in Nat /\ d <= live[h].expires_at
    BY <1>1 DEF retention_deadline, Earlier
<1>3. num_seconds(live[h].expires_at - first) \in Int /\ num_seconds(d - at) \in Int
    <2>1. live[h].expires_at - first \in Int /\ d - at \in Int
        BY <1>1, <1>2
    <2> QED
        BY <1>1, <2>1 DEF num_seconds
<1>4. SecsLeft(h, first) \in Nat \ {0} /\ SecsKept(h, at) \in Nat \ {0} /\ num_seconds(d - at) <= SecsKept(h, at)
    BY <1>3 DEF SecsLeft, SecsKept
<1>5. num_seconds(live[h].expires_at - first) <= SecsLeft(h, first)
    BY <1>3 DEF SecsLeft
<1>6. live[h].expires_at < EXPIRE(SecsLeft(h, first)) + Second /\ d < EXPIRE(SecsKept(h, at)) + Second
    BY <1>1, <1>2, <1>4, <1>5, WholeSeconds
<1>7. EXPIRE(SecsLeft(h, first)) \in Nat /\ EXPIRE(SecsKept(h, at)) \in Nat
    BY <1>1, <1>4, BumpTtl
<1> QED
    BY <1>2, <1>4, <1>6, <1>7

\* What the script does to the keys ...
LEMMA RotationFacts ==
    ASSUME ValkeyIInv, NEW h \in Hash, NEW h2 \in FreshHash, NEW f \in Family, NEW first \in Readings, NEW at \in Readings, RotateAt(h, h2, f, first, at)
    PROVE  /\ live[h] \in Session /\ ~Storing(h) /\ h \in minted /\ h2 \in Hash /\ h2 \notin minted /\ h # h2
           /\ written[h] = None /\ retired[h] = None
           /\ live[h2] = None /\ written[h2] = None /\ retired[h2] = None /\ ~Storing(h2)
           /\ live[h].family_id # NoFamily => f = live[h].family_id
           /\ live[h].family_id = NoFamily => f \notin families
           /\ Replacement(h, f) \in Session
           /\ Replacement(h, f).user_id = live[h].user_id /\ Replacement(h, f).family_id = f
           /\ Replacement(h, f).expires_at = live[h].expires_at
           /\ live[h].family_id # NoFamily =>
                 /\ RecordOf(h, h2, at) \in RetiredRefreshToken /\ RecordOf(h, h2, at).family_id = f
                 /\ RecordOf(h, h2, at).expires_at <= live[h].expires_at
                 /\ RecordOf(h, h2, at).expires_at < EXPIRE(SecsKept(h, at)) + Second
                 /\ retiredTtl' = [retiredTtl EXCEPT ![h] = EXPIRE(SecsKept(h, at))]
           /\ live[h].family_id = NoFamily => retiredTtl' = retiredTtl
           /\ EXPIRE(SecsKept(h, at)) \in Nat
           /\ live' \in [Hash -> Session \cup {None}]
           /\ \A k \in Hash : live'[k] = IF k = h2 THEN Replacement(h, f) ELSE IF k = h THEN None ELSE live[k]
           /\ live[h].family_id # NoFamily => /\ retired' = [retired EXCEPT ![h] = RecordOf(h, h2, at)]
                                              /\ written' = [written EXCEPT ![h] = RecordOf(h, h2, at)]
           /\ live[h].family_id = NoFamily => retired' = retired /\ written' = written
           /\ minted' = minted \cup {h2} /\ families' = families \cup {f}
           /\ UNCHANGED <<now, counter, call, begun, sentenced>>
<1>0. RowsTyped /\ RowsMinted /\ live[h] # None /\ ~Storing(h) /\ h2 \in Hash /\ h2 \notin minted
    BY DEF ValkeyIInv, IndexInv, RotateAt, FreshHash
<1>1. live[h] \in Session /\ h \in minted /\ h # h2 /\ written[h] = None /\ retired[h] = None
    BY <1>0 DEF RowsTyped, RowsMinted
<1>2. live[h2] = None /\ written[h2] = None /\ retired[h2] = None /\ ~Storing(h2)
    BY <1>0, StoreNames DEF RowsMinted
<1>3. /\ live[h].family_id # NoFamily => f = live[h].family_id
      /\ live[h].family_id = NoFamily => f \notin families
    BY DEF RotateAt, FreshFamily
<1>4. /\ Replacement(h, f) \in Session /\ Replacement(h, f).user_id = live[h].user_id
      /\ Replacement(h, f).family_id = f /\ Replacement(h, f).expires_at = live[h].expires_at
    BY <1>0, ReplacementOf
<1>d. PICK d : d = retention_deadline(at, live[h].expires_at)
    OBVIOUS
<1>e. d \in Nat /\ d <= live[h].expires_at /\ d < EXPIRE(SecsKept(h, at)) + Second /\ EXPIRE(SecsKept(h, at)) \in Nat
    BY <1>0, <1>d, RotationTtls DEF RotateAt
<1>5. ASSUME live[h].family_id # NoFamily
      PROVE  /\ RecordOf(h, h2, at) \in RetiredRefreshToken /\ RecordOf(h, h2, at).family_id = f
             /\ RecordOf(h, h2, at).expires_at = d
    <2>1. live[h].family_id = f /\ live[h].user_id \in User /\ at \in Nat
        BY <1>0, <1>1, <1>3, <1>5 DEF RowsTyped, Session, Readings
    <2>2. PICK v \in User : v = live[h].user_id
        BY <2>1
    <2>3. RecordOf(h, h2, at) = [family_id |-> f, user_id |-> v, successor_hash |-> h2, retired_at |-> at, expires_at |-> d]
        BY <1>d, <2>1, <2>2 DEF RecordOf
    <2> QED
        BY <1>0, <1>e, <2>1, <2>3 DEF RetiredRefreshToken
<1>6. RotationScript(h, h2, Replacement(h, f), at, SecsLeft(h, first), SecsKept(h, at))
    BY DEF RotateAt
<1>7. /\ rotate_refresh_token(h, h2, Replacement(h, f), at) /\ UNCHANGED <<counter, call, begun, sentenced>>
      /\ live[h].family_id # NoFamily => retiredTtl' = [retiredTtl EXCEPT ![h] = EXPIRE(SecsKept(h, at))]
      /\ live[h].family_id = NoFamily => retiredTtl' = retiredTtl
    BY <1>6 DEF RotationScript
<1>8. /\ live' = [live EXCEPT ![h] = None, ![h2] = Replacement(h, f)]
      /\ minted' = minted \cup {h2} /\ families' = families \cup {f} /\ now' = now
    BY <1>4, <1>7 DEF rotate_refresh_token
<1>9. /\ live[h].family_id # NoFamily => /\ retired' = [retired EXCEPT ![h] = RecordOf(h, h2, at)]
                                         /\ written' = [written EXCEPT ![h] = RecordOf(h, h2, at)]
      /\ live[h].family_id = NoFamily => retired' = retired /\ written' = written
    BY <1>4, <1>7 DEF rotate_refresh_token, RecordOf
<1>10. /\ live' \in [Hash -> Session \cup {None}]
       /\ \A k \in Hash : live'[k] = IF k = h2 THEN Replacement(h, f) ELSE IF k = h THEN None ELSE live[k]
    BY <1>0, <1>1, <1>4, <1>8 DEF RowsTyped
<1> QED
    BY <1>0, <1>1, <1>2, <1>3, <1>4, <1>5, <1>7, <1>8, <1>9, <1>10, <1>e

\* ... to the user's set ...
UserSetMoved(h, h2, u, b) ==
    /\ userSet'[u] = (userSet[u] \ {h}) \cup {h2}
    /\ \A k \in userSet[u] : k # h => userTtl[u] <= userTtl'[u]
    /\ (\A k \in userSet[u] : k = h) => userTtl'[u] = b

\* ... and to both.
LEMMA RotationSets ==
    ASSUME ValkeyIInv, NEW h \in Hash, NEW h2 \in FreshHash, NEW f \in Family, NEW first \in Readings, NEW at \in Readings,
           RotateAt(h, h2, f, first, at), NEW u, u = live[h].user_id, NEW e, e = live[h].expires_at, NEW b, b = EXPIRE(SecsLeft(h, first))
    PROVE  /\ u \in User /\ e \in Nat
           /\ userSet' \in [User -> SUBSET Hash] /\ familySet' \in [Family -> SUBSET Hash]
           /\ \A v \in User : v # u => userSet'[v] = userSet[v]
           /\ UserSetMoved(h, h2, u, b)
           /\ \A g \in Family : g # f => familySet'[g] = familySet[g]
           /\ \A k : k \in familySet'[f] <=> \/ k \in familySet[f] \/ k = h2
                                              \/ (k = h /\ live[h].family_id # NoFamily)
           /\ userTtl' \in [User -> Nat] /\ familyTtl' \in [Family -> Nat]
           /\ \A v \in User : v # u => userTtl[v] <= userTtl'[v]
           /\ \A g \in Family : g # f => familyTtl'[g] = familyTtl[g]
           /\ familySet[f] # {} => familyTtl[f] <= familyTtl'[f]
           /\ familySet[f] = {} => familyTtl'[f] = b
           /\ b \in Nat /\ e < b + Second /\ now + Second <= b
<1>0. RowsTyped /\ SetsTyped /\ h2 \in Hash
    BY DEF ValkeyIInv, IndexInv, FreshHash
<1>1. PICK row : row = Replacement(h, f)
    OBVIOUS
<1>2. live[h] \in Session /\ row.user_id = u /\ row.family_id = f /\ row.expires_at = e
    BY <1>1, RotationFacts
<1>3. u \in User /\ e \in Nat
    BY <1>2 DEF Session
<1>s. PICK secs : secs = SecsLeft(h, first)
    OBVIOUS
<1>4. RotationScript(h, h2, row, at, secs, SecsKept(h, at))
    BY <1>1, <1>s DEF RotateAt
<1>t. /\ secs \in Nat \ {0} /\ now \in Nat /\ b = EXPIRE(secs) /\ b \in Nat /\ e < b + Second /\ now + Second <= b
    <2>1. secs \in Nat \ {0} /\ now \in Nat /\ b = EXPIRE(secs) /\ b \in Nat /\ e < b + Second
        BY <1>0, <1>s, RotationTtls DEF RotateAt, RowsTyped
    <2> QED
        BY <2>1, BumpTtl
<1>5. PICK U, F : U = userSet[u] \ {h} /\ F = (IF live[h].family_id # NoFamily THEN {h} ELSE {})
    OBVIOUS
<1>6. PICK a, y : a = bump_ttl(U, userTtl[u], secs) /\ y = bump_ttl(familySet[f], familyTtl[f], secs)
    OBVIOUS
<1>7. /\ a \in Nat /\ (U = {} => a = b) /\ (U # {} => userTtl[u] <= a)
      /\ y \in Nat /\ (familySet[f] = {} => y = b) /\ (familySet[f] # {} => familyTtl[f] <= y)
    <2>1. userTtl[u] \in Nat /\ familyTtl[f] \in Nat
        BY <1>0, <1>3 DEF SetsTyped
    <2> QED
        BY <1>t, <1>6, <2>1, BumpTtl
<1>8. /\ userSet' = [userSet EXCEPT ![u] = U \cup {h2}]
      /\ userTtl' = [userTtl EXCEPT ![u] = a]
    BY <1>2, <1>4, <1>5, <1>6 DEF RotationScript
<1>9. /\ familySet' = [familySet EXCEPT ![f] = familySet[f] \cup {h2} \cup F]
      /\ familyTtl' = [familyTtl EXCEPT ![f] = y]
    BY <1>2, <1>4, <1>5, <1>6 DEF RotationScript
<1>10. U \in SUBSET Hash /\ F \in SUBSET Hash
    BY <1>0, <1>3, <1>5 DEF SetsTyped
<1>11. /\ userSet' \in [User -> SUBSET Hash] /\ familySet' \in [Family -> SUBSET Hash]
       /\ userTtl' \in [User -> Nat] /\ familyTtl' \in [Family -> Nat]
    BY <1>0, <1>7, <1>8, <1>9, <1>10 DEF SetsTyped
<1>12. /\ \A v \in User : v # u => userSet'[v] = userSet[v]
       /\ userSet'[u] = U \cup {h2}
       /\ \A g \in Family : g # f => familySet'[g] = familySet[g]
       /\ familySet'[f] = familySet[f] \cup {h2} \cup F
    BY <1>0, <1>3, <1>8, <1>9 DEF SetsTyped
<1>13. /\ \A v \in User : v # u \/ U # {} => userTtl[v] <= userTtl'[v]
       /\ \A k \in Family : k # f => familyTtl'[k] = familyTtl[k]
       /\ familySet[f] # {} => familyTtl[f] <= familyTtl'[f]
       /\ U = {} => userTtl'[u] = b
       /\ familySet[f] = {} => familyTtl'[f] = b
    BY <1>0, <1>3, <1>7, <1>8, <1>9 DEF SetsTyped
<1>14. \A k : k \in familySet'[f] <=> k \in familySet[f] \/ k = h2 \/ (k = h /\ live[h].family_id # NoFamily)
    BY <1>5, <1>12
<1>15. U = userSet[u] \ {h}
    BY <1>5
<1>16. userSet'[u] = (userSet[u] \ {h}) \cup {h2}
    BY <1>12, <1>15
<1>17. /\ \A v \in User : v # u => userTtl[v] <= userTtl'[v]
       /\ \A k \in userSet[u] : k # h => userTtl[u] <= userTtl'[u]
    BY <1>3, <1>13, <1>15
<1>18. (\A k \in userSet[u] : k = h) => userTtl'[u] = b
    BY <1>13, <1>15
<1>19. UserSetMoved(h, h2, u, b)
    BY <1>16, <1>17, <1>18 DEF UserSetMoved
<1> QED
    BY <1>3, <1>11, <1>12, <1>13, <1>14, <1>17, <1>19, <1>t

LEMMA StepRotate ==
    ASSUME ValkeyIInv, NEW h \in Hash, NEW h2 \in FreshHash, NEW f \in Family, RotateRefreshToken(h, h2, f)
    PROVE  ValkeyIInv'
<1>0. /\ call \in [Call -> CallRecord] /\ SetsTyped /\ RowsTyped /\ RowsMinted /\ MembersBelong /\ FamilyIndexComplete
      /\ FamilyOutlives /\ UserFiled /\ RecordsOutlive /\ RecordsKept /\ StoresDiffer /\ CounterCovers
    BY DEF ValkeyIInv, CallsInv, IndexInv
<1>a. PICK first \in Readings, at \in Readings : RotateAt(h, h2, f, first, at)
    BY RotationAt
<1>1. PICK row, rec, z : row = Replacement(h, f) /\ rec = RecordOf(h, h2, at) /\ z = EXPIRE(SecsKept(h, at))
    OBVIOUS
<1>2. PICK kept \in BOOLEAN : kept <=> live[h].family_id # NoFamily
    OBVIOUS
<1>3. PICK u, e, b : u = live[h].user_id /\ e = live[h].expires_at /\ b = EXPIRE(SecsLeft(h, first))
    OBVIOUS
<1>4. /\ live[h] \in Session /\ ~Storing(h) /\ h \in minted /\ h2 \in Hash /\ h2 \notin minted /\ h # h2
      /\ written[h] = None /\ retired[h] = None
      /\ live[h2] = None /\ written[h2] = None /\ retired[h2] = None /\ ~Storing(h2)
    BY <1>a, RotationFacts
<1>5. /\ kept => f = live[h].family_id
      /\ ~kept => f \notin families
      /\ row \in Session /\ row # None /\ row.user_id = u /\ row.family_id = f /\ row.expires_at = e
      /\ kept => rec \in RetiredRefreshToken /\ rec.family_id = f /\ rec.expires_at <= e /\ rec.expires_at < z + Second
      /\ z \in Nat
      /\ kept => retiredTtl' = [retiredTtl EXCEPT ![h] = z]
      /\ ~kept => retiredTtl' = retiredTtl
    BY <1>a, <1>1, <1>2, <1>3, RotationFacts, PortAssumption
<1>6. /\ live' \in [Hash -> Session \cup {None}]
      /\ \A k \in Hash : live'[k] = IF k = h2 THEN row ELSE IF k = h THEN None ELSE live[k]
      /\ kept => retired' = [retired EXCEPT ![h] = rec] /\ written' = [written EXCEPT ![h] = rec]
      /\ ~kept => retired' = retired /\ written' = written
      /\ minted' = minted \cup {h2} /\ families' = families \cup {f}
      /\ UNCHANGED <<now, counter, call, begun, sentenced>>
    BY <1>a, <1>1, <1>2, RotationFacts
<1>7. /\ retired' \in [Hash -> RetiredRefreshToken \cup {None}] /\ written' \in [Hash -> RetiredRefreshToken \cup {None}]
      /\ \A k \in Hash : k # h => retired'[k] = retired[k] /\ written'[k] = written[k]
      /\ kept => retired'[h] = rec /\ written'[h] = rec
      /\ ~kept => retired'[h] = None /\ written'[h] = None
    BY <1>0, <1>4, <1>5, <1>6 DEF RowsTyped
<1>8. (\A k : Storing(k)' <=> Storing(k)) /\ (\A g : Addressable(g)' <=> Addressable(g))
    BY <1>6 DEF Storing, Addressable
<1>10. row.expires_at = e /\ row.user_id = u /\ u \in User /\ e \in Nat
    BY <1>3, <1>4, <1>5 DEF Session
<1>m. UserSetMoved(h, h2, u, b)
    BY <1>a, <1>3, RotationSets
<1>11. /\ userSet' \in [User -> SUBSET Hash] /\ familySet' \in [Family -> SUBSET Hash]
       /\ \A v \in User : v # u => userSet'[v] = userSet[v]
       /\ userSet'[u] = (userSet[u] \ {h}) \cup {h2}
       /\ \A g \in Family : g # f => familySet'[g] = familySet[g]
       /\ \A k : k \in familySet'[f] <=> k \in familySet[f] \/ k = h2 \/ (k = h /\ kept)
    <2>1. userSet' \in [User -> SUBSET Hash] /\ familySet' \in [Family -> SUBSET Hash]
        BY <1>a, <1>3, RotationSets
    <2>2. \A v \in User : v # u => userSet'[v] = userSet[v]
        BY <1>a, <1>3, RotationSets
    <2>3. userSet'[u] = (userSet[u] \ {h}) \cup {h2}
        BY <1>m DEF UserSetMoved
    <2>4. \A g \in Family : g # f => familySet'[g] = familySet[g]
        BY <1>a, <1>3, RotationSets
    <2>5. \A k : k \in familySet'[f] <=> k \in familySet[f] \/ k = h2 \/ (k = h /\ live[h].family_id # NoFamily)
        BY <1>a, <1>3, RotationSets
    <2> QED
        BY <1>2, <2>1, <2>2, <2>3, <2>4, <2>5
<1>12. /\ userTtl' \in [User -> Nat] /\ familyTtl' \in [Family -> Nat]
       /\ \A v \in User : v # u \/ (\E k \in userSet[u] : k # h) => userTtl[v] <= userTtl'[v]
       /\ \A g \in Family : g # f => familyTtl'[g] = familyTtl[g]
       /\ familySet[f] # {} => familyTtl[f] <= familyTtl'[f]
       /\ (\A k \in userSet[u] : k = h) => userTtl'[u] = b
       /\ familySet[f] = {} => familyTtl'[f] = b
       /\ b \in Nat /\ e < b + Second /\ now + Second <= b
    <2>1. userTtl' \in [User -> Nat] /\ familyTtl' \in [Family -> Nat]
        BY <1>a, <1>3, RotationSets
    <2>2. \A v \in User : v # u \/ (\E k \in userSet[u] : k # h) => userTtl[v] <= userTtl'[v]
        <3>1. \A v \in User : v # u => userTtl[v] <= userTtl'[v]
            BY <1>a, <1>3, RotationSets
        <3>2. \A k \in userSet[u] : k # h => userTtl[u] <= userTtl'[u]
            BY <1>m DEF UserSetMoved
        <3> QED
            BY <3>1, <3>2
    <2>3. \A g \in Family : g # f => familyTtl'[g] = familyTtl[g]
        BY <1>a, <1>3, RotationSets
    <2>4. familySet[f] # {} => familyTtl[f] <= familyTtl'[f]
        BY <1>a, <1>3, RotationSets
    <2>5. (\A k \in userSet[u] : k = h) => userTtl'[u] = b
        BY <1>m DEF UserSetMoved
    <2>6. familySet[f] = {} => familyTtl'[f] = b
        BY <1>a, <1>3, RotationSets
    <2>7. b \in Nat /\ e < b + Second /\ now + Second <= b
        BY <1>a, <1>3, RotationSets
    <2> QED
        BY <2>1, <2>2, <2>3, <2>4, <2>5, <2>6, <2>7
<1>z. /\ now \in Nat /\ Second \in Nat \ {0} /\ retiredTtl' \in [Hash -> Nat]
      /\ \A k \in Hash : k # h => retiredTtl'[k] = retiredTtl[k]
      /\ kept => retiredTtl'[h] = z
    BY <1>0, <1>5, ValkeyAssumption DEF RowsTyped, SetsTyped
<1>13. Forward
    <2>1. \A k \in minted : /\ live[k] = None => live'[k] = None
                            /\ Dead(k) => Dead(k)'
        <3> SUFFICES ASSUME NEW k \in minted
                     PROVE  (live[k] = None => live'[k] = None) /\ (Dead(k) => Dead(k)')
            OBVIOUS
        <3>1. live[h] # None /\ k \in Hash /\ k # h2
            BY <1>0, <1>4, PortAssumption DEF RowsTyped
        <3>2. live[k] = None => live'[k] = None /\ k # h
            BY <1>6, <3>1
        <3> QED
            BY <1>6, <1>7, <3>1, <3>2 DEF Dead
    <2>2. ASSUME NEW k \in minted, NEW g \in Family, Belongs(k, g)
          PROVE  Belongs(k, g)'
        <3>1. CASE k = h
            <4>1. live'[h] = None /\ live[h].family_id = g
                BY <1>4, <1>6, <2>2, <3>1, PortAssumption DEF Belongs
            <4> QED
                BY <1>4, <1>5, <1>6, <1>7, <1>8, <3>1, <4>1 DEF Belongs
        <3>2. CASE k # h
            BY <1>0, <1>4, <1>6, <1>7, <1>8, <2>2, <3>2 DEF Belongs, RowsTyped
        <3> QED
            BY <3>1, <3>2
    <2>3. ASSUME NEW g \in families, FamilySpent(g)
          PROVE  FamilySpent(g)'
        <3>1. CASE f # g
            BY <1>4, <1>5, <1>6, <1>7, <2>3, <3>1 DEF FamilySpent
        <3>2. CASE f = g
            <4>1. kept /\ live[h] # None /\ live[h].family_id = g
                BY <1>4, <1>5, <2>3, <3>2, PortAssumption
            <4>2. e < now + Second /\ rec.expires_at \in Nat /\ e \in Nat
                BY <1>3, <1>5, <1>10, <2>3, <4>1 DEF FamilySpent, RetiredRefreshToken
            <4>3. rec.expires_at < now + Second
                BY <1>5, <1>z, <4>1, <4>2
            <4> QED
                BY <1>4, <1>5, <1>6, <1>7, <2>3, <4>1, <4>2, <4>3 DEF FamilySpent
        <3> QED
            BY <3>1, <3>2
    <2> QED
        BY <1>6, <1>8, <2>1, <2>2, <2>3 DEF Forward
<1>14. \A k \in Hash : k # h2 /\ live'[k] # None => live'[k] = live[k] /\ k # h /\ live[k] # None
    BY <1>6
<1>15. IndexInv'
    <2>1. RowsTyped'
        <3>1. Lives' \in SUBSET (Lives \cup {h2})
            BY <1>6 DEF Lives
        <3>2. IsFiniteSet(Lives \cup {h2})
            BY <1>0, FS_AddElement DEF RowsTyped
        <3>3. IsFiniteSet(Lives')
            BY <3>1, <3>2, FS_Subset
        <3> QED
            BY <1>0, <1>4, <1>6, <1>7, <3>3 DEF RowsTyped
    <2>2. SetsTyped'
        BY <1>0, <1>6, <1>11, <1>12, <1>z DEF SetsTyped
    <2>3. RowsMinted'
        <3> SUFFICES ASSUME NEW k \in Hash
                     PROVE  /\ live'[k] # None => k \in minted' /\ live'[k].family_id \in families' \cup {NoFamily}
                            /\ retired'[k] # None => retired'[k] = written'[k]
                            /\ written'[k] # None => k \in minted' /\ live'[k] = None /\ written'[k].family_id \in families'
            BY DEF RowsMinted
        <3>1. CASE k = h2
            BY <1>4, <1>5, <1>6, <1>7, <3>1
        <3>2. CASE k = h
            BY <1>4, <1>5, <1>6, <1>7, <3>2
        <3>3. CASE k # h /\ k # h2
            BY <1>0, <1>6, <1>7, <3>3 DEF RowsMinted
        <3> QED
            BY <3>1, <3>2, <3>3
    <2>4. MembersBelong'
        <3> SUFFICES ASSUME NEW g \in Family, NEW k \in familySet'[g]
                     PROVE  g \in families' /\ Belongs(k, g)'
            BY DEF MembersBelong
        <3>1. CASE k \in familySet[g]
            <4>1. g \in families /\ Belongs(k, g) /\ k \in minted
                BY <1>0, <3>1 DEF MembersBelong, Belongs
            <4> QED
                BY <1>13, <4>1 DEF Forward
        <3>2. CASE k \notin familySet[g]
            <4>1. g = f /\ (k = h2 \/ (kept /\ k = h)) /\ f \in families'
                BY <1>6, <1>11, <3>2
            <4>2. Belongs(h2, f)'
                BY <1>4, <1>5, <1>6, <1>7, <1>8 DEF Belongs
            <4>3. kept => Belongs(h, f)'
                BY <1>4, <1>5, <1>6, <1>7, <1>8 DEF Belongs
            <4> QED
                BY <4>1, <4>2, <4>3
        <3> QED
            BY <3>1, <3>2
    <2>5. \A g \in Family : familySet[g] \subseteq familySet'[g]
        BY <1>11
    <2>6. FamilyIndexComplete'
        <3> SUFFICES ASSUME NEW k \in Hash
                     PROVE  /\ /\ live'[k] # None /\ live'[k].family_id # NoFamily
                               /\ ~Storing(k) /\ now + Second <= live'[k].expires_at
                               => k \in familySet'[live'[k].family_id]
                            /\ retired'[k] # None /\ now + Second <= retired'[k].expires_at
                               => k \in familySet'[retired'[k].family_id]
            BY <1>6, <1>8 DEF FamilyIndexComplete
        <3>1. CASE k = h2
            BY <1>4, <1>5, <1>6, <1>7, <1>11, <3>1
        <3>2. CASE k = h
            BY <1>4, <1>5, <1>6, <1>7, <1>11, <3>2
        <3>3. CASE k # h /\ k # h2
            <4>1. live'[k] = live[k] /\ retired'[k] = retired[k]
                BY <1>6, <1>7, <3>3
            <4>2. /\ live[k] # None /\ live[k].family_id # NoFamily => live[k].family_id \in Family
                  /\ retired[k] # None => retired[k].family_id \in Family
                BY <1>0 DEF RowsTyped, Session, RetiredRefreshToken
            <4> QED
                BY <1>0, <2>5, <4>1, <4>2 DEF FamilyIndexComplete
        <3> QED
            BY <3>1, <3>2, <3>3
    <2>0. ASSUME NEW g \in Family, NEW x \in Nat, x < familyTtl[g] + Second,
                 familySet[g] = {} => x < now + Second
          PROVE  x < familyTtl'[g] + Second
        <3>1. familyTtl[g] \in Nat /\ familyTtl'[g] \in Nat
            BY <1>0, <1>12 DEF SetsTyped
        <3>2. CASE g # f \/ familySet[g] # {}
            <4>1. familyTtl[g] <= familyTtl'[g]
                BY <1>12, <3>1, <3>2
            <4> QED
                BY <1>z, <2>0, <3>1, <4>1
        <3>3. CASE g = f /\ familySet[g] = {}
            BY <1>12, <1>z, <2>0, <3>1, <3>3
        <3> QED
            BY <3>2, <3>3
    <2>e. e < familyTtl'[f] + Second
        <3>1. CASE kept
            <4>1. live[h] # None /\ live[h].family_id = f /\ f # NoFamily
                BY <1>4, <1>5, <3>1, PortAssumption
            <4>2. e < familyTtl[f] + Second
                BY <1>0, <1>3, <1>4, <4>1 DEF FamilyOutlives
            <4>3. familySet[f] = {} => e < now + Second
                BY <1>0, <1>3, <1>4, <1>10, <1>z, <4>1 DEF FamilyIndexComplete
            <4> QED
                BY <1>10, <2>0, <4>2, <4>3
        <3>2. CASE ~kept
            <4>1. familySet[f] = {}
                BY <1>0, <1>5, <3>2 DEF MembersBelong
            <4> QED
                BY <1>12, <4>1
        <3> QED
            BY <3>1, <3>2
    <2>7. FamilyOutlives'
        <3> SUFFICES ASSUME NEW k \in Hash
                     PROVE  /\ live'[k] # None /\ live'[k].family_id # NoFamily /\ ~Storing(k)
                               => live'[k].expires_at < familyTtl'[live'[k].family_id] + Second
                            /\ retired'[k] # None => retired'[k].expires_at < familyTtl'[retired'[k].family_id] + Second
            BY <1>8 DEF FamilyOutlives
        <3>1. CASE k = h2
            BY <1>4, <1>5, <1>6, <1>7, <1>10, <2>e, <3>1
        <3>2. CASE k = h
            <4>1. live'[k] = None
                BY <1>4, <1>6, <3>2
            <4>2. ASSUME retired'[k] # None
                  PROVE  retired'[k].expires_at < familyTtl'[retired'[k].family_id] + Second
                <5>1. kept /\ retired'[k] = rec
                    BY <1>7, <3>2, <4>2
                <5>2. rec.expires_at \in Nat /\ familyTtl'[f] \in Nat /\ e \in Nat
                    BY <1>5, <1>10, <1>12, <5>1 DEF RetiredRefreshToken
                <5>3. rec.expires_at <= e /\ rec.family_id = f
                    BY <1>5, <1>10, <1>12, <5>1
                <5>4. rec.expires_at < familyTtl'[f] + Second
                    BY <1>z, <2>e, <5>2, <5>3
                <5> QED
                    BY <5>1, <5>3, <5>4
            <4> QED
                BY <4>1, <4>2
        <3>3. CASE k # h /\ k # h2
            <4>1. live'[k] = live[k] /\ retired'[k] = retired[k]
                BY <1>6, <1>7, <3>3
            <4>2. ASSUME live[k] # None, live[k].family_id # NoFamily, ~Storing(k)
                  PROVE  live[k].expires_at < familyTtl'[live[k].family_id] + Second
                <5>1. live[k].family_id \in Family /\ live[k].expires_at \in Nat
                    BY <1>0, <4>2 DEF RowsTyped, Session
                <5>2. /\ live[k].expires_at < familyTtl[live[k].family_id] + Second
                      /\ familySet[live[k].family_id] = {} => live[k].expires_at < now + Second
                    BY <1>0, <1>z, <4>2, <5>1 DEF FamilyIndexComplete, FamilyOutlives
                <5> QED
                    BY <2>0, <5>1, <5>2
            <4>3. ASSUME retired[k] # None
                  PROVE  retired[k].expires_at < familyTtl'[retired[k].family_id] + Second
                <5>1. retired[k].family_id \in Family /\ retired[k].expires_at \in Nat
                    BY <1>0, <4>3 DEF RowsTyped, RetiredRefreshToken
                <5>2. /\ retired[k].expires_at < familyTtl[retired[k].family_id] + Second
                      /\ familySet[retired[k].family_id] = {} => retired[k].expires_at < now + Second
                    BY <1>0, <1>z, <4>3, <5>1 DEF FamilyIndexComplete, FamilyOutlives
                <5> QED
                    BY <2>0, <5>1, <5>2
            <4> QED
                BY <4>1, <4>2, <4>3
        <3> QED
            BY <3>1, <3>2, <3>3
    <2>8. UserFiled'
        <3> SUFFICES ASSUME begun["user"] = 0, begun["cleanup"] = 0, NEW k \in Hash, live'[k] # None
                     PROVE  Filed(k)'
            BY <1>6 DEF UserFiled
        <3>0. live[h] # None /\ Filed(h)
            BY <1>0, <1>4, PortAssumption DEF UserFiled
        <3>1. CASE k = h2
            <4>1. userTtl[u] \in Nat /\ userTtl'[u] \in Nat
                BY <1>0, <1>10, <1>12 DEF SetsTyped
            <4>2. e < userTtl'[u] + Second
                <5>1. CASE \A x \in userSet[u] : x = h
                    BY <1>12, <5>1
                <5>2. CASE \E x \in userSet[u] : x # h
                    <6>1. userTtl[u] <= userTtl'[u] /\ e < userTtl[u] + Second
                        BY <1>3, <1>10, <1>12, <3>0, <5>2 DEF Filed
                    <6> QED
                        BY <1>10, <1>z, <4>1, <6>1
                <5> QED
                    BY <5>1, <5>2
            <4>3. live'[k] = row /\ h2 \in userSet'[u]
                BY <1>6, <1>11, <3>1
            <4> QED
                BY <1>10, <3>1, <4>2, <4>3 DEF Filed
        <3>2. CASE k # h2
            <4>1. PICK v : v = live[k].user_id
                OBVIOUS
            <4>2. live'[k] = live[k] /\ k # h /\ live[k] # None
                BY <1>14, <3>2
            <4>3. v \in User /\ live[k].expires_at \in Nat /\ Filed(k)
                BY <1>0, <4>1, <4>2 DEF RowsTyped, Session, UserFiled
            <4>4. k \in userSet[v] => k \in userSet'[v]
                BY <1>11, <4>2, <4>3
            <4>5. userTtl[v] \in Nat /\ userTtl'[v] \in Nat
                BY <1>0, <1>12, <4>3 DEF SetsTyped
            <4>6. live[k].expires_at < userTtl'[v] + Second
                <5>1. CASE v # u \/ (\E x \in userSet[u] : x # h)
                    <6>1. userTtl[v] <= userTtl'[v] /\ live[k].expires_at < userTtl[v] + Second
                        BY <1>12, <4>1, <4>3, <5>1 DEF Filed
                    <6> QED
                        BY <1>z, <4>3, <4>5, <6>1
                <5>2. CASE v = u /\ \A x \in userSet[u] : x = h
                    <6>1. k \notin userSet[v] /\ userTtl'[v] = b
                        BY <1>12, <4>2, <5>2
                    <6>2. live[k].expires_at < now + Second
                        BY <1>z, <4>1, <4>3, <6>1 DEF Filed
                    <6> QED
                        BY <1>12, <1>z, <4>3, <6>1, <6>2
                <5> QED
                    BY <5>1, <5>2
            <4> QED
                BY <1>6, <4>1, <4>2, <4>3, <4>4, <4>6 DEF Filed
        <3> QED
            BY <3>1, <3>2
    <2>9. RecordsKept'
        <3> SUFFICES ASSUME NEW k \in Hash, written'[k] # None, now + Second <= written'[k].expires_at,
                            written'[k].family_id \notin sentenced, written'[k].user_id \notin sentenced
                     PROVE  retired'[k] = written'[k]
            BY <1>6 DEF RecordsKept
        <3>1. CASE k = h
            BY <1>7, <3>1
        <3>2. CASE k # h
            BY <1>0, <1>7, <3>2 DEF RecordsKept
        <3> QED
            BY <3>1, <3>2
    <2>10. RecordsOutlive'
        <3> SUFFICES ASSUME NEW k \in Hash, retired'[k] # None
                     PROVE  retired'[k].expires_at < retiredTtl'[k] + Second
            BY DEF RecordsOutlive
        <3>1. CASE k = h
            BY <1>5, <1>7, <1>z, <3>1
        <3>2. CASE k # h
            BY <1>0, <1>7, <1>z, <3>2 DEF RecordsOutlive
        <3> QED
            BY <3>1, <3>2
    <2> QED
        BY <2>1, <2>2, <2>3, <2>4, <2>6, <2>7, <2>8, <2>9, <2>10 DEF IndexInv
<1>16. CallsInv'
    <2>1. ASSUME NEW q \in Call
          PROVE  CallOf(call[q])' /\ (call'[q].pc = "pipeline" => StoreOf(call[q])')
        <3>1. PICK d : d = call[q]
            OBVIOUS
        <3>2. call'[q] = d
            BY <1>6, <3>1
        <3>3. CallOf(call[q])'
            BY <1>13, <3>1, <3>2, ForwardKeepsOther
        <3>4. ASSUME d.pc = "pipeline"
              PROVE  StoreOf(d)'
            <4>1. StoreOf(d) /\ d.of \in families /\ d.of \in Family /\ d.cur \in Hash /\ d.cur \in minted
                BY <1>0, <3>1, <3>4, StoreNames DEF StoreOf, RowsTyped
            <4>2. d.cur # h /\ d.cur # h2
                BY <1>4, <3>1, <3>4, <4>1 DEF Storing
            <4>3. d.of # f
                <5>1. CASE kept
                    <6>1. live[h] # None
                        BY <1>4, PortAssumption
                    <6> QED
                        BY <1>5, <4>1, <4>2, <5>1, <6>1 DEF StoreOf
                <5>2. CASE ~kept
                    BY <1>5, <4>1, <5>2
                <5> QED
                    BY <5>1, <5>2
            <4>4. familySet'[d.of] = {} /\ written'[d.cur] = None /\ live'[d.cur] = live[d.cur]
                BY <1>6, <1>7, <1>11, <4>1, <4>2, <4>3 DEF StoreOf
            <4>5. \A k \in Hash : live'[k] # None /\ live'[k].family_id = d.of => k = d.cur
                BY <1>5, <1>6, <4>1, <4>3 DEF StoreOf
            <4> QED
                BY <1>6, <4>1, <4>4, <4>5 DEF StoreOf, EXPIRE
        <3> QED
            BY <3>2, <3>3, <3>4
    <2> QED
        BY <1>0, <1>6, <2>1 DEF CallsInv, StoresDiffer
<1>17. CounterCovers'
    <2>1. Owed' = Owed
        BY <1>6, OwedSame
    <2>2. IsFiniteSet(Settled)
        BY <1>0, SettledFinite
    <2>3. h \in Settled
        <3>1. live[h] # None
            BY <1>4, PortAssumption
        <3> QED
            BY <1>4, <3>1 DEF Settled
    <2> DEFINE S == Settled \ {h}
    <2>4. IsFiniteSet(S) /\ Cardinality(S) = Cardinality(Settled) - 1
        BY <2>2, <2>3, FS_RemoveElement
    <2>5. Settled' \in SUBSET (S \cup {h2})
        BY <1>6, <1>8 DEF Settled
    <2> HIDE DEF S
    <2> DEFINE T == S \cup {h2}
    <2>6. IsFiniteSet(T) /\ Cardinality(T) = IF h2 \in S THEN Cardinality(S) ELSE Cardinality(S) + 1
        BY <2>4, FS_AddElement
    <2>7. Settled' \in SUBSET T
        BY <2>5
    <2> HIDE DEF T
    <2>8. IsFiniteSet(Settled') /\ Cardinality(Settled') <= Cardinality(T)
        BY <2>6, <2>7, FS_Subset
    <2>9. Cardinality(Settled) \in Nat /\ Cardinality(Settled') \in Nat /\ Cardinality(S) \in Nat
        BY <2>2, <2>4, <2>8, FS_CardinalityType
    <2>10. Cardinality(Settled') <= Cardinality(Settled)
        BY <2>4, <2>6, <2>8, <2>9
    <2>11. IsFiniteSet(Owed) => Cardinality(Owed) \in Nat
        BY FS_CardinalityType
    <2>12. begun["user"] = 0 /\ begun["cleanup"] = 0 =>
              IsFiniteSet(Owed) /\ counter >= Cardinality(Settled') + Cardinality(Owed)
        BY <1>0, <2>9, <2>10, <2>11 DEF CounterCovers, SetsTyped
    <2> QED
        BY <1>6, <2>1, <2>12 DEF CounterCovers
<1> QED
    BY <1>15, <1>16, <1>17 DEF ValkeyIInv

-----------------------------------------------------------------------------
(* The theorems. *)

LEMMA ValkeyInitInv ==
    ASSUME ValkeyInit
    PROVE  ValkeyIInv
<1>0. /\ live \in [Hash -> {None} \cup {LegacyRow(u) : u \in User}]
      /\ \A h \in Hash : live[h] # None <=> h \in Legacy
      /\ retired = [h \in Hash |-> None] /\ written = [h \in Hash |-> None] /\ now = 0 /\ minted = Legacy
      /\ families = {}
      /\ userSet = [u \in User |-> {h \in Legacy : live[h].user_id = u}]
      /\ familySet = [f \in Family |-> {}] /\ userTtl = [u \in User |-> Second * num_seconds(Ttl)]
      /\ familyTtl = [f \in Family |-> 0] /\ retiredTtl = [h \in Hash |-> 0]
      /\ counter = Cardinality(Legacy) /\ call = [p \in Call |-> Done] /\ begun = [k \in Removal |-> 0]
      /\ Legacy \subseteq Hash /\ IsFiniteSet(Legacy) /\ Ttl \in Nat /\ NoFamily \notin Family
    BY PortAssumption, ValkeyAssumption DEF ValkeyInit, PortInit
<1>1. \A u \in User : /\ LegacyRow(u) \in Session /\ LegacyRow(u).user_id = u
                      /\ LegacyRow(u).family_id = NoFamily /\ LegacyRow(u).expires_at = Ttl
    BY <1>0 DEF LegacyRow, Session
<1>2. live \in [Hash -> Session \cup {None}]
    BY <1>0, <1>1
<1>3. \A h \in Hash : live[h] # None => /\ h \in Legacy /\ live[h].user_id \in User
                                        /\ live[h].family_id = NoFamily /\ live[h].expires_at = Ttl
    BY <1>0, <1>1
<1>4. \A p \in Call : call[p] = Done /\ call[p].pc = "done"
    BY <1>0, DoneIsRecord
<1>5. \A h : ~Storing(h)
    BY <1>4 DEF Storing
<1>6. Lives = Legacy /\ Settled = Legacy
    BY <1>0, <1>5 DEF Lives, Settled
<1>7. Owed = {}
    <2>1. \A p \in Call : Owes(call[p]) = 0
        BY <1>4, DoneIsRecord DEF Owes
    <2>2. \A x : x \in Owed <=> \E q \in Call : x \in {q} \X (1..Owes(call[q]))
        BY DEF Owed
    <2>3. \A x : x \notin Owed
        BY <2>1, <2>2
    <2> QED
        BY <2>3
<1>8. IndexInv
    <2>1. RowsTyped
        BY <1>0, <1>2, <1>6 DEF RowsTyped
    <2>a. Second * num_seconds(Ttl) \in Nat /\ Ttl < Second * num_seconds(Ttl) + Second
        <3>1. Second \in Nat \ {0}
            BY ValkeyAssumption
        <3>2. PICK n : n = Ttl \div Second
            OBVIOUS
        <3>3. n \in Nat /\ Second * n \in Nat /\ Ttl < Second * n + Second
            BY <1>0, <3>1, <3>2
        <3> QED
            BY <3>2, <3>3 DEF num_seconds
    <2>2. SetsTyped
        <3>1. Cardinality(Legacy) \in Nat
            BY <1>0, FS_CardinalityType
        <3> QED
            BY <1>0, <2>a, <3>1 DEF SetsTyped
    <2>3. RowsMinted
        BY <1>0, <1>3 DEF RowsMinted
    <2>4. MembersBelong /\ FamilyIndexComplete /\ FamilyOutlives /\ RecordsOutlive /\ RecordsKept
        BY <1>0, <1>3 DEF MembersBelong, FamilyIndexComplete, FamilyOutlives, RecordsOutlive, RecordsKept
    <2>5. UserFiled
        BY <1>0, <1>3, <2>a DEF UserFiled, Filed
    <2> QED
        BY <2>1, <2>2, <2>3, <2>4, <2>5 DEF IndexInv
<1>9. CallsInv
    <2>1. CallOf(Done)
        BY DoneIsRecord DEF CallOf, RevokeOf, CleanOf, Where, FamilyPc, UserPc, CleanPc
    <2> QED
        BY <1>0, <1>4, <2>1, DoneIsRecord DEF CallsInv, StoresDiffer
<1>10. CounterCovers
    <2>1. IsFiniteSet({}) /\ Cardinality({}) = 0 /\ Cardinality(Legacy) \in Nat
        BY <1>0, FS_EmptySet, FS_CardinalityType
    <2> QED
        BY <1>0, <1>6, <1>7, <2>1 DEF CounterCovers
<1> QED
    BY <1>8, <1>9, <1>10 DEF ValkeyIInv

LEMMA ValkeyNextInv ==
    ASSUME ValkeyIInv, [ValkeyNext]_valkeyVars
    PROVE  ValkeyIInv'
<1>1. ASSUME NEW p \in Call, Revocation(p)
      PROVE  ValkeyIInv'
    <2>1. ASSUME NEW h \in Hash, DeleteNothing(p, h)
          PROVE  ValkeyIInv'
        BY <2>1, StepDeleteNothing
    <2>2. CASE Decr(p) \/ Clamp(p)
        BY <2>2, StepCounter
    <2>3. CASE MembersDone(p) \/ CardFamily(p) \/ \E f \in families : ReadFamily(p, f)
        BY <2>3, StepQuietFamily
    <2>4. CASE ScanRecords(p) \/ RecordsDone(p) \/ \E u \in User : ReadUserSet(p, u)
        BY <2>4, StepQuietUser
    <2>5. CASE DeleteUserKeys(p) \/ UnfileSession(p) \/ UnfileMember(p) \/ UnfileRecord(p)
        BY <2>5, StepDeleteUserKeys, StepUnfileSession, StepUnfileMember, StepUnfileRecord
    <2>6. CASE DropFamily(p) \/ DropUserSet(p)
        BY <2>6, StepDropFamily, StepUnfileUsers
    <2>7. CASE \E h \in Hash : DeleteSession(p, h) \/ DeleteMember(p, h) \/ DeleteRecord(p, h)
        BY <2>7, StepDeleteSession, StepDeleteMember, StepDeleteRecord
    <2> QED
        BY <1>1, <2>1, <2>2, <2>3, <2>4, <2>5, <2>6, <2>7 DEF Revocation
<1>2. ASSUME NEW p \in Call, Cleanup(p)
      PROVE  ValkeyIInv'
    <2>1. CASE \/ ScanUserSets(p) \/ \E u \in User : PruneUser(p, u)
               \/ ScanFamilySets(p) \/ \E f \in Family : PruneFamily(p, f)
               \/ ScanSessions(p) \/ GetCounter(p)
        BY <2>1, StepQuietCleanup
    <2>2. CASE SremUser(p) \/ DropUser(p)
        BY <2>2, StepUnfileUsers
    <2>3. CASE SremFamily(p) \/ DropEmptyFamily(p)
        BY <2>3, StepSremFamily, StepDropFamily
    <2>4. CASE SetCounter(p)
        BY <2>4, StepCounter
    <2> QED
        BY <1>2, <2>1, <2>2, <2>3, <2>4 DEF Cleanup
<1>3. ASSUME NEW p \in Call, Abandon(p) \/ StoreFamilyKey(p)
      PROVE  ValkeyIInv'
    BY <1>3, StepQuietCleanup, StepStoreFamilyKey
<1>4. ASSUME NEW p \in Call, NEW h \in FreshHash, NEW f \in FreshFamily, NEW u \in User, StoreSessionKey(p, h, f, u)
      PROVE  ValkeyIInv'
    BY <1>4, StepStoreSessionKey
<1>5. ASSUME NEW h \in Hash, NEW h2 \in FreshHash, NEW f \in Family, RotateRefreshToken(h, h2, f)
      PROVE  ValkeyIInv'
    BY <1>5, StepRotate
<1>6. CASE Expire
    BY <1>6, StepExpire
<1>7. CASE UNCHANGED valkeyVars
    BY <1>7, ValkeyStutterInv
<1> QED
    BY <1>1, <1>2, <1>3, <1>4, <1>5, <1>6, <1>7 DEF ValkeyNext

\* However the commands of the calls interleave, fail and expire: what the store holds is what the
\* index sets say, what a call has found out still holds when it acts on it, and the counter covers
\* the live sessions and what is still to be taken off it.
THEOREM ValkeyInvariant == ValkeySpec => []ValkeyIInv
<1>1. ValkeyInit => ValkeyIInv
    BY ValkeyInitInv
<1>2. ValkeyIInv /\ [ValkeyNext]_valkeyVars => ValkeyIInv'
    BY ValkeyNextInv
<1> QED
    BY <1>1, <1>2, PTL DEF ValkeySpec

\* revoke_family finds every live generation and every record of the family it is given that has a
\* second or more to its deadline.
THEOREM ValkeyFamilyIndexComplete == ValkeySpec => []FamilyIndexComplete
<1>1. ValkeyIInv => FamilyIndexComplete
    BY DEF ValkeyIInv, IndexInv
<1> QED
    BY <1>1, ValkeyInvariant, PTL

\* A superseded token is recognised as such for its retention window, the last second aside, unless
\* somebody has begun to revoke its family or its user's sessions.
THEOREM ValkeyReuseDetectable == ValkeySpec => []ReuseDetectableUnlessRevoked
<1>1. ASSUME ValkeyIInv
      PROVE  ReuseDetectableUnlessRevoked
    <2> SUFFICES ASSUME NEW h \in Hash, written[h] # None, now + Second <= written[h].expires_at,
                        written[h].family_id \notin sentenced, written[h].user_id \notin sentenced
                 PROVE  /\ get_retired_record(h) = written[h]
                        /\ resolve_refresh_token_valkey(h) \in {"Superseded", "Retired"}
        BY DEF ReuseDetectableUnlessRevoked
    <2>1. retired[h] = written[h] /\ live[h] = None
        BY <1>1 DEF ValkeyIInv, IndexInv, RecordsKept, RowsMinted
    <2>2. written[h].expires_at \in Nat /\ now \in Nat /\ Second \in Nat \ {0}
        BY <1>1, ValkeyAssumption DEF ValkeyIInv, IndexInv, RowsTyped, RetiredRefreshToken
    <2>3. ~(written[h].expires_at <= now)
        BY <2>2
    <2>4. resolve_refresh_token_valkey(h) =
              IF live[retired[h].successor_hash] # None THEN "Superseded" ELSE "Retired"
        BY <2>1, <2>3 DEF resolve_refresh_token_valkey, get_retired_record, get_session_by_refresh_token
    <2> QED
        BY <2>1, <2>4 DEF get_retired_record
<1> QED
    BY <1>1, ValkeyInvariant, PTL

\* The listing of a user shows every session that can be redeemed for another second, as long as
\* nobody has begun to revoke all sessions of a user or to sweep.
THEOREM ValkeyUserIndexComplete == ValkeySpec => []UserIndexComplete
<1>1. ASSUME ValkeyIInv
      PROVE  UserIndexComplete
    <2> SUFFICES ASSUME begun["user"] = 0, begun["cleanup"] = 0, NEW u \in User,
                        NEW h \in list_live_sessions(u), now + Second <= live[h].expires_at
                 PROVE  h \in list_live_sessions_valkey(u)
        BY DEF UserIndexComplete
    <2>1. h \in Hash /\ live[h] # None /\ live[h].user_id = u /\ live[h].expires_at > now
        BY DEF list_live_sessions
    <2>2. h \in userSet[u]
        BY <1>1, <2>1 DEF ValkeyIInv, IndexInv, UserFiled, Filed
    <2> QED
        BY <2>1, <2>2 DEF list_live_sessions_valkey, get_session_by_refresh_token
<1> QED
    BY <1>1, ValkeyInvariant, PTL

\* With no call in flight the counter can be read and is no less than the number of live sessions,
\* unless somebody has begun to revoke all sessions of a user or to sweep.
THEOREM ValkeyCounterNeverBelowLive == ValkeySpec => []CounterNeverBelowLive
<1>1. ASSUME ValkeyIInv
      PROVE  CounterNeverBelowLive
    <2> SUFFICES ASSUME begun["user"] = 0, begun["cleanup"] = 0, \A p \in Call : call[p].pc = "done"
                 PROVE  /\ count_active_sessions # None
                        /\ count_active_sessions >= Cardinality({h \in Hash : live[h] # None})
        BY DEF CounterNeverBelowLive
    <2>1. IsFiniteSet(Owed) /\ counter >= Cardinality(Settled) + Cardinality(Owed) /\ counter \in Int /\ RowsTyped
        BY <1>1 DEF ValkeyIInv, CounterCovers, IndexInv, SetsTyped
    <2>2. Settled = {h \in Hash : live[h] # None}
        BY DEF Settled, Storing
    <2>3. Cardinality(Settled) \in Nat /\ Cardinality(Owed) \in Nat
        BY <2>1, SettledFinite, FS_CardinalityType
    <2>4. counter >= Cardinality(Settled) /\ counter \in Nat
        BY <2>1, <2>3
    <2>5. count_active_sessions = counter
        BY <2>4 DEF count_active_sessions
    <2> QED
        BY <2>2, <2>4, <2>5, ValkeyAssumption
<1> QED
    BY <1>1, ValkeyInvariant, PTL
=============================================================================
