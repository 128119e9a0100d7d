----------------------------- MODULE ContractProofs ----------------------------
(***************************************************************************)
(* Theorems about the two sides of the contract of SessionPort, for every  *)
(* value of the constants: the service that relies on it (TokenService,    *)
(* any number of concurrent requests, tokens, families and users) and the  *)
(* SQLite adapter that keeps it (any number of concurrent calls).          *)
(*                                                                         *)
(* The service: a row of the sessions table never changes while it exists  *)
(* and never comes back once it is gone, because a row is only ever        *)
(* installed under a new hash.  So what a request resolved earlier is, at  *)
(* its swap, either still exactly the live row or gone.                    *)
(* On top of that invariant: tokens retired or stored under another        *)
(* setting, a suspension against a refresh in flight, and a lost answer    *)
(* against its retry.                                                      *)
(*                                                                         *)
(* The adapter: each commit is one whole port call, every other step is    *)
(* invisible.  A transaction that is granted the write lock has a          *)
(* snapshot nobody has overtaken, so the row its SELECT read is still the  *)
(* live one (SnapshotHolds); from then until its commit it is the only     *)
(* writer (OneWriter).  And a row never changes while it exists, so the    *)
(* replacement the core minted when it called still fits (RotationFits).   *)
(***************************************************************************)
EXTENDS TokenService, SqliteSessions, SessionPortProofs

\* The requests in flight, as far as their steps depend on it.
RequestType ==
    /\ rotation \in BOOLEAN
    /\ status \in [User -> Status]
    /\ req \in [Client -> Request]
    /\ adm \in [Admin -> AdminRequest]
    /\ delivered \subseteq minted
    /\ arrived \in Nat
    /\ presented \in [Hash -> Nat]
    /\ wins \subseteq Hash \X Hash \X Hash
    /\ ended \subseteq Hash
    /\ alarmed \subseteq Family
    /\ unswept \subseteq User

\* What a request remembers of the store is true of the store for good: the
\* row it would consume is unchanged or gone, and a superseded token names the
\* one successor it ever had.
Remembers(r) ==
    /\ r.pc \in {"resolved", "gated", "rotated", "alarm"} =>
           /\ r.presented \in Hash
           /\ r.res \in Resolution
           /\ r.res.hash \in minted
    /\ r.pc \in {"resolved", "gated"} /\ r.res.session # None =>
           \/ live[r.res.hash] = None
           \/ live[r.res.hash] = r.res.session
    /\ r.pc \in {"resolved", "gated"} /\ r.res.kind \in {"Live", "Superseded"} =>
           /\ r.res.session # None
           /\ r.res.session.family_id \in families \cup {NoFamily}
    /\ r.pc \in {"resolved", "gated"} /\ r.res.kind = "Live" => r.res.hash = r.presented
    /\ r.pc \in {"resolved", "gated"} /\ r.res.kind = "Superseded" =>
           /\ written[r.presented] # None
           /\ written[r.presented].successor_hash = r.res.hash
    /\ r.pc \in {"resolved", "gated"} /\ r.res.kind \in {"Retired", "Superseded"} =>
           r.res.family_id \in families
    /\ r.pc = "gated" => r.res.kind \in {"Live", "Superseded"}
    /\ r.pc = "alarm" => r.res.family_id \in closed
    /\ r.pc \in {"rotated", "stored", "undo"} => r.fresh \in minted
    /\ r.pc = "admitted" => r.user \in User
    /\ r.pc = "logout" => r.presented \in Hash

OperatorRemembers(m) ==
    /\ m.pc = "write" => m.user \in User /\ m.target \in Status
    /\ m.pc = "revoke" => m.user \in User
    /\ m.pc = "revokeOne" => m.family \in families

\* The swaps so far: each consumed a row that is gone for good, and each was for
\* the presented token itself or for its one successor.
SwapsSound ==
    \A w \in wins :
        /\ w[2] \in minted
        /\ live[w[2]] = None
        /\ \/ w[2] = w[1]
           \/ written[w[1]] # None /\ written[w[1]].successor_hash = w[2]

IInv ==
    /\ PortIInv
    /\ RequestType
    /\ \A c \in Client : Remembers(req[c])
    /\ \A a \in Admin : OperatorRemembers(adm[a])
    /\ SwapsSound
    /\ RedeemedOnce
    /\ alarmed \subseteq closed

\* A request that does nothing keeps what it remembers true across any step of
\* the store.
LEMMA StillRemembers ==
    ASSUME PortIInv, Monotone, NEW r, Remembers(r)
    PROVE  Remembers(r)'
BY DEF Remembers, Monotone, Resolution

\* The same for an operator's request.
LEMMA StillOperatorRemembers ==
    ASSUME Monotone, NEW m, OperatorRemembers(m)
    PROVE  OperatorRemembers(m)'
BY DEF OperatorRemembers, Monotone

\* The swaps already made stay sound across any step of the store.
LEMMA StillSound == PortIInv /\ Monotone /\ SwapsSound /\ RequestType =>
    \A w \in wins :
        /\ w[2] \in minted'
        /\ live'[w[2]] = None
        /\ \/ w[2] = w[1]
           \/ written'[w[1]] # None /\ written'[w[1]].successor_hash = w[2]
BY DEF SwapsSound, Monotone, RequestType

\* A step that makes no swap keeps the invariant if it is a step of the store
\* and the requests it changed remember true things.
LEMMA StepFrame ==
    ASSUME IInv, [PortNext]_portVars, RequestType', UNCHANGED wins,
           alarmed' \subseteq closed',
           \A c \in Client : req'[c] = req[c] \/ Remembers(req[c])',
           \A a \in Admin : adm'[a] = adm[a] \/ OperatorRemembers(adm[a])'
    PROVE  IInv'
<1>1. PortIInv' /\ Monotone
    BY StepPort, StepMonotone DEF IInv
<1>2. \A c \in Client : Remembers(req[c])'
    <2>1. \A r : Remembers(r) => Remembers(r)'
        BY <1>1, StillRemembers DEF IInv
    <2> QED
        BY <2>1 DEF IInv
<1>3. \A a \in Admin : OperatorRemembers(adm[a])'
    <2>1. \A m : OperatorRemembers(m) => OperatorRemembers(m)'
        BY <1>1, StillOperatorRemembers
    <2> QED
        BY <2>1 DEF IInv
<1>4. SwapsSound' /\ RedeemedOnce'
    BY <1>1, StillSound DEF IInv, SwapsSound, RedeemedOnce
<1> QED
    BY <1>1, <1>2, <1>3, <1>4 DEF IInv

\* A client's step without a swap: only its own request changes.
LEMMA ClientFrame ==
    ASSUME IInv, [PortNext]_portVars, NEW c \in Client,
           req' = [req EXCEPT ![c] = req'[c]], req'[c] \in Request, Remembers(req[c])',
           UNCHANGED <<adminVars, rotation, wins>>,
           delivered' \subseteq minted', arrived' \in Nat, presented' \in [Hash -> Nat],
           ended' \subseteq Hash, alarmed' \subseteq closed'
    PROVE  IInv'
<1>1. closed' \subseteq Family
    BY StepPort DEF IInv, PortIInv, PortTypeOK
<1>2. RequestType'
    BY <1>1 DEF IInv, RequestType, adminVars
<1>3. \A d \in Client : req'[d] = req[d] \/ Remembers(req[d])'
    BY DEF IInv, RequestType
<1> QED
    BY <1>2, <1>3, StepFrame DEF adminVars

\* A request that is over remembers nothing.
LEMMA IdleSound == Idle \in Request /\ Idle.pc = "idle"
BY DEF Idle, Request

\* A client's step that ends its request and makes no swap.
LEMMA EndFrame ==
    ASSUME IInv, [PortNext]_portVars, NEW c \in Client, req' = [req EXCEPT ![c] = Idle],
           UNCHANGED <<adminVars, rotation, wins>>,
           delivered' \subseteq minted', arrived' \in Nat, presented' \in [Hash -> Nat],
           ended' \subseteq Hash, alarmed' \subseteq closed'
    PROVE  IInv'
<1>1. req'[c] = Idle
    BY DEF IInv, RequestType
<1>2. Remembers(req[c])'
    BY <1>1, IdleSound DEF Remembers
<1> QED
    BY <1>1, <1>2, IdleSound, ClientFrame

\* What resolve_refresh_token answers is true of the store.
LEMMA ResolveSound ==
    ASSUME PortIInv, NEW h \in minted, NEW r, r = resolve_refresh_token(h)
    PROVE  /\ r \in Resolution
           /\ r.hash \in minted
           /\ r.session # None => live[r.hash] = r.session
           /\ r.kind \in {"Live", "Superseded"} =>
                 /\ r.session # None
                 /\ r.session.family_id \in families \cup {NoFamily}
           /\ r.kind = "Live" => r.hash = h
           /\ r.kind = "Superseded" =>
                 /\ written[h] # None
                 /\ written[h].successor_hash = r.hash
           /\ r.kind \in {"Retired", "Superseded"} => r.family_id \in families
<1> USE DEF PortIInv
<1>0. h \in Hash /\ live[h] \in Session \cup {None} /\ retired[h] \in RetiredRefreshToken \cup {None}
      /\ now \in Nat
    BY DEF PortTypeOK
<1>1. CASE live[h] # None
    <2>1. r = [kind |-> "Live", hash |-> h, session |-> live[h],
               retired_at |-> now, family_id |-> live[h].family_id]
        BY <1>1 DEF resolve_refresh_token
    <2> QED
        BY <1>0, <1>1, <2>1 DEF Resolution, Session, HoldsMinted
<1>2. CASE live[h] = None /\ (retired[h] = None \/ retired[h].expires_at <= now)
    <2>1. r = [kind |-> "Unknown", hash |-> h, session |-> None,
               retired_at |-> now, family_id |-> NoFamily]
        BY <1>2 DEF resolve_refresh_token
    <2> QED
        BY <1>0, <1>2, <2>1 DEF Resolution
<1>3. CASE live[h] = None /\ ~(retired[h] = None \/ retired[h].expires_at <= now)
    <2> DEFINE k == retired[h].successor_hash
    <2>1. r = [kind |-> IF live[k] # None THEN "Superseded" ELSE "Retired",
               hash |-> k, session |-> live[k],
               retired_at |-> retired[h].retired_at, family_id |-> retired[h].family_id]
        BY <1>3 DEF resolve_refresh_token
    <2>2. k \in Hash /\ k \in minted /\ live[k] \in Session \cup {None}
        BY <1>0, <1>3 DEF RetiredIsNotLive, PortTypeOK
    <2>3. retired[h].retired_at \in Nat /\ retired[h].family_id \in Family
        BY <1>0, <1>3 DEF RetiredRefreshToken
    <2>4. written[h] = retired[h] /\ retired[h].family_id \in families
        BY <1>0, <1>3 DEF HoldsMinted
    <2>5. r \in Resolution
        BY <2>1, <2>2, <2>3 DEF Resolution
    <2> QED
        BY <1>3, <2>1, <2>2, <2>3, <2>4, <2>5 DEF HoldsMinted
<1> QED
    BY <1>1, <1>2, <1>3

\* The service starts in the invariant.
LEMMA InitService == Init => IInv
<1> SUFFICES ASSUME Init PROVE IInv
    OBVIOUS
<1>1. PortIInv
    BY InitPort DEF Init
<1>2. RequestType
    BY PortAssumption, ServiceAssumption, IdleSound
       DEF Init, PortInit, RequestType, Status, Quiet, AdminRequest
<1>3. \A c \in Client : Remembers(req[c])
    BY IdleSound DEF Init, Remembers
<1>4. \A a \in Admin : OperatorRemembers(adm[a])
    BY DEF Init, OperatorRemembers, Quiet
<1>5. SwapsSound /\ RedeemedOnce /\ alarmed \subseteq closed
    BY DEF Init, SwapsSound, RedeemedOnce
<1> QED
    BY <1>1, <1>2, <1>3, <1>4, <1>5 DEF IInv

\* A received request starts from what the store says.
LEMMA StepPresent ==
    ASSUME IInv, NEW c \in Client, NEW h \in Hash, Present(c, h)
    PROVE  IInv' /\ [PortNext]_portVars
<1> DEFINE r == resolve_refresh_token(h)
<1>1. h \in minted /\ PortIInv
    BY DEF Present, IInv, RequestType
<1>2. /\ r \in Resolution
      /\ r.hash \in minted
      /\ r.session # None => live[r.hash] = r.session
      /\ r.kind \in {"Live", "Superseded"} =>
            /\ r.session # None
            /\ r.session.family_id \in families \cup {NoFamily}
      /\ r.kind = "Live" => r.hash = h
      /\ r.kind = "Superseded" =>
            /\ written[h] # None
            /\ written[h].successor_hash = r.hash
      /\ r.kind \in {"Retired", "Superseded"} => r.family_id \in families
    BY <1>1, ResolveSound
<1>3. /\ req' = [req EXCEPT ![c] = [Idle EXCEPT !.pc = "resolved", !.presented = h, !.res = r]]
      /\ presented' = [presented EXCEPT ![h] = @ + 1]
      /\ arrived' = arrived + 1
      /\ UNCHANGED <<portVars, adminVars, rotation, delivered, wins, ended, alarmed>>
    BY DEF Present, Receive
<1> HIDE DEF r
<1>4. /\ req'[c] \in Request
      /\ req'[c].pc = "resolved" /\ req'[c].presented = h /\ req'[c].res = r
    BY <1>2, <1>3 DEF IInv, RequestType, Idle, Request
<1>5. Remembers(req[c])'
    BY <1>2, <1>3, <1>4 DEF Remembers, portVars
<1>6. presented' \in [Hash -> Nat] /\ arrived' \in Nat
    BY <1>3 DEF IInv, RequestType
<1>7. req' = [req EXCEPT ![c] = req'[c]]
    BY <1>3 DEF IInv, RequestType
<1>8. delivered' \subseteq minted' /\ ended' \subseteq Hash /\ alarmed' \subseteq closed'
    BY <1>3 DEF IInv, RequestType, portVars
<1>9. [PortNext]_portVars
    BY <1>3
<1> QED
    BY <1>3, <1>4, <1>5, <1>6, <1>7, <1>8, <1>9, ClientFrame

\* The other ways a request is received.
LEMMA StepReceive ==
    ASSUME IInv, NEW c \in Client,
           \/ \E h \in Hash : LookupForRevoke(c, h)
           \/ \E u \in User : Admit(c, u)
    PROVE  IInv' /\ [PortNext]_portVars
<1>1. UNCHANGED <<portVars, adminVars, rotation, delivered, presented, wins, ended, alarmed>>
    BY DEF LookupForRevoke, Admit
<1>2. \E r \in Request :
          /\ Receive(c, r)
          /\ \/ r.pc = "logout" /\ r.presented \in Hash
             \/ r.pc = "admitted" /\ r.user \in User
    <2>1. CASE \E h \in Hash : LookupForRevoke(c, h)
        <3>1. PICK h \in Hash : LookupForRevoke(c, h)
            BY <2>1
        <3> DEFINE r == [Idle EXCEPT !.pc = "logout", !.presented = h]
        <3>2. r \in Request /\ r.pc = "logout" /\ r.presented = h
            BY DEF Idle, Request
        <3> QED
            BY <3>1, <3>2 DEF LookupForRevoke
    <2>2. CASE \E u \in User : Admit(c, u)
        <3>1. PICK u \in User : Admit(c, u)
            BY <2>2
        <3> DEFINE r == [Idle EXCEPT !.pc = "admitted", !.user = u]
        <3>2. r \in Request /\ r.pc = "admitted" /\ r.user = u
            BY DEF Idle, Request
        <3> QED
            BY <3>1, <3>2 DEF Admit
    <2> QED
        BY <2>1, <2>2
<1> PICK r \in Request :
          /\ Receive(c, r)
          /\ \/ r.pc = "logout" /\ r.presented \in Hash
             \/ r.pc = "admitted" /\ r.user \in User
    BY <1>2
<1>6. req' = [req EXCEPT ![c] = r] /\ req'[c] = r /\ arrived' \in Nat
    BY DEF Receive, IInv, RequestType
<1>7. Remembers(req[c])'
    BY <1>6 DEF Remembers
<1>3. /\ delivered' \subseteq minted' /\ presented' \in [Hash -> Nat]
      /\ ended' \subseteq Hash /\ alarmed' \subseteq closed'
    BY <1>1 DEF IInv, RequestType, portVars
<1>4. [PortNext]_portVars
    BY <1>1
<1> QED
    BY <1>1, <1>3, <1>4, <1>6, <1>7, ClientFrame

\* The steps that end a request and leave the store alone.
LEMMA StepEnd ==
    ASSUME IInv, NEW c \in Client,
           \/ RefuseUnknown(c) \/ RefuseExpired(c) \/ RefuseSuspended(c) \/ LoseSwap(c)
           \/ RespondWithoutRotation(c) \/ Respond(c) \/ RaiseAlarm(c) \/ FailRequest(c)
    PROVE  IInv' /\ [PortNext]_portVars
<1>1. /\ req' = [req EXCEPT ![c] = Idle]
      /\ UNCHANGED <<portVars, adminVars, rotation, arrived, presented, wins, ended>>
    BY DEF RefuseUnknown, RefuseExpired, RefuseSuspended, LoseSwap, RespondWithoutRotation,
           Respond, RaiseAlarm, FailRequest, Local
<1>2. delivered' \subseteq minted' /\ alarmed' \subseteq closed'
    <2>1. CASE Respond(c)
        BY <2>1 DEF Respond, IInv, RequestType, Remembers, portVars
    <2>2. CASE RaiseAlarm(c)
        BY <2>2 DEF RaiseAlarm, IInv, RequestType, Remembers, portVars
    <2>3. CASE ~Respond(c) /\ ~RaiseAlarm(c)
        BY <2>3, <1>1 DEF RefuseUnknown, RefuseExpired, RefuseSuspended, LoseSwap,
               RespondWithoutRotation, FailRequest, Local, IInv, RequestType, portVars
    <2> QED
        BY <2>1, <2>2, <2>3
<1>3. arrived' \in Nat /\ presented' \in [Hash -> Nat] /\ ended' \subseteq Hash
    BY <1>1 DEF IInv, RequestType
<1>4. [PortNext]_portVars
    BY <1>1
<1> QED
    BY <1>1, <1>2, <1>3, <1>4, EndFrame

\* The steps that move a request on and leave the store alone.
LEMMA StepOn ==
    ASSUME IInv, NEW c \in Client, ReadUser(c) \/ AuditRejected(c)
    PROVE  IInv' /\ [PortNext]_portVars
<1>1. UNCHANGED <<portVars, adminVars, rotation, arrived, delivered, presented, wins, ended, alarmed>>
    BY DEF ReadUser, AuditRejected, Local
<1>2. req[c] \in Request /\ Remembers(req[c])
    BY DEF IInv, RequestType
<1>3. req' = [req EXCEPT ![c] = req'[c]] /\ req'[c] \in Request /\ Remembers(req[c])'
    <2>1. CASE ReadUser(c)
        <3>1. req[c].res.session \in Session
            BY <2>1, <1>2 DEF ReadUser, MayRotate, Remembers, Resolution
        <3>2. status[req[c].res.session.user_id] \in Status
            BY <3>1 DEF IInv, RequestType, Session
        <3>3. req' = [req EXCEPT ![c] = [req[c] EXCEPT !.pc = "gated",
                                            !.seen = status[req[c].res.session.user_id]]]
            BY <2>1 DEF ReadUser, IInv, RequestType, Request
        <3>4. req'[c] = [req[c] EXCEPT !.pc = "gated",
                                       !.seen = status[req[c].res.session.user_id]]
            BY <3>3 DEF IInv, RequestType
        <3>5. req'[c] \in Request /\ req'[c].pc = "gated"
              /\ req'[c].res = req[c].res /\ req'[c].presented = req[c].presented
            BY <1>2, <3>2, <3>4 DEF Request
        <3>6. req[c].pc = "resolved" /\ req[c].res.kind \in {"Live", "Superseded"}
            BY <2>1 DEF ReadUser, MayRotate
        <3>7. Remembers(req[c])'
            BY <1>1, <1>2, <3>5, <3>6 DEF Remembers, portVars
        <3> QED
            BY <3>3, <3>4, <3>5, <3>7
    <2>2. CASE AuditRejected(c)
        <3>1. req' = [req EXCEPT ![c] = [req[c] EXCEPT !.pc = "undo"]] /\ req[c].pc = "stored"
            BY <2>2 DEF AuditRejected, IInv, RequestType, Request
        <3>2. req'[c] = [req[c] EXCEPT !.pc = "undo"]
            BY <3>1 DEF IInv, RequestType
        <3>3. req'[c] \in Request /\ req'[c].pc = "undo" /\ req'[c].fresh = req[c].fresh
            BY <1>2, <3>2 DEF Request
        <3>4. Remembers(req[c])'
            BY <1>1, <1>2, <3>1, <3>3 DEF Remembers, portVars
        <3> QED
            BY <3>1, <3>2, <3>3, <3>4
    <2> QED
        BY <2>1, <2>2
<1>4. /\ delivered' \subseteq minted' /\ arrived' \in Nat /\ presented' \in [Hash -> Nat]
      /\ ended' \subseteq Hash /\ alarmed' \subseteq closed'
    BY <1>1 DEF IInv, RequestType, portVars
<1>5. [PortNext]_portVars
    BY <1>1
<1> QED
    BY <1>1, <1>3, <1>4, <1>5, ClientFrame

\* The steps that end a request with one removal in the store.
LEMMA StepRevoke ==
    ASSUME IInv, NEW c \in Client,
           \/ UndoStore(c) \/ RevokeRefreshToken(c)
           \/ \E f \in Family : RevokeAccessToken(c, f)
    PROVE  IInv' /\ [PortNext]_portVars
<1>1. /\ req' = [req EXCEPT ![c] = Idle]
      /\ UNCHANGED <<adminVars, rotation, delivered, presented, wins, alarmed>>
    BY DEF UndoStore, RevokeRefreshToken, RevokeAccessToken, Receive
<1>2. arrived' \in Nat /\ ended' \subseteq Hash
    BY DEF UndoStore, RevokeRefreshToken, RevokeAccessToken, Receive, IInv, RequestType, Remembers
<1>3. PortNext
    <2>1. CASE UndoStore(c)
        <3>1. req[c].fresh \in Hash
            BY <2>1 DEF UndoStore, IInv, PortIInv, PortTypeOK, Remembers
        <3> QED
            BY <2>1, <3>1 DEF UndoStore, PortNext
    <2>2. CASE RevokeRefreshToken(c)
        <3>1. req[c].presented \in Hash
            BY <2>2 DEF RevokeRefreshToken, IInv, Remembers
        <3> QED
            BY <2>2, <3>1 DEF RevokeRefreshToken, PortNext
    <2>3. CASE \E f \in Family : RevokeAccessToken(c, f)
        BY <2>3 DEF RevokeAccessToken, PortNext
    <2> QED
        BY <2>1, <2>2, <2>3
<1>4. Monotone
    BY <1>3, StepMonotone DEF IInv
<1>5. delivered' \subseteq minted' /\ presented' \in [Hash -> Nat] /\ alarmed' \subseteq closed'
    BY <1>1, <1>4 DEF IInv, RequestType, Monotone
<1> QED
    BY <1>1, <1>2, <1>3, <1>5, EndFrame

\* Reuse: the revocation that precedes the alarm.
LEMMA StepReuse ==
    ASSUME IInv, NEW c \in Client, RevokeForReuse(c)
    PROVE  IInv' /\ [PortNext]_portVars
<1> DEFINE f == req[c].res.family_id
<1>1. /\ req[c] \in Request /\ Remembers(req[c]) /\ req[c].pc = "resolved"
      /\ req[c].res.kind \in {"Retired", "Superseded"}
    BY DEF RevokeForReuse, IsReuse, IInv, RequestType
<1>2. f \in families /\ revoke_family(f)
    BY <1>1 DEF RevokeForReuse, Remembers
<1>3. PortNext
    BY <1>2 DEF PortNext
<1>4. Monotone /\ f \in closed'
    BY <1>2, <1>3, StepMonotone DEF IInv, revoke_family
<1>5. /\ req' = [req EXCEPT ![c] = [req[c] EXCEPT !.pc = "alarm"]]
      /\ req'[c] = [req[c] EXCEPT !.pc = "alarm"]
      /\ UNCHANGED <<adminVars, rotation, arrived, delivered, presented, wins, ended, alarmed>>
    BY DEF RevokeForReuse, IInv, RequestType
<1>6. /\ req'[c] \in Request /\ req'[c].pc = "alarm"
      /\ req'[c].res = req[c].res /\ req'[c].presented = req[c].presented
    BY <1>1, <1>5 DEF Request
<1>7. Remembers(req[c])'
    BY <1>1, <1>4, <1>6 DEF Remembers, Monotone
<1>8. /\ delivered' \subseteq minted' /\ arrived' \in Nat /\ presented' \in [Hash -> Nat]
      /\ ended' \subseteq Hash /\ alarmed' \subseteq closed'
    BY <1>4, <1>5 DEF IInv, RequestType, Monotone
<1>9. req' = [req EXCEPT ![c] = req'[c]]
    BY <1>5
<1> QED
    BY <1>3, <1>5, <1>6, <1>7, <1>8, <1>9, ClientFrame

\* A sign-in's session is generation 0 of a new family.
LEMMA StepStore ==
    ASSUME IInv, NEW c \in Client, NEW h \in Hash, NEW f \in Family, StoreSession(c, h, f)
    PROVE  IInv' /\ [PortNext]_portVars
<1>1. req[c] \in Request /\ Remembers(req[c]) /\ req[c].pc = "admitted" /\ req[c].user \in User
    BY DEF StoreSession, IInv, RequestType, Remembers
<1>2. PortNext
    BY <1>1 DEF StoreSession, PortNext, SignIn
<1>3. Monotone /\ h \in minted'
    BY <1>2, StepMonotone DEF IInv, StoreSession, store_refresh_token
<1>4. /\ req' = [req EXCEPT ![c] = [req[c] EXCEPT !.pc = "stored", !.fresh = h]]
      /\ req'[c] = [req[c] EXCEPT !.pc = "stored", !.fresh = h]
      /\ UNCHANGED <<adminVars, rotation, arrived, delivered, presented, wins, ended, alarmed>>
    BY DEF StoreSession, IInv, RequestType, Request
<1>5. req'[c] \in Request /\ req'[c].pc = "stored" /\ req'[c].fresh = h
    <2>1. req[c] \in Request
        BY <1>1
    <2>2. req'[c] = [req[c] EXCEPT !.pc = "stored", !.fresh = h]
        BY <1>4
    <2> QED
        BY <2>1, <2>2 DEF Request
<1>6. Remembers(req[c])'
    BY <1>3, <1>5 DEF Remembers
<1>7. /\ delivered' \subseteq minted' /\ arrived' \in Nat /\ presented' \in [Hash -> Nat]
      /\ ended' \subseteq Hash /\ alarmed' \subseteq closed'
    BY <1>3, <1>4 DEF IInv, RequestType, Monotone
<1>8. req' = [req EXCEPT ![c] = req'[c]]
    BY <1>4
<1> QED
    BY <1>2, <1>4, <1>5, <1>6, <1>7, <1>8, ClientFrame

\* The swap is a redemption of the contract: the row it consumes is the very row
\* the request resolved, however long ago that was.
LEMMA SwapRedeems ==
    ASSUME IInv, NEW c \in Client, NEW h2 \in Hash, NEW f \in Family, Swap(c, h2, f)
    PROVE  Redeem
<1> DEFINE r == req[c].res
           s == r.session
<1>1. /\ Remembers(req[c]) /\ req[c].pc = "gated" /\ now \in Nat
    BY DEF Swap, IInv, RequestType, PortIInv, PortTypeOK
<1>2. /\ r.hash \in Hash /\ live[r.hash] # None /\ s # None /\ h2 \in Hash \ minted
    BY <1>1 DEF Swap, Remembers, Resolution
<1>3. live[r.hash] = s
    BY <1>1, <1>2 DEF Remembers
<1>4. IF s.family_id = NoFamily THEN f \notin families ELSE f = s.family_id
    BY DEF Swap
<1>5. mint_replacement(s, f) = [user_id |-> live[r.hash].user_id, family_id |-> f,
          generation |-> live[r.hash].generation + 1, expires_at |-> live[r.hash].expires_at]
    BY <1>3, <1>4 DEF mint_replacement
<1>6. rotate_refresh_token(r.hash, h2, mint_replacement(s, f), now)
    BY DEF Swap
<1>7. now \in 0..now
    BY <1>1
<1> QED
    BY <1>2, <1>3, <1>4, <1>5, <1>6, <1>7 DEF Redeem

\* A swap keeps the invariant: the row it consumed leaves for good, and was
\* consumed by no earlier swap.
LEMMA StepSwap ==
    ASSUME IInv, NEW c \in Client, NEW h2 \in Hash, NEW f \in Family, Swap(c, h2, f)
    PROVE  IInv' /\ [PortNext]_portVars
<1> DEFINE r == req[c].res
           w == <<req[c].presented, r.hash, h2>>
<1>1. PortNext
    BY SwapRedeems DEF PortNext
<1>2. PortIInv' /\ Monotone
    BY <1>1, StepPort, StepMonotone DEF IInv
<1>3. /\ req[c] \in Request /\ Remembers(req[c]) /\ req[c].pc = "gated"
      /\ live[r.hash] # None /\ r.hash \in Hash /\ req[c].presented \in Hash
    BY DEF Swap, IInv, RequestType, Remembers, Resolution
<1>4. /\ req' = [req EXCEPT ![c] = [req[c] EXCEPT !.pc = "rotated", !.fresh = h2]]
      /\ req'[c] = [req[c] EXCEPT !.pc = "rotated", !.fresh = h2]
      /\ wins' = wins \cup {w}
      /\ UNCHANGED <<adminVars, rotation, arrived, delivered, presented, ended, alarmed>>
    BY DEF Swap, IInv, RequestType, Request
<1>5. /\ req'[c] \in Request /\ req'[c].pc = "rotated" /\ req'[c].fresh = h2
      /\ req'[c].res = r /\ req'[c].presented = req[c].presented
    <2>1. req[c] \in Request
        BY <1>3
    <2>2. req'[c] = [req[c] EXCEPT !.pc = "rotated", !.fresh = h2]
        BY <1>4
    <2> QED
        BY <2>1, <2>2 DEF Request
<1>6. h2 \in minted' /\ live'[r.hash] = None /\ r.hash \in minted
    BY <1>3, SwapRedeems DEF Swap, rotate_refresh_token, IInv, PortIInv, PortTypeOK, Remembers,
       HoldsMinted
<1>7. Remembers(req[c])'
    BY <1>2, <1>3, <1>5, <1>6 DEF Remembers, Monotone
<1>8. \A d \in Client : Remembers(req[d])'
    <2>1. \A q : Remembers(q) => Remembers(q)'
        BY <1>2, StillRemembers DEF IInv
    <2>2. \A d \in Client : d # c => req'[d] = req[d]
        BY <1>4 DEF IInv, RequestType
    <2> QED
        BY <1>7, <2>1, <2>2 DEF IInv
<1>9. \A a \in Admin : OperatorRemembers(adm[a])'
    <2>1. \A m : OperatorRemembers(m) => OperatorRemembers(m)'
        BY <1>2, StillOperatorRemembers
    <2> QED
        BY <1>4, <2>1 DEF IInv, adminVars
<1>10. RequestType'
    <2>1. w \in Hash \X Hash \X Hash
        BY <1>3
    <2>2. wins' \subseteq Hash \X Hash \X Hash
        BY <1>4, <2>1 DEF IInv, RequestType
    <2>3. req' \in [Client -> Request]
        BY <1>4, <1>5 DEF IInv, RequestType
    <2> HIDE DEF w
    <2> QED
        BY <1>2, <1>4, <2>2, <2>3 DEF IInv, RequestType, Monotone, adminVars
<1>11. \/ w[2] = w[1]
       \/ written[w[1]] # None /\ written[w[1]].successor_hash = w[2]
    BY <1>3 DEF Remembers
<1>12. SwapsSound'
    <2>1. \A v \in wins : /\ v[2] \in minted'
                          /\ live'[v[2]] = None
                          /\ \/ v[2] = v[1]
                             \/ written'[v[1]] # None /\ written'[v[1]].successor_hash = v[2]
        BY <1>2, StillSound DEF IInv
    <2>2. /\ w[2] \in minted'
          /\ live'[w[2]] = None
          /\ \/ w[2] = w[1]
             \/ written'[w[1]] # None /\ written'[w[1]].successor_hash = w[2]
        BY <1>2, <1>3, <1>6, <1>11 DEF Monotone
    <2> HIDE DEF w
    <2> QED
        BY <1>4, <2>1, <2>2 DEF SwapsSound
<1>13. RedeemedOnce'
    <2>1. \A v \in wins : v[2] # w[2]
        BY <1>3 DEF IInv, SwapsSound
    <2>2. \A v1, v2 \in wins : v1[1] = w[1] /\ v2[1] = w[1] => v1 = v2
        <3> SUFFICES ASSUME NEW v1 \in wins, NEW v2 \in wins, v1[1] = w[1], v2[1] = w[1]
                     PROVE  v1[2] = v2[2]
            BY DEF IInv, RedeemedOnce
        <3>1. /\ \/ v1[2] = w[1]
                 \/ written[w[1]] # None /\ written[w[1]].successor_hash = v1[2]
              /\ \/ v2[2] = w[1]
                 \/ written[w[1]] # None /\ written[w[1]].successor_hash = v2[2]
            BY DEF IInv, SwapsSound
        <3> HIDE DEF w
        <3> QED
            BY <3>1, <2>1, <1>11
    <2> HIDE DEF w
    <2> QED
        BY <1>4, <2>1, <2>2 DEF IInv, RedeemedOnce
<1>14. alarmed' \subseteq closed'
    BY <1>2, <1>4 DEF IInv, Monotone
<1> QED
    BY <1>1, <1>2, <1>8, <1>9, <1>10, <1>12, <1>13, <1>14 DEF IInv

\* An operator's step, whatever it does to the store.
LEMMA AdminFrame ==
    ASSUME IInv, [PortNext]_portVars, UNCHANGED <<requestVars, rotation>>,
           status' \in [User -> Status], unswept' \subseteq User,
           adm' \in [Admin -> AdminRequest],
           \A a \in Admin : adm'[a] = adm[a] \/ OperatorRemembers(adm[a])'
    PROVE  IInv'
<1>1. Monotone
    BY StepMonotone DEF IInv
<1>2. RequestType' /\ alarmed' \subseteq closed' /\ UNCHANGED <<wins, req>>
    BY <1>1 DEF IInv, RequestType, requestVars, Monotone
<1> QED
    BY <1>2, StepFrame

\* An operator's request that is over remembers nothing.
LEMMA QuietSound == Quiet \in AdminRequest /\ Quiet.pc = "idle"
BY DEF Quiet, AdminRequest

\* The steps of an operator that end its request.
LEMMA StepAdminEnd ==
    ASSUME IInv, NEW a \in Admin,
           AdminRevokeAll(a) \/ AdminRevokeSession(a) \/ FailAdmin(a)
    PROVE  IInv' /\ [PortNext]_portVars
<1>1. /\ adm' = [adm EXCEPT ![a] = Quiet]
      /\ UNCHANGED <<requestVars, rotation, status>>
    BY DEF AdminRevokeAll, AdminRevokeSession, FailAdmin
<1>2. OperatorRemembers(adm[a])
    BY DEF IInv
<1>3. unswept' \subseteq User
    BY <1>2 DEF AdminRevokeAll, AdminRevokeSession, FailAdmin, OperatorRemembers, IInv, RequestType
<1>4. [PortNext]_portVars
    <2>1. CASE AdminRevokeAll(a)
        BY <2>1, <1>2 DEF AdminRevokeAll, OperatorRemembers, PortNext
    <2>2. CASE AdminRevokeSession(a)
        BY <2>2, <1>2 DEF AdminRevokeSession, OperatorRemembers, PortNext
    <2>3. CASE FailAdmin(a)
        BY <2>3 DEF FailAdmin
    <2> QED
        BY <2>1, <2>2, <2>3
<1>5. adm' \in [Admin -> AdminRequest] /\ status' \in [User -> Status]
    BY <1>1, QuietSound DEF IInv, RequestType
<1>6. \A b \in Admin : adm'[b] = adm[b] \/ OperatorRemembers(adm[b])'
    BY <1>1, QuietSound DEF IInv, RequestType, OperatorRemembers
<1> QED
    BY <1>1, <1>3, <1>4, <1>5, <1>6, AdminFrame

\* An operator's request as it is received: the user, the transition and the
\* session it found.
LEMMA StepAdminReceive ==
    ASSUME IInv, NEW a \in Admin, NEW u \in User,
           \/ \E t \in Status : AdminRead(a, u, t)
           \/ AdminEndSessions(a, u)
           \/ \E h \in Hash : AdminFindSession(a, u, h)
    PROVE  IInv' /\ [PortNext]_portVars
<1>1. UNCHANGED <<portVars, requestVars, rotation, status, unswept>>
    BY DEF AdminRead, AdminEndSessions, AdminFindSession
<1>2. \E m \in AdminRequest :
          /\ adm' = [adm EXCEPT ![a] = m]
          /\ \/ m.pc = "write" /\ m.user \in User /\ m.target \in Status
             \/ m.pc = "revoke" /\ m.user \in User
             \/ m.pc = "revokeOne" /\ m.family \in families
    <2>1. CASE \E t \in Status : AdminRead(a, u, t)
        <3>1. PICK t \in Status : AdminRead(a, u, t)
            BY <2>1
        <3> DEFINE m == [Quiet EXCEPT !.pc = "write", !.user = u, !.target = t,
                                      !.current = status[u]]
        <3>2. status[u] \in Status
            BY DEF IInv, RequestType
        <3>3. m \in AdminRequest /\ m.pc = "write" /\ m.user = u /\ m.target = t
            BY <3>2 DEF Quiet, AdminRequest
        <3>4. adm' = [adm EXCEPT ![a] = m]
            BY <3>1 DEF AdminRead
        <3> QED
            BY <3>3, <3>4
    <2>2. CASE AdminEndSessions(a, u)
        <3> DEFINE m == [Quiet EXCEPT !.pc = "revoke", !.user = u]
        <3>1. m \in AdminRequest /\ m.pc = "revoke" /\ m.user = u
            BY DEF Quiet, AdminRequest
        <3>2. adm' = [adm EXCEPT ![a] = m]
            BY <2>2 DEF AdminEndSessions
        <3> QED
            BY <3>1, <3>2
    <2>3. CASE \E h \in Hash : AdminFindSession(a, u, h)
        <3>1. PICK h \in Hash : AdminFindSession(a, u, h)
            BY <2>3
        <3>2. live[h].family_id \in families
            BY <3>1 DEF AdminFindSession, admin_list_user_sessions, list_live_sessions, IInv,
                        PortIInv, HoldsMinted
        <3>3. families \subseteq Family
            BY DEF IInv, PortIInv, PortTypeOK
        <3> DEFINE m == [Quiet EXCEPT !.pc = "revokeOne", !.user = u,
                                      !.family = live[h].family_id]
        <3>4. m \in AdminRequest /\ m.pc = "revokeOne" /\ m.family = live[h].family_id
            BY <3>2, <3>3 DEF Quiet, AdminRequest
        <3>5. adm' = [adm EXCEPT ![a] = m]
            BY <3>1 DEF AdminFindSession
        <3> QED
            BY <3>2, <3>4, <3>5
    <2> QED
        BY <2>1, <2>2, <2>3
<1>3. PICK m \in AdminRequest :
          /\ adm' = [adm EXCEPT ![a] = m]
          /\ \/ m.pc = "write" /\ m.user \in User /\ m.target \in Status
             \/ m.pc = "revoke" /\ m.user \in User
             \/ m.pc = "revokeOne" /\ m.family \in families
    BY <1>2
<1>4. /\ adm' \in [Admin -> AdminRequest]
      /\ status' \in [User -> Status] /\ unswept' \subseteq User /\ families' = families
    BY <1>1, <1>3 DEF IInv, RequestType, portVars
<1>5. \A b \in Admin : adm'[b] = adm[b] \/ OperatorRemembers(adm[b])'
    BY <1>3, <1>4 DEF IInv, RequestType, OperatorRemembers
<1>6. [PortNext]_portVars
    BY <1>1
<1> QED
    BY <1>1, <1>4, <1>5, <1>6, AdminFrame

\* The status write of an operator.
LEMMA StepAdminWrite ==
    ASSUME IInv, NEW a \in Admin, AdminWrite(a)
    PROVE  IInv' /\ [PortNext]_portVars
<1>1. UNCHANGED <<portVars, requestVars, rotation, unswept>>
    BY DEF AdminWrite
<1>2. /\ adm[a] \in AdminRequest /\ adm[a].pc = "write"
      /\ adm[a].user \in User /\ adm[a].target \in Status
    BY DEF AdminWrite, IInv, RequestType, OperatorRemembers
<1>3. status' \in [User -> Status] /\ unswept' \subseteq User
    BY <1>1, <1>2 DEF AdminWrite, IInv, RequestType
<1>4. \/ adm' = [adm EXCEPT ![a] = Quiet]
      \/ adm' = [adm EXCEPT ![a] = [adm[a] EXCEPT !.pc = "revoke"]]
    BY DEF AdminWrite, IInv, RequestType
<1>5. /\ [adm[a] EXCEPT !.pc = "revoke"] \in AdminRequest
      /\ [adm[a] EXCEPT !.pc = "revoke"].pc = "revoke"
      /\ [adm[a] EXCEPT !.pc = "revoke"].user \in User
    BY <1>2 DEF AdminRequest
<1>6. adm' \in [Admin -> AdminRequest]
    BY <1>4, <1>5, QuietSound DEF IInv, RequestType
<1>7. \A b \in Admin : adm'[b] = adm[b] \/ OperatorRemembers(adm[b])'
    BY <1>4, <1>5, QuietSound DEF IInv, RequestType, OperatorRemembers
<1>8. [PortNext]_portVars
    BY <1>1
<1> QED
    BY <1>1, <1>3, <1>6, <1>7, <1>8, AdminFrame

\* A restart cuts every request.
LEMMA StepRestart == ASSUME IInv, Restart PROVE IInv' /\ [PortNext]_portVars
<1>1. UNCHANGED <<portVars, arrived, delivered, presented, wins, ended, alarmed, status>>
    BY DEF Restart
<1>2. unswept' \subseteq User
    BY DEF Restart, IInv, RequestType, OperatorRemembers
<1>3. RequestType'
    BY <1>1, <1>2, ServiceAssumption, IdleSound, QuietSound
       DEF Restart, IInv, RequestType, portVars
<1>4. \A c \in Client : Remembers(req[c])'
    BY IdleSound DEF Restart, Remembers
<1>5. \A a \in Admin : OperatorRemembers(adm[a])'
    BY QuietSound DEF Restart, OperatorRemembers
<1>6. alarmed' \subseteq closed'
    BY <1>1 DEF IInv, portVars
<1> QED
    BY <1>1, <1>3, <1>4, <1>5, <1>6, StepFrame

\* The reaper and the clock.
LEMMA StepEnvironment == ASSUME IInv, Environment PROVE IInv' /\ [PortNext]_portVars
<1>1. now \in 0..now
    BY DEF IInv, PortIInv, PortTypeOK
<1>2. PortNext
    BY <1>1 DEF Environment, PortNext
<1>3. UNCHANGED <<requestVars, adminVars, rotation>>
    BY DEF Environment
<1> QED
    BY <1>2, <1>3, AdminFrame DEF adminVars, IInv, RequestType

\* Every step of the service keeps the invariant and is a step of the contract.
LEMMA StepService == IInv /\ [Next]_vars => IInv' /\ [PortNext]_portVars
<1> SUFFICES ASSUME IInv, [Next]_vars PROVE IInv' /\ [PortNext]_portVars
    OBVIOUS
<1>1. ASSUME NEW c \in Client, ClientStep(c) PROVE IInv' /\ [PortNext]_portVars
    BY <1>1, StepEnd, StepOn, StepSwap, StepReuse, StepStore, StepRevoke DEF ClientStep
<1>2. ASSUME NEW a \in Admin, AdminStep(a) PROVE IInv' /\ [PortNext]_portVars
    BY <1>2, StepAdminWrite, StepAdminEnd DEF AdminStep
<1>3. CASE Arrival
    BY <1>3, StepPresent, StepReceive, StepRevoke, StepAdminReceive DEF Arrival
<1>4. CASE Failure
    BY <1>4, StepEnd, StepAdminEnd DEF Failure
<1>5. CASE Restart
    BY <1>5, StepRestart
<1>6. CASE Environment
    BY <1>6, StepEnvironment
<1>7. CASE UNCHANGED vars
    <2>1. UNCHANGED <<portVars, requestVars, adminVars, rotation>>
        BY <1>7 DEF vars
    <2> QED
        BY <2>1, AdminFrame DEF adminVars, IInv, RequestType
<1> QED
    BY <1>1, <1>2, <1>3, <1>4, <1>5, <1>6, <1>7 DEF Next

\* The service's invariant holds in every reachable state.
THEOREM ServiceInvariant == Spec => []IInv
<1>1. Init => IInv
    BY InitService
<1>2. IInv /\ [Next]_vars => IInv'
    BY StepService
<1> QED
    BY <1>1, <1>2, PTL DEF Spec

\* Type correctness of the token service, for every instance.
THEOREM ServiceTypeCorrect == Spec => []TypeOK
<1>1. IInv => TypeOK
    BY DEF IInv, PortIInv, RequestType, TypeOK
<1> QED
    BY <1>1, ServiceInvariant, PTL

\* One redemption per generation, for any number of concurrent refreshes: a
\* live row is consumed by one swap at most, and a token that was superseded
\* buys at most one rotation forward.
THEOREM ServiceRedeemsOnce == Spec => []RedeemedOnce
<1>1. IInv => RedeemedOnce
    BY DEF IInv
<1> QED
    BY <1>1, ServiceInvariant, PTL

\* A family named by a reuse alarm is dead, at that moment and for good.
THEOREM ServiceAlarmedFamilyIsDead == Spec => []AlarmedFamilyIsDead
<1>1. IInv => AlarmedFamilyIsDead
    BY DEF IInv, PortIInv, ClosedFamilyStaysDead, AlarmedFamilyIsDead
<1> QED
    BY <1>1, ServiceInvariant, PTL

\* The service keeps the contract of the session store: although its requests
\* interleave between the resolution and the swap, what they do to the store is
\* a behaviour of SessionPort, so every promise of the port holds under it.
THEOREM ServiceImplementsPort == Spec => PortSpec
<1>1. Init => PortInit
    BY DEF Init
<1>2. IInv /\ [Next]_vars => [PortNext]_portVars
    BY StepService
<1> QED
    BY <1>1, <1>2, ServiceInvariant, PTL DEF Spec, PortSpec

-----------------------------------------------------------------------------
(* Rotation switched off. *)

\* With rotation off, a request that found its token live, or has passed the
\* user gate, presents a token that was never retired.
OffIsPlain ==
    ~rotation =>
        \A c \in Client :
            \/ req[c].pc = "gated"
            \/ req[c].pc = "resolved" /\ req[c].res.kind = "Live"
            => retired[req[c].presented] = None

\* With rotation off no step writes a retirement record.
LEMMA OffRetiresNothing ==
    ASSUME IInv, Next, ~rotation
    PROVE  \A h \in Hash : retired'[h] = retired[h] \/ retired'[h] = None
<1> USE DEF portVars
<1>0. retired \in [Hash -> RetiredRefreshToken \cup {None}]
    BY DEF IInv, PortIInv, PortTypeOK
<1>1. ASSUME NEW c \in Client, ClientStep(c)
      PROVE  \A h \in Hash : retired'[h] = retired[h] \/ retired'[h] = None
    BY <1>0, <1>1 DEF ClientStep, RefuseUnknown, RefuseExpired, ReadUser, RefuseSuspended, Swap,
        LoseSwap, RespondWithoutRotation, Respond, RevokeForReuse, RaiseAlarm, StoreSession,
        AuditRejected, UndoStore, RevokeRefreshToken, Local, revoke_family, revoke_session,
        store_refresh_token
<1>2. ASSUME NEW a \in Admin, AdminStep(a)
      PROVE  \A h \in Hash : retired'[h] = retired[h] \/ retired'[h] = None
    BY <1>0, <1>2 DEF AdminStep, AdminWrite, AdminRevokeAll, AdminRevokeSession, revoke_family,
        revoke_all_user_sessions
<1>3. CASE Arrival
    BY <1>0, <1>3 DEF Arrival, Present, LookupForRevoke, Admit, RevokeAccessToken, AdminRead,
        AdminEndSessions, AdminFindSession, revoke_family
<1>4. CASE Failure
    BY <1>0, <1>4 DEF Failure, FailRequest, FailAdmin, Local
<1>5. CASE Restart
    BY <1>0, <1>5 DEF Restart
<1>6. CASE Environment
    BY <1>0, <1>6 DEF Environment, cleanup_expired_sessions, Tick
<1> QED
    BY <1>1, <1>2, <1>3, <1>4, <1>5, <1>6 DEF Next

\* How a request comes to be resolved or gated: it was so before, it was just
\* received, or it passes the user gate.
LEMMA RequestMoves ==
    ASSUME IInv, [Next]_vars, NEW c \in Client, req'[c].pc \in {"resolved", "gated"}
    PROVE  \/ req'[c] = req[c] /\ rotation' = rotation
           \/ \E h \in Hash : Present(c, h)
           \/ ReadUser(c)
<1>0. req \in [Client -> Request]
    BY IdleSound DEF IInv, RequestType
<1>1. ASSUME NEW d \in Client, ClientStep(d)
      PROVE  (req'[c] = req[c] /\ rotation' = rotation) \/ ReadUser(c)
    <2>1. ASSUME ReadUser(d) PROVE (req'[c] = req[c] /\ rotation' = rotation) \/ ReadUser(c)
        BY <1>0, <2>1 DEF ReadUser, Local
    <2>2. ASSUME \/ RefuseUnknown(d) \/ RefuseExpired(d) \/ RefuseSuspended(d)
                 \/ LoseSwap(d) \/ RespondWithoutRotation(d) \/ Respond(d) \/ RaiseAlarm(d)
                 \/ UndoStore(d) \/ RevokeRefreshToken(d)
          PROVE  req'[c] = req[c] /\ rotation' = rotation
        <3>1. req' = [req EXCEPT ![d] = Idle] /\ rotation' = rotation
            BY <2>2 DEF RefuseUnknown, RefuseExpired, RefuseSuspended, LoseSwap,
                RespondWithoutRotation, Respond, RaiseAlarm, UndoStore, RevokeRefreshToken, Local
        <3> QED
            BY <1>0, <3>1 DEF Idle
    <2>3. ASSUME \/ \E h2 \in Hash, f \in Family : Swap(d, h2, f)
                 \/ RevokeForReuse(d)
                 \/ \E h \in Hash, f \in Family : StoreSession(d, h, f)
                 \/ AuditRejected(d)
          PROVE  req'[c] = req[c] /\ rotation' = rotation
        <3>1. /\ rotation' = rotation
              /\ \E m \in Request : m.pc \in {"rotated", "alarm", "stored", "undo"}
                                    /\ req' = [req EXCEPT ![d] = m]
            <4>1. CASE \E h2 \in Hash, f \in Family : Swap(d, h2, f)
                <5>1. PICK h2 \in Hash, f \in Family : Swap(d, h2, f)
                    BY <4>1
                <5>2. req' = [req EXCEPT ![d] = [req[d] EXCEPT !.pc = "rotated", !.fresh = h2]]
                    BY <1>0, <5>1 DEF Swap
                <5>3. [req[d] EXCEPT !.pc = "rotated", !.fresh = h2] \in Request
                    BY <1>0 DEF Request
                <5> QED
                    BY <5>1, <5>2, <5>3 DEF Swap, Request
            <4>2. CASE RevokeForReuse(d)
                <5>1. [req[d] EXCEPT !.pc = "alarm"] \in Request
                    BY <1>0 DEF Request
                <5> QED
                    BY <1>0, <4>2, <5>1 DEF RevokeForReuse, Request
            <4>3. CASE \E h \in Hash, f \in Family : StoreSession(d, h, f)
                <5>1. PICK h \in Hash, f \in Family : StoreSession(d, h, f)
                    BY <4>3
                <5>2. req' = [req EXCEPT ![d] = [req[d] EXCEPT !.pc = "stored", !.fresh = h]]
                    BY <1>0, <5>1 DEF StoreSession
                <5>3. [req[d] EXCEPT !.pc = "stored", !.fresh = h] \in Request
                    BY <1>0 DEF Request
                <5> QED
                    BY <5>1, <5>2, <5>3 DEF StoreSession, Request
            <4>4. CASE AuditRejected(d)
                <5>1. [req[d] EXCEPT !.pc = "undo"] \in Request
                    BY <1>0 DEF Request
                <5> QED
                    BY <1>0, <4>4, <5>1 DEF AuditRejected, Local, Request
            <4> QED
                BY <2>3, <4>1, <4>2, <4>3, <4>4
        <3> QED
            BY <1>0, <3>1
    <2> QED
        BY <1>1, <2>1, <2>2, <2>3 DEF ClientStep
<1>2. ASSUME NEW a \in Admin, AdminStep(a) PROVE req'[c] = req[c] /\ rotation' = rotation
    BY <1>2 DEF AdminStep, AdminWrite, AdminRevokeAll, AdminRevokeSession, requestVars
<1>3. CASE Arrival
    <2>1. ASSUME NEW d \in Client, NEW h \in Hash, Present(d, h)
          PROVE  (req'[c] = req[c] /\ rotation' = rotation) \/ Present(c, h)
        BY <1>0, <2>1 DEF Present, Receive
    <2>2. ASSUME NEW d \in Client, NEW h \in Hash, LookupForRevoke(d, h)
          PROVE  req'[c] = req[c] /\ rotation' = rotation
        BY <1>0, <2>2 DEF LookupForRevoke, Receive, Idle
    <2>3. ASSUME NEW d \in Client, NEW u \in User, Admit(d, u)
          PROVE  req'[c] = req[c] /\ rotation' = rotation
        BY <1>0, <2>3 DEF Admit, Receive, Idle
    <2>4. ASSUME NEW d \in Client, NEW f \in Family, RevokeAccessToken(d, f)
          PROVE  req'[c] = req[c] /\ rotation' = rotation
        BY <1>0, <2>4 DEF RevokeAccessToken, Receive, Idle
    <2>5. ASSUME NEW a \in Admin, NEW u \in User,
                 \/ \E t \in Status : AdminRead(a, u, t)
                 \/ AdminEndSessions(a, u)
                 \/ \E h \in Hash : AdminFindSession(a, u, h)
          PROVE  req'[c] = req[c] /\ rotation' = rotation
        BY <2>5 DEF AdminRead, AdminEndSessions, AdminFindSession, requestVars
    <2> QED
        BY <1>3, <2>1, <2>2, <2>3, <2>4, <2>5 DEF Arrival
<1>4. CASE Failure
    BY <1>0, <1>4 DEF Failure, FailRequest, FailAdmin, Local, requestVars, Idle
<1>5. CASE Restart
    BY <1>5 DEF Restart, Idle
<1>6. CASE Environment
    BY <1>6 DEF Environment, requestVars
<1>7. CASE UNCHANGED vars
    BY <1>7 DEF vars, requestVars
<1> QED
    BY <1>1, <1>2, <1>3, <1>4, <1>5, <1>6, <1>7 DEF Next

\* A request is at the alarm because it was, or because its family was just revoked.
LEMMA AlarmIsReuse ==
    ASSUME IInv, Next, NEW c \in Client, req'[c].pc = "alarm"
    PROVE  req[c].pc = "alarm" \/ RevokeForReuse(c)
<1>0. req \in [Client -> Request]
    BY DEF IInv, RequestType
<1>1. ASSUME NEW d \in Client, ClientStep(d) PROVE req'[c] = req[c] \/ RevokeForReuse(c)
    <2>1. ASSUME \/ RefuseUnknown(d) \/ RefuseExpired(d) \/ RefuseSuspended(d)
                 \/ LoseSwap(d) \/ RespondWithoutRotation(d) \/ Respond(d) \/ RaiseAlarm(d)
                 \/ UndoStore(d) \/ RevokeRefreshToken(d)
          PROVE  req'[c] = req[c]
        <3>1. req' = [req EXCEPT ![d] = Idle]
            BY <2>1 DEF RefuseUnknown, RefuseExpired, RefuseSuspended, LoseSwap,
                RespondWithoutRotation, Respond, RaiseAlarm, UndoStore, RevokeRefreshToken
        <3> QED
            BY <1>0, <3>1 DEF Idle
    <2>2. ASSUME ReadUser(d) PROVE req'[c] = req[c]
        BY <1>0, <2>2 DEF ReadUser, Request
    <2>3. ASSUME NEW h2 \in Hash, NEW f \in Family, Swap(d, h2, f) PROVE req'[c] = req[c]
        <3>1. req' = [req EXCEPT ![d] = [req[d] EXCEPT !.pc = "rotated", !.fresh = h2]]
            BY <1>0, <2>3 DEF Swap
        <3> QED
            BY <1>0, <3>1 DEF Request
    <2>4. ASSUME NEW h \in Hash, NEW f \in Family, StoreSession(d, h, f) PROVE req'[c] = req[c]
        <3>1. req' = [req EXCEPT ![d] = [req[d] EXCEPT !.pc = "stored", !.fresh = h]]
            BY <1>0, <2>4 DEF StoreSession
        <3> QED
            BY <1>0, <3>1 DEF Request
    <2>5. ASSUME AuditRejected(d) PROVE req'[c] = req[c]
        BY <1>0, <2>5 DEF AuditRejected, Request
    <2>6. ASSUME RevokeForReuse(d) PROVE req'[c] = req[c] \/ RevokeForReuse(c)
        BY <1>0, <2>6 DEF RevokeForReuse
    <2> QED
        BY <1>1, <2>1, <2>2, <2>3, <2>4, <2>5, <2>6 DEF ClientStep
<1>2. ASSUME NEW a \in Admin, AdminStep(a) PROVE req'[c] = req[c]
    BY <1>2 DEF AdminStep, AdminWrite, AdminRevokeAll, AdminRevokeSession, requestVars
<1>3. CASE Arrival
    <2>1. ASSUME NEW d \in Client, NEW h \in Hash, Present(d, h) \/ LookupForRevoke(d, h)
          PROVE  req'[c] = req[c]
        BY <1>0, <2>1 DEF Present, LookupForRevoke, Receive, Idle
    <2>2. ASSUME NEW d \in Client, NEW u \in User, Admit(d, u) PROVE req'[c] = req[c]
        BY <1>0, <2>2 DEF Admit, Receive, Idle
    <2>3. ASSUME NEW d \in Client, NEW f \in Family, RevokeAccessToken(d, f)
          PROVE  req'[c] = req[c]
        BY <1>0, <2>3 DEF RevokeAccessToken, Receive, Idle
    <2>4. ASSUME NEW a \in Admin, NEW u \in User,
                 \/ \E t \in Status : AdminRead(a, u, t)
                 \/ AdminEndSessions(a, u)
                 \/ \E h \in Hash : AdminFindSession(a, u, h)
          PROVE  req'[c] = req[c]
        BY <2>4 DEF AdminRead, AdminEndSessions, AdminFindSession, requestVars
    <2> QED
        BY <1>3, <2>1, <2>2, <2>3, <2>4 DEF Arrival
<1>4. CASE Failure
    BY <1>0, <1>4 DEF Failure, FailRequest, FailAdmin, requestVars, Idle
<1>5. CASE Restart
    BY <1>5 DEF Restart, Idle
<1>6. CASE Environment
    BY <1>6 DEF Environment, requestVars
<1> QED
    BY <1>1, <1>2, <1>3, <1>4, <1>5, <1>6 DEF Next

\* A token that is live when it is presented was never retired, and while rotation
\* is off it is not retired later: OffIsPlain is kept.
LEMMA StepOff == IInv /\ OffIsPlain /\ [Next]_vars => OffIsPlain'
<1> SUFFICES ASSUME IInv, OffIsPlain, [Next]_vars, ~rotation', NEW c \in Client,
                    \/ req'[c].pc = "gated"
                    \/ req'[c].pc = "resolved" /\ req'[c].res.kind = "Live"
             PROVE  retired'[req'[c].presented] = None
    BY DEF OffIsPlain
<1>1. ASSUME ~rotation
      PROVE  \A h \in Hash : retired'[h] = retired[h] \/ retired'[h] = None
    <2>1. CASE Next
        BY <1>1, <2>1, OffRetiresNothing
    <2>2. CASE UNCHANGED vars
        BY <2>2 DEF vars, portVars
    <2> QED
        BY <2>1, <2>2
<1>2. CASE req'[c] = req[c] /\ rotation' = rotation
    <2>1. req[c].presented \in Hash
        BY <1>2 DEF IInv, Remembers
    <2>2. retired[req[c].presented] = None
        BY <1>2 DEF OffIsPlain
    <2> QED
        BY <1>1, <1>2, <2>1, <2>2
<1>3. ASSUME NEW h \in Hash, Present(c, h) PROVE retired'[req'[c].presented] = None
    <2>1. req'[c] = [Idle EXCEPT !.pc = "resolved", !.presented = h,
                                 !.res = resolve_refresh_token(h)]
        BY <1>3 DEF Present, Receive, IInv, RequestType
    <2>2. req'[c].presented = h /\ req'[c].pc = "resolved" /\ req'[c].res = resolve_refresh_token(h)
        BY <2>1 DEF Idle
    <2>3. resolve_refresh_token(h).kind = "Live" => live[h] # None
        BY DEF resolve_refresh_token
    <2>4. retired[h] = None /\ retired' = retired
        BY <1>3, <2>2, <2>3 DEF Present, portVars, IInv, PortIInv, RetiredIsNotLive
    <2> QED
        BY <2>2, <2>4
<1>4. CASE ReadUser(c)
    <2>1. /\ ~rotation /\ req[c].pc = "resolved" /\ req[c].res.kind = "Live"
          /\ retired' = retired
        BY <1>4 DEF ReadUser, MayRotate, Local, portVars
    <2>2. req'[c].presented = req[c].presented
        BY <1>4 DEF ReadUser, IInv, RequestType, Request
    <2> QED
        BY <2>1, <2>2 DEF OffIsPlain
<1> QED
    BY <1>2, <1>3, <1>4, RequestMoves

\* Records kept from before a redeployment stay refused: while rotation is off, no
\* request with a retired token gets as far as the user gate, for any number of
\* requests and redeployments.
THEOREM ServiceRetiredStaysRefused == Spec => []RetiredStaysRefusedWhenOff
<1>1. Init => OffIsPlain
    BY IdleSound DEF Init, OffIsPlain
<1>2. OffIsPlain => RetiredStaysRefusedWhenOff
    BY DEF OffIsPlain, RetiredStaysRefusedWhenOff
<1> QED
    BY <1>1, <1>2, StepOff, ServiceInvariant, PTL DEF Spec

-----------------------------------------------------------------------------
(* Tokens from before rotation. *)

\* A legacy token names a row without a family, or nothing: it leaves no record.
LegacyLeavesNothing ==
    \A h \in Legacy : /\ retired[h] = None
                      /\ live[h] # None => live[h].family_id = NoFamily

\* Rows arrive under new hashes only, and the rotation of a row without a family
\* writes no record.
LEMMA StepLegacy ==
    PortIInv /\ Legacy \subseteq minted /\ LegacyLeavesNothing /\ [PortNext]_portVars
    => LegacyLeavesNothing' /\ Legacy \subseteq minted'
<1> SUFFICES ASSUME PortIInv, Legacy \subseteq minted, LegacyLeavesNothing, [PortNext]_portVars
             PROVE  LegacyLeavesNothing' /\ Legacy \subseteq minted'
    OBVIOUS
<1>0. /\ live \in [Hash -> Session \cup {None}] /\ Legacy \subseteq Hash
      /\ retired \in [Hash -> RetiredRefreshToken \cup {None}]
    BY PortAssumption DEF PortIInv, PortTypeOK
<1>1. Legacy \subseteq minted' /\ \A h \in minted : live'[h] = None \/ live'[h] = live[h]
    BY StepMonotone DEF Monotone
<1>2. \A h \in Legacy : retired'[h] = None
    <2>1. CASE Redeem
        BY <1>0, <2>1 DEF Redeem, rotate_refresh_token, LegacyLeavesNothing
    <2>2. CASE SignIn \/ Tick \/ \E h \in Hash : revoke_session(h)
        BY <2>2 DEF SignIn, store_refresh_token, Tick, revoke_session, LegacyLeavesNothing
    <2>3. CASE \E f \in families : revoke_family(f)
        BY <1>0, <2>3 DEF revoke_family, LegacyLeavesNothing
    <2>4. CASE \E u \in User : revoke_all_user_sessions(u)
        BY <1>0, <2>4 DEF revoke_all_user_sessions, LegacyLeavesNothing
    <2>5. CASE \E at \in 0..(now + 1), gone \in SUBSET Hash : cleanup_expired_sessions(at, gone)
        BY <1>0, <2>5 DEF cleanup_expired_sessions, LegacyLeavesNothing
    <2>6. CASE UNCHANGED portVars
        BY <2>6 DEF portVars, LegacyLeavesNothing
    <2> QED
        BY <2>1, <2>2, <2>3, <2>4, <2>5, <2>6 DEF PortNext
<1> QED
    BY <1>1, <1>2 DEF LegacyLeavesNothing

\* So a request that presents one finds it live or unknown, never reused.
LegacyResolvesPlainly ==
    \A c \in Client : req[c].presented \in Legacy /\ req[c].pc = "resolved" =>
        req[c].res.kind \in {"Live", "Unknown"}

LegacyInv == LegacyLeavesNothing /\ Legacy \subseteq minted /\ LegacyResolvesPlainly

\* Every step of the service keeps LegacyInv.
LEMMA StepLegacyRequest == IInv /\ LegacyInv /\ [Next]_vars => LegacyInv'
<1> SUFFICES ASSUME IInv, LegacyInv, [Next]_vars PROVE LegacyInv'
    OBVIOUS
<1>1. LegacyLeavesNothing' /\ Legacy \subseteq minted'
    BY StepService, StepLegacy DEF LegacyInv, IInv
<1>2. ASSUME NEW c \in Client, req'[c].presented \in Legacy, req'[c].pc = "resolved"
      PROVE  req'[c].res.kind \in {"Live", "Unknown"}
    <2>1. CASE req'[c] = req[c]
        BY <1>2, <2>1 DEF LegacyInv, LegacyResolvesPlainly
    <2>2. ASSUME NEW h \in Hash, Present(c, h) PROVE req'[c].res.kind \in {"Live", "Unknown"}
        <3>1. req'[c] = [Idle EXCEPT !.pc = "resolved", !.presented = h,
                                     !.res = resolve_refresh_token(h)]
            BY <2>2 DEF Present, Receive, IInv, RequestType
        <3>2. req'[c].presented = h /\ req'[c].res = resolve_refresh_token(h)
            BY <3>1 DEF Idle
        <3>3. retired[h] = None
            BY <1>2, <3>2 DEF LegacyInv, LegacyLeavesNothing
        <3> QED
            BY <3>2, <3>3 DEF resolve_refresh_token
    <2>3. ~ReadUser(c)
        BY <1>2 DEF ReadUser, IInv, RequestType, Request
    <2> QED
        BY <1>2, <2>1, <2>2, <2>3, RequestMoves
<1> QED
    BY <1>1, <1>2 DEF LegacyInv, LegacyResolvesPlainly

\* A token from before rotation is redeemed once and then unknown: no replay of it,
\* and no lost race for it, ever raises an alarm against the family it became.
THEOREM ServiceLegacyReplayIsUnknown == Spec => LegacyReplayIsUnknown
<1>1. Init => LegacyInv
    <2>1. Init => LegacyLeavesNothing /\ Legacy \subseteq minted
        BY PortAssumption DEF Init, PortInit, LegacyRow, LegacyLeavesNothing
    <2>2. Init => LegacyResolvesPlainly
        BY IdleSound DEF Init, LegacyResolvesPlainly
    <2> QED
        BY <2>1, <2>2 DEF LegacyInv
<1>2. ASSUME IInv, LegacyInv, Next, NEW c \in Client,
             req[c].presented \in Legacy, req[c].pc = "resolved"
      PROVE  req'[c].pc # "alarm"
    <2>1. req[c].res.kind \in {"Live", "Unknown"}
        BY <1>2 DEF LegacyInv, LegacyResolvesPlainly
    <2>2. ~RevokeForReuse(c)
        BY <2>1 DEF RevokeForReuse, IsReuse
    <2>3. SUFFICES ASSUME req'[c].pc = "alarm" PROVE FALSE
        OBVIOUS
    <2> QED
        BY <1>2, <2>2, <2>3, AlarmIsReuse
<1>3. IInv /\ LegacyInv /\ [Next]_vars =>
          [\A c \in Client :
             req[c].presented \in Legacy /\ req[c].pc = "resolved" => req'[c].pc # "alarm"]_vars
    BY <1>2
<1> QED
    BY <1>1, <1>3, StepLegacyRequest, ServiceInvariant, PTL DEF Spec, LegacyReplayIsUnknown
-----------------------------------------------------------------------------
(* A suspension overtakes a refresh. *)

OneOperator == \A a, b \in Admin : a = b

\* With one operator at a time, the status a status change was checked against is
\* the status it overwrites.
ReadIsCurrent ==
    \A a \in Admin : adm[a].pc = "write" => adm[a].current = status[adm[a].user]

\* The suspension or deletion of u has completed: no sweep of u's sessions is
\* outstanding, in flight or abandoned.
Swept(u) ==
    /\ status[u] # "Active"
    /\ u \notin unswept
    /\ \A a \in Admin : adm[a].pc = "revoke" => adm[a].user # u

\* Then u holds no rotated session, and no request past the user gate can still
\* rotate one.
SweptIsClean ==
    \A u \in User : Swept(u) =>
        /\ \A h \in Hash : live[h] # None /\ live[h].user_id = u =>
               live[h].generation = 0 /\ live[h].family_id # NoFamily
        /\ \A c \in Client :
               req[c].pc = "gated" /\ req[c].seen = "Active" /\ live[req[c].res.hash] # None =>
                   live[req[c].res.hash].user_id # u

\* What an operator's step does to the write in flight and to the sweeps: a status
\* is only written together with an outstanding sweep, unless it is Active or the
\* user already had it.
LEMMA SweptMoves ==
    ASSUME OneOperator, IInv, ReadIsCurrent, [Next]_vars
    PROVE  /\ ReadIsCurrent'
           /\ \A u \in User : Swept(u)' =>
                  Swept(u) \/ \E a \in Admin : AdminRevokeAll(a) /\ adm[a].user = u
<1> DEFINE Moves ==
        \A u \in User : Swept(u)' =>
            Swept(u) \/ \E a \in Admin : AdminRevokeAll(a) /\ adm[a].user = u
<1>0. adm \in [Admin -> AdminRequest] /\ status \in [User -> Status] /\ unswept \subseteq User
    BY DEF IInv, RequestType
<1>1. CASE UNCHANGED <<adm, status, unswept>>
    BY <1>1 DEF ReadIsCurrent, Swept
<1>2. ASSUME NEW a \in Admin, AdminWrite(a) PROVE ReadIsCurrent' /\ Moves
    <2> DEFINE t == adm[a].target
               u == adm[a].user
    <2>0. adm[a].current = status[u] /\ u \in User /\ t \in Status
        BY <1>2 DEF ReadIsCurrent, AdminWrite, IInv, OperatorRemembers
    <2>1. \A b \in Admin : b = a
        BY DEF OneOperator
    <2>2. CASE t # adm[a].current /\ t \in {"Suspended", "Deleted"}
        <3>1. adm'[a].pc = "revoke" /\ adm'[a].user = u /\ unswept' = unswept
            BY <1>0, <1>2, <2>2 DEF AdminWrite, AdminRequest
        <3>2. \A v \in User : v # u => status'[v] = status[v]
            BY <1>0, <1>2 DEF AdminWrite
        <3>3. \A v \in User : Swept(v)' => v # u
            BY <3>1 DEF Swept
        <3>4. adm[a].pc = "write"
            BY <1>2 DEF AdminWrite
        <3> QED
            BY <2>1, <3>1, <3>2, <3>3, <3>4 DEF Swept, ReadIsCurrent
    <2>3. CASE ~(t # adm[a].current /\ t \in {"Suspended", "Deleted"})
        <3>1. adm' = [adm EXCEPT ![a] = Quiet] /\ adm[a].pc = "write" /\ unswept' = unswept
            BY <1>0, <1>2, <2>3 DEF AdminWrite
        <3>2. adm'[a].pc = "idle"
            BY <1>0, <3>1 DEF Quiet
        <3>3. status' = [status EXCEPT ![u] = t]
            BY <1>2 DEF AdminWrite
        <3>4. t = status[u] \/ t = "Active"
            BY <2>0, <2>3 DEF Status
        <3>5. \A v \in User : status'[v] # "Active" => status'[v] = status[v]
            BY <1>0, <2>0, <3>3, <3>4
        <3> QED
            BY <2>1, <3>1, <3>2, <3>5 DEF Swept, ReadIsCurrent
    <2> QED
        BY <2>2, <2>3
<1>3. ASSUME NEW a \in Admin, AdminRevokeAll(a) PROVE ReadIsCurrent' /\ Moves
    <2>1. /\ adm'[a].pc = "idle" /\ status' = status
          /\ \A b \in Admin : b = a
        BY <1>0, <1>3 DEF AdminRevokeAll, Quiet, OneOperator
    <2>2. \A v \in User : v # adm[a].user /\ v \notin unswept' => v \notin unswept
        BY <1>3 DEF AdminRevokeAll
    <2>3. \A v \in User : v # adm[a].user /\ Swept(v)' => Swept(v)
        BY <2>1, <2>2 DEF Swept
    <2> QED
        BY <1>3, <2>1, <2>3 DEF ReadIsCurrent
<1>4. ASSUME NEW a \in Admin, NEW m \in AdminRequest, adm' = [adm EXCEPT ![a] = m],
             status' = status, adm[a].pc # "revoke" \/ adm[a].user \in unswept',
             unswept \subseteq unswept', m.pc = "write" => m.current = status[m.user]
      PROVE  ReadIsCurrent' /\ Moves
    BY <1>0, <1>4 DEF ReadIsCurrent, Swept
<1>5. ASSUME NEW a \in Admin, AdminRevokeSession(a) \/ FailAdmin(a) PROVE ReadIsCurrent' /\ Moves
    <2>1. adm' = [adm EXCEPT ![a] = Quiet] /\ status' = status
        BY <1>5 DEF AdminRevokeSession, FailAdmin
    <2>2. /\ adm[a].pc # "revoke" \/ adm[a].user \in unswept'
          /\ unswept \subseteq unswept'
        BY <1>5 DEF AdminRevokeSession, FailAdmin
    <2> QED
        BY <1>4, <2>1, <2>2, QuietSound
<1>6. ASSUME NEW a \in Admin, NEW u \in User,
             \/ \E t \in Status : AdminRead(a, u, t)
             \/ AdminEndSessions(a, u)
             \/ \E h \in Hash : AdminFindSession(a, u, h)
      PROVE  ReadIsCurrent' /\ Moves
    <2>1. ASSUME NEW t \in Status, AdminRead(a, u, t) PROVE ReadIsCurrent' /\ Moves
        <3> DEFINE m == [Quiet EXCEPT !.pc = "write", !.user = u, !.target = t,
                                      !.current = status[u]]
        <3>1. m \in AdminRequest /\ m.user = u /\ m.current = status[u]
            BY <1>0 DEF Quiet, AdminRequest
        <3>2. adm' = [adm EXCEPT ![a] = m] /\ adm[a].pc = "idle" /\ status' = status
              /\ unswept' = unswept
            BY <2>1 DEF AdminRead
        <3> HIDE DEF m
        <3> QED
            BY <1>4, <3>1, <3>2
    <2>2. ASSUME AdminEndSessions(a, u) PROVE ReadIsCurrent' /\ Moves
        <3> DEFINE m == [Quiet EXCEPT !.pc = "revoke", !.user = u]
        <3>1. m \in AdminRequest /\ m.pc = "revoke"
            BY DEF Quiet, AdminRequest
        <3>2. adm' = [adm EXCEPT ![a] = m] /\ adm[a].pc = "idle" /\ status' = status
              /\ unswept' = unswept
            BY <2>2 DEF AdminEndSessions
        <3> HIDE DEF m
        <3> QED
            BY <1>4, <3>1, <3>2
    <2>3. ASSUME NEW h \in Hash, AdminFindSession(a, u, h) PROVE ReadIsCurrent' /\ Moves
        <3>1. /\ adm' = [adm EXCEPT ![a] = [Quiet EXCEPT !.pc = "revokeOne", !.user = u,
                                                        !.family = live[h].family_id]]
              /\ adm[a].pc = "idle" /\ status' = status /\ unswept' = unswept
            BY <2>3 DEF AdminFindSession
        <3>2. adm'[a].pc = "revokeOne" /\ \A b \in Admin : b = a
            BY <1>0, <3>1 DEF Quiet, OneOperator
        <3> QED
            BY <3>1, <3>2 DEF ReadIsCurrent, Swept
    <2> QED
        BY <1>6, <2>1, <2>2, <2>3
<1>7. CASE Restart
    <2>1. /\ status' = status
          /\ \A b \in Admin : adm'[b].pc = "idle"
          /\ \A b \in Admin : adm[b].pc = "revoke" => adm[b].user \in unswept'
          /\ unswept \subseteq unswept'
        BY <1>7 DEF Restart, Quiet
    <2> QED
        BY <2>1 DEF ReadIsCurrent, Swept
<1>8. ASSUME NEW c \in Client, ClientStep(c) PROVE UNCHANGED <<adm, status, unswept>>
    BY <1>8 DEF ClientStep, RefuseUnknown, RefuseExpired, ReadUser, RefuseSuspended, Swap,
        LoseSwap, RespondWithoutRotation, Respond, RevokeForReuse, RaiseAlarm, StoreSession,
        AuditRejected, UndoStore, RevokeRefreshToken, Local, adminVars
<1>9. ASSUME NEW c \in Client,
             \/ \E h \in Hash : Present(c, h) \/ LookupForRevoke(c, h)
             \/ \E u \in User : Admit(c, u)
             \/ \E f \in Family : RevokeAccessToken(c, f)
             \/ FailRequest(c)
      PROVE  UNCHANGED <<adm, status, unswept>>
    BY <1>9 DEF Present, LookupForRevoke, Admit, RevokeAccessToken, FailRequest, Local, adminVars
<1>10. CASE Environment \/ UNCHANGED vars
    BY <1>1, <1>10 DEF Environment, adminVars, vars
<1>11. CASE Arrival
    BY <1>1, <1>6, <1>9, <1>11 DEF Arrival
<1>12. CASE Failure
    BY <1>1, <1>5, <1>9, <1>12 DEF Failure
<1> QED
    BY <1>1, <1>2, <1>3, <1>5, <1>7, <1>8, <1>10, <1>11, <1>12 DEF Next, AdminStep

\* Where a live row comes from: it was there, a sign-in stored it, or a request that
\* found its user active rotated a row of the same user.
LEMMA RowMoves ==
    ASSUME IInv, [Next]_vars, NEW h \in Hash, live'[h] # None
    PROVE  \/ live'[h] = live[h]
           \/ live'[h].generation = 0 /\ live'[h].family_id # NoFamily
           \/ \E c \in Client : /\ req[c].pc = "gated" /\ req[c].seen = "Active"
                                /\ live[req[c].res.hash] # None
                                /\ live'[h].user_id = live[req[c].res.hash].user_id
<1>0. live \in [Hash -> Session \cup {None}]
    BY DEF IInv, PortIInv, PortTypeOK
<1>1. ASSUME NEW c \in Client, NEW h2 \in Hash, NEW f \in Family, Swap(c, h2, f)
      PROVE  \/ live'[h] = live[h]
             \/ /\ req[c].pc = "gated" /\ req[c].seen = "Active"
                /\ live[req[c].res.hash] # None
                /\ live'[h].user_id = live[req[c].res.hash].user_id
    <2> DEFINE r == req[c].res
    <2>1. /\ req[c].pc = "gated" /\ req[c].seen = "Active" /\ live[r.hash] # None
          /\ live' = [live EXCEPT ![r.hash] = None, ![h2] = mint_replacement(r.session, f)]
        BY <1>1 DEF Swap, rotate_refresh_token
    <2>2. live[r.hash] = r.session
        BY <2>1 DEF IInv, Remembers
    <2>3. mint_replacement(r.session, f).user_id = r.session.user_id
        BY DEF mint_replacement
    <2> QED
        BY <1>0, <2>1, <2>2, <2>3
<1>2. ASSUME NEW c \in Client, NEW k \in Hash, NEW f \in Family, StoreSession(c, k, f)
      PROVE  \/ live'[h] = live[h]
             \/ live'[h].generation = 0 /\ live'[h].family_id # NoFamily
    BY <1>0, <1>2, PortAssumption DEF StoreSession, store_refresh_token
<1>3. ASSUME NEW c \in Client,
             \/ RefuseUnknown(c) \/ RefuseExpired(c) \/ ReadUser(c) \/ RefuseSuspended(c)
             \/ LoseSwap(c) \/ RespondWithoutRotation(c) \/ Respond(c)
             \/ RevokeForReuse(c) \/ RaiseAlarm(c) \/ AuditRejected(c) \/ UndoStore(c)
             \/ RevokeRefreshToken(c)
      PROVE  live'[h] = live[h]
    BY <1>0, <1>3 DEF RefuseUnknown, RefuseExpired, ReadUser, RefuseSuspended, LoseSwap,
        RespondWithoutRotation, Respond, RevokeForReuse, RaiseAlarm, AuditRejected, UndoStore,
        RevokeRefreshToken, Local, portVars, revoke_family, revoke_session
<1>4. ASSUME NEW a \in Admin, AdminStep(a) PROVE live'[h] = live[h]
    BY <1>0, <1>4 DEF AdminStep, AdminWrite, AdminRevokeAll, AdminRevokeSession, revoke_family,
        revoke_all_user_sessions, portVars
<1>5. CASE Arrival
    BY <1>0, <1>5 DEF Arrival, Present, LookupForRevoke, Admit, RevokeAccessToken, AdminRead,
        AdminEndSessions, AdminFindSession, revoke_family, portVars
<1>6. CASE Failure \/ Restart
    BY <1>6 DEF Failure, FailRequest, FailAdmin, Restart, Local, portVars
<1>7. CASE Environment
    BY <1>0, <1>7 DEF Environment, cleanup_expired_sessions, Tick
<1>8. CASE UNCHANGED vars
    BY <1>8 DEF vars, portVars
<1> QED
    BY <1>1, <1>2, <1>3, <1>4, <1>5, <1>6, <1>7, <1>8 DEF Next, ClientStep

\* A request past the gate holds a row that is unchanged or gone, and the gate lets
\* nobody of a suspended user through: SweptIsClean is kept.
LEMMA StepSwept ==
    ASSUME OneOperator, IInv, ReadIsCurrent, SweptIsClean, [Next]_vars
    PROVE  SweptIsClean'
<1> SUFFICES ASSUME NEW u \in User, Swept(u)'
             PROVE  /\ \A h \in Hash : live'[h] # None /\ live'[h].user_id = u =>
                           live'[h].generation = 0 /\ live'[h].family_id # NoFamily
                    /\ \A c \in Client :
                           /\ req'[c].pc = "gated" /\ req'[c].seen = "Active"
                           /\ live'[req'[c].res.hash] # None
                           => live'[req'[c].res.hash].user_id # u
    BY DEF SweptIsClean
<1>0. /\ live \in [Hash -> Session \cup {None}]
      /\ minted \subseteq Hash
    BY DEF IInv, PortIInv, PortTypeOK
<1>1. CASE \E a \in Admin : AdminRevokeAll(a) /\ adm[a].user = u
    <2>1. PICK a \in Admin : AdminRevokeAll(a) /\ adm[a].user = u
        BY <1>1
    <2>2. \A h \in Hash : live'[h] # None => live'[h].user_id # u
        BY <1>0, <2>1 DEF AdminRevokeAll, revoke_all_user_sessions
    <2>3. req' = req /\ minted' = minted
        BY <2>1 DEF AdminRevokeAll, revoke_all_user_sessions, requestVars
    <2>4. \A c \in Client : req[c].pc = "gated" => req[c].res.hash \in Hash
        BY <1>0 DEF IInv, Remembers
    <2> QED
        BY <2>2, <2>3, <2>4
<1>2. CASE Swept(u)
    <2>1. ASSUME NEW h \in Hash, live'[h] # None, live'[h].user_id = u
          PROVE  live'[h].generation = 0 /\ live'[h].family_id # NoFamily
        BY <1>2, <2>1, RowMoves DEF SweptIsClean
    <2>2. ASSUME NEW c \in Client, req'[c].pc = "gated", req'[c].seen = "Active",
                 live'[req'[c].res.hash] # None
          PROVE  live'[req'[c].res.hash].user_id # u
        <3>1. Monotone
            BY StepService, StepMonotone DEF IInv
        <3>2. CASE req'[c] = req[c]
            <4>1. req[c].res.hash \in minted
                BY <2>2, <3>2 DEF IInv, Remembers
            <4>2. live'[req[c].res.hash] = live[req[c].res.hash]
                BY <2>2, <3>1, <3>2, <4>1 DEF Monotone
            <4> QED
                BY <1>2, <2>2, <3>2, <4>2 DEF SweptIsClean
        <3>3. CASE ReadUser(c)
            <4>1. /\ req[c].pc = "resolved" /\ MayRotate(req[c].res) /\ live' = live
                  /\ req' = [req EXCEPT ![c].pc = "gated",
                                        ![c].seen = status[req[c].res.session.user_id]]
                BY <3>3 DEF ReadUser, Local, portVars
            <4>2. /\ req'[c].res = req[c].res
                  /\ req'[c].seen = status[req[c].res.session.user_id]
                BY <4>1 DEF IInv, RequestType, Request
            <4>3. req[c].res.session # None
                BY <4>1 DEF MayRotate, IInv, Remembers
            <4>4. live[req[c].res.hash] = req[c].res.session
                BY <2>2, <4>1, <4>2, <4>3 DEF IInv, Remembers
            <4> QED
                BY <1>2, <2>2, <4>1, <4>2, <4>4 DEF Swept
        <3>4. ASSUME NEW h \in Hash, Present(c, h) PROVE FALSE
            <4>1. req'[c] = [Idle EXCEPT !.pc = "resolved", !.presented = h,
                                         !.res = resolve_refresh_token(h)]
                BY <3>4 DEF Present, Receive, IInv, RequestType
            <4>2. req'[c].pc = "resolved"
                BY <4>1 DEF Idle
            <4> QED
                BY <2>2, <4>2
        <3> QED
            BY <2>2, <3>2, <3>3, <3>4, RequestMoves
    <2> QED
        BY <2>1, <2>2
<1> QED
    BY <1>1, <1>2, SweptMoves

\* With one operator at a time, a completed suspension or deletion leaves no rotated
\* session: not through a refresh that had passed the user gate before it, not
\* through a failed sweep repeated later, not across redeployments.
THEOREM ServiceRotationCannotSurviveSuspension ==
    ASSUME OneOperator PROVE Spec => []RotationCannotSurviveSuspension
<1>1. Init => ReadIsCurrent /\ SweptIsClean
    BY QuietSound DEF Init, ReadIsCurrent, SweptIsClean, Swept
<1>2. IInv /\ ReadIsCurrent /\ SweptIsClean /\ [Next]_vars => (ReadIsCurrent /\ SweptIsClean)'
    BY SweptMoves, StepSwept
<1>3. ReadIsCurrent /\ SweptIsClean => RotationCannotSurviveSuspension
    BY DEF SweptIsClean, Swept, RotationCannotSurviveSuspension
<1> QED
    BY <1>1, <1>2, <1>3, ServiceInvariant, PTL DEF Spec

-----------------------------------------------------------------------------
(* A lost answer and the retry. *)

\* A generation that was consumed by a swap, or ended by a logout.
Spent(h) == h \in ended \/ \E w \in wins : w[2] = h

\* A record that still counts names a successor that is live or was spent: nothing else
\* takes a successor away and leaves the record.
SuccessorsAccounted ==
    \A h \in Hash : retired[h] # None /\ retired[h].expires_at > now =>
        live[retired[h].successor_hash] # None \/ Spent(retired[h].successor_hash)

\* Each record is of a swap, and each swap installs a generation of its own.
RecordsAreSwaps ==
    /\ \A h \in Hash : written[h] # None =>
           \E w \in wins : w[2] = h /\ w[3] = written[h].successor_hash
    /\ \A w \in wins : w[3] \in minted /\ w[3] # w[2]
    /\ \A v, w \in wins : v[3] = w[3] => v = w

\* What a request stored itself is the first of its family, no one's successor.
StoredIsFirst ==
    \A c \in Client : req[c].pc \in {"stored", "undo"} =>
        \A w \in wins : w[3] # req[c].fresh

\* A request that found its token Retired names a successor that was spent.
RetiredIsSpent ==
    \A c \in Client : req[c].pc = "resolved" /\ req[c].res.kind = "Retired" =>
        /\ written[req[c].presented] # None
        /\ written[req[c].presented].successor_hash = req[c].res.hash
        /\ Spent(req[c].res.hash)

Asks(c, h) == req[c].presented = h /\ req[c].pc \in {"resolved", "gated"}

\* Every presentation of a token is used up once, by the request still asking or by the
\* swap it led to: they can be numbered apart.  (0 is the number of the others.)
Numbered(h) ==
    \E ask \in [Client -> 0..presented[h]], swap \in [wins -> 0..presented[h]] :
        /\ \A c \in Client : Asks(c, h) => ask[c] > 0
        /\ \A w \in wins : w[1] = h => swap[w] > 0
        /\ \A c, d \in Client : Asks(c, h) /\ Asks(d, h) /\ ask[c] = ask[d] => c = d
        /\ \A v, w \in wins : v[1] = h /\ w[1] = h /\ swap[v] = swap[w] => v = w
        /\ \A c \in Client, w \in wins : Asks(c, h) /\ w[1] = h => ask[c] # swap[w]

RetryInv ==
    /\ Succession
    /\ SuccessorsAccounted
    /\ RecordsAreSwaps
    /\ StoredIsFirst
    /\ RetiredIsSpent
    /\ \A h \in Hash : Numbered(h)

-----------------------------------------------------------------------------
(* The steps that matter to them. *)

\* What takes rows of many sessions away at once.
Revocation ==
    \/ \E f \in Family : revoke_family(f)
    \/ \E u \in User : revoke_all_user_sessions(u)
    \/ cleanup_expired_sessions(now, Hash)

\* A revocation or a sweep that leaves a record that still counts leaves the successor it names.
LEMMA RevocationTakesBoth ==
    ASSUME PortIInv, Succession, Revocation,
           NEW h \in Hash, retired'[h] # None, retired'[h].expires_at > now
    PROVE  /\ retired'[h] = retired[h]
           /\ live'[retired[h].successor_hash] = live[retired[h].successor_hash]
<1> DEFINE k == retired[h].successor_hash
<1>0. /\ live \in [Hash -> Session \cup {None}]
      /\ retired \in [Hash -> RetiredRefreshToken \cup {None}] /\ now \in Nat
    BY DEF PortIInv, PortTypeOK
<1>1. retired'[h] = retired[h]
    BY DEF Revocation, revoke_family, revoke_all_user_sessions, cleanup_expired_sessions
<1>2. k \in Hash /\ retired[h] \in RetiredRefreshToken /\ live[k] \in Session \cup {None}
    BY <1>0, <1>1 DEF RetiredRefreshToken
<1>3. live[k] # None => /\ live[k].family_id = retired[h].family_id
                        /\ live[k].user_id = retired[h].user_id
                        /\ live[k].expires_at >= retired[h].expires_at
    BY <1>1, <1>2 DEF Succession, PortIInv, HoldsMinted
<1> HIDE DEF k
<1>4. ASSUME NEW f \in Family, revoke_family(f) PROVE live'[k] = live[k]
    <2>1. retired[h].family_id # f
        BY <1>1, <1>4 DEF revoke_family, RetiredOf
    <2>2. k \notin LiveOf(f)
        BY <1>3, <2>1 DEF LiveOf
    <2> QED
        BY <1>2, <1>4, <2>2 DEF revoke_family
<1>5. ASSUME NEW u \in User, revoke_all_user_sessions(u) PROVE live'[k] = live[k]
    <2>1. retired[h].user_id # u
        BY <1>1, <1>5 DEF revoke_all_user_sessions
    <2>2. ~(live[k] # None /\ live[k].user_id = u)
        BY <1>3, <2>1
    <2> QED
        BY <1>2, <1>5, <2>2 DEF revoke_all_user_sessions
<1>6. ASSUME cleanup_expired_sessions(now, Hash) PROVE live'[k] = live[k]
    <2>1. live[k] # None => ~(live[k].expires_at < now)
        BY <1>0, <1>1, <1>2, <1>3 DEF Session, RetiredRefreshToken
    <2> QED
        BY <1>1, <1>2, <1>6, <2>1 DEF cleanup_expired_sessions
<1> QED
    BY <1>1, <1>4, <1>5, <1>6 DEF Revocation, k

\* What a step can do to the history and to the tables.
LEMMA ServiceMoves ==
    ASSUME IInv, [Next]_vars
    PROVE  \/ \E c \in Client, h2 \in Hash, f \in Family : Swap(c, h2, f)
           \/ \E c \in Client, h \in Hash : Present(c, h)
           \/ \E c \in Client, h \in Hash, f \in Family : StoreSession(c, h, f)
           \/ \E c \in Client : UndoStore(c) \/ RevokeRefreshToken(c)
           \/ Revocation /\ UNCHANGED <<wins, presented, ended>>
           \/ UNCHANGED <<live, retired, written, wins, presented, ended>> /\ now' \in Nat /\ now' >= now
<1> USE DEF portVars, requestVars
<1>0. now \in Nat /\ families \subseteq Family
    BY DEF IInv, PortIInv, PortTypeOK
<1>1. ASSUME NEW c \in Client, ClientStep(c)
      PROVE  \/ \E h2 \in Hash, f \in Family : Swap(c, h2, f)
             \/ \E h \in Hash, f \in Family : StoreSession(c, h, f)
             \/ UndoStore(c) \/ RevokeRefreshToken(c)
             \/ Revocation /\ UNCHANGED <<wins, presented, ended>>
             \/ UNCHANGED <<live, retired, written, wins, presented, ended, now>>
    <2>1. ASSUME RevokeForReuse(c) PROVE Revocation /\ UNCHANGED <<wins, presented, ended>>
        <3>1. req[c].res.family_id \in Family
            BY <1>0, <2>1 DEF RevokeForReuse, IsReuse, IInv, Remembers
        <3> QED
            BY <2>1, <3>1 DEF RevokeForReuse, Revocation
    <2>2. ASSUME \/ RefuseUnknown(c) \/ RefuseExpired(c) \/ ReadUser(c) \/ RefuseSuspended(c)
                 \/ LoseSwap(c) \/ RespondWithoutRotation(c) \/ Respond(c) \/ RaiseAlarm(c)
                 \/ AuditRejected(c)
          PROVE  UNCHANGED <<live, retired, written, wins, presented, ended, now>>
        BY <2>2 DEF RefuseUnknown, RefuseExpired, ReadUser, RefuseSuspended, LoseSwap,
            RespondWithoutRotation, Respond, RaiseAlarm, AuditRejected, Local
    <2> QED
        BY <1>1, <2>1, <2>2 DEF ClientStep
<1>2. ASSUME NEW a \in Admin, AdminStep(a)
      PROVE  \/ Revocation /\ UNCHANGED <<wins, presented, ended>>
             \/ UNCHANGED <<live, retired, written, wins, presented, ended, now>>
    <2>1. ASSUME AdminRevokeAll(a) PROVE Revocation /\ UNCHANGED <<wins, presented, ended>>
        BY <2>1 DEF AdminRevokeAll, Revocation, IInv, OperatorRemembers
    <2>2. ASSUME AdminRevokeSession(a) PROVE Revocation /\ UNCHANGED <<wins, presented, ended>>
        BY <1>0, <2>2 DEF AdminRevokeSession, Revocation, IInv, OperatorRemembers
    <2> QED
        BY <1>2, <2>1, <2>2 DEF AdminStep, AdminWrite
<1>3. CASE Arrival
    <2>1. ASSUME NEW c \in Client, NEW f \in Family, RevokeAccessToken(c, f)
          PROVE  Revocation /\ UNCHANGED <<wins, presented, ended>>
        BY <2>1 DEF RevokeAccessToken, Revocation
    <2>2. ASSUME \/ \E c \in Client, h \in Hash : LookupForRevoke(c, h)
                 \/ \E c \in Client, u \in User : Admit(c, u)
                 \/ \E a \in Admin, u \in User, t \in Status : AdminRead(a, u, t)
                 \/ \E a \in Admin, u \in User : AdminEndSessions(a, u)
                 \/ \E a \in Admin, u \in User, h \in Hash : AdminFindSession(a, u, h)
          PROVE  UNCHANGED <<live, retired, written, wins, presented, ended, now>>
        BY <2>2 DEF LookupForRevoke, Admit, AdminRead, AdminEndSessions, AdminFindSession
    <2> QED
        BY <1>0, <1>3, <2>1, <2>2 DEF Arrival
<1>4. CASE Failure
    BY <1>0, <1>4 DEF Failure, FailRequest, FailAdmin, Local
<1>5. CASE Restart
    BY <1>0, <1>5 DEF Restart
<1>6. CASE Environment
    BY <1>0, <1>6 DEF Environment, Revocation, Tick
<1>7. CASE UNCHANGED vars
    BY <1>0, <1>7 DEF vars
<1> QED
    BY <1>0, <1>1, <1>2, <1>3, <1>4, <1>5, <1>6, <1>7 DEF Next

\* A swap, as the records see it.
LEMMA SwapRecords ==
    ASSUME IInv, NEW c \in Client, NEW h2 \in Hash, NEW f \in Family, Swap(c, h2, f)
    PROVE  /\ req[c].presented \in Hash /\ req[c].res.hash \in minted /\ h2 \notin minted
           /\ wins' = wins \cup {<<req[c].presented, req[c].res.hash, h2>>}
           /\ UNCHANGED <<presented, ended, now>>
           /\ req' = [req EXCEPT ![c] = [req[c] EXCEPT !.pc = "rotated", !.fresh = h2]]
           /\ live'[h2] # None
           /\ \A k \in Hash \ {h2, req[c].res.hash} : live'[k] = live[k]
           /\ \A k \in Hash :
                 \/ retired'[k] = retired[k] /\ written'[k] = written[k]
                 \/ /\ k = req[c].res.hash /\ written'[k] # None
                    /\ retired'[k] = written'[k] /\ written'[k].successor_hash = h2
<1> DEFINE r == req[c].res
           s == mint_replacement(r.session, f)
           rec == [family_id |-> live[r.hash].family_id, user_id |-> live[r.hash].user_id,
                   successor_hash |-> h2, retired_at |-> now,
                   expires_at |-> retention_deadline(now, s.expires_at)]
           kept == live[r.hash].family_id # NoFamily
<1>0. /\ live \in [Hash -> Session \cup {None}] /\ minted \subseteq Hash
      /\ retired \in [Hash -> RetiredRefreshToken \cup {None}]
      /\ written \in [Hash -> RetiredRefreshToken \cup {None}] /\ now \in Nat
    BY DEF IInv, PortIInv, PortTypeOK
<1>1. /\ req[c].presented \in Hash /\ r.hash \in minted /\ h2 \notin minted
      /\ req[c].pc = "gated" /\ live[r.hash] # None
    BY DEF Swap, IInv, Remembers
<1>2. /\ live' = [live EXCEPT ![r.hash] = None, ![h2] = s]
      /\ retired' = IF kept THEN [retired EXCEPT ![r.hash] = rec] ELSE retired
      /\ written' = IF kept THEN [written EXCEPT ![r.hash] = rec] ELSE written
      /\ UNCHANGED now
    BY DEF Swap, rotate_refresh_token
<1>3. live[r.hash] = r.session /\ live[r.hash] \in Session
    BY <1>0, <1>1 DEF IInv, Remembers
<1>4. s # None /\ s \in Session
    <2>1. IF r.session.family_id = NoFamily THEN f \notin families ELSE f = r.session.family_id
        BY DEF Swap
    <2>2. s = [user_id |-> r.session.user_id, family_id |-> f,
               generation |-> r.session.generation + 1, expires_at |-> r.session.expires_at]
        BY <2>1 DEF mint_replacement
    <2>3. /\ r.session.user_id \in User /\ r.session.generation + 1 \in Nat
          /\ r.session.expires_at \in Nat
        BY <1>3 DEF Session
    <2> QED
        BY <2>2, <2>3, PortAssumption DEF Session
<1>5. kept => rec \in RetiredRefreshToken /\ rec # None
    <2>1. /\ live[r.hash].user_id \in User
          /\ live[r.hash].family_id \in Family \cup {NoFamily} /\ s.expires_at \in Nat
        BY <1>3, <1>4 DEF Session
    <2>2. retention_deadline(now, s.expires_at) \in Nat
        BY <1>0, <2>1, DeadlineType
    <2>3. kept => rec \in RetiredRefreshToken
        BY <1>0, <2>1, <2>2 DEF RetiredRefreshToken
    <2> QED
        BY <2>3, PortAssumption
<1>6. rec.successor_hash = h2
    OBVIOUS
<1>7. /\ UNCHANGED <<presented, ended>>
      /\ wins' = wins \cup {<<req[c].presented, r.hash, h2>>}
      /\ req' = [req EXCEPT ![c] = [req[c] EXCEPT !.pc = "rotated", !.fresh = h2]]
    BY DEF Swap, IInv, RequestType, Request
<1> HIDE DEF s, rec
<1>8. /\ live'[h2] # None
      /\ \A k \in Hash \ {h2, r.hash} : live'[k] = live[k]
    BY <1>0, <1>2, <1>4
<1>9. \A k \in Hash :
         \/ retired'[k] = retired[k] /\ written'[k] = written[k]
         \/ /\ k = r.hash /\ written'[k] # None
            /\ retired'[k] = written'[k] /\ written'[k].successor_hash = h2
    BY <1>0, <1>2, <1>5, <1>6
<1> QED
    BY <1>1, <1>2, <1>7, <1>8, <1>9

\* A presentation, as the history sees it.
LEMMA PresentCounts ==
    ASSUME IInv, NEW c \in Client, NEW h \in Hash, Present(c, h)
    PROVE  /\ UNCHANGED <<portVars, wins, ended>>
           /\ presented' = [presented EXCEPT ![h] = presented[h] + 1]
           /\ req[c].pc = "idle"
           /\ req' = [req EXCEPT ![c] = req'[c]]
           /\ req'[c].pc = "resolved" /\ req'[c].presented = h
           /\ req'[c].res = resolve_refresh_token(h)
<1>1. /\ req' = [req EXCEPT ![c] = [Idle EXCEPT !.pc = "resolved", !.presented = h,
                                                !.res = resolve_refresh_token(h)]]
      /\ req[c].pc = "idle"
    BY DEF Present, Receive
<1>2. req'[c] = [Idle EXCEPT !.pc = "resolved", !.presented = h,
                             !.res = resolve_refresh_token(h)]
    BY <1>1 DEF IInv, RequestType
<1> QED
    BY <1>1, <1>2 DEF Present, Idle, IInv, RequestType

\* The history is never rewritten.
LEMMA HistoryGrows ==
    ASSUME IInv, [Next]_vars
    PROVE  /\ wins \subseteq wins' /\ ended \subseteq ended'
           /\ (\E c \in Client, h2 \in Hash, f \in Family : Swap(c, h2, f))
              \/ UNCHANGED <<wins, written>>
           /\ (\E c \in Client, h \in Hash : Present(c, h)) \/ UNCHANGED presented
    BY ServiceMoves DEF Swap, Present, StoreSession, UndoStore, RevokeRefreshToken, Revocation,
       revoke_session, revoke_family, revoke_all_user_sessions, cleanup_expired_sessions,
       store_refresh_token, portVars

\* A swap installs a new hash, and the record it files is of that swap.
LEMMA StepRecordsAreSwaps == IInv /\ RecordsAreSwaps /\ [Next]_vars => RecordsAreSwaps'
<1> SUFFICES ASSUME IInv, RecordsAreSwaps, [Next]_vars PROVE RecordsAreSwaps'
    OBVIOUS
<1>0. minted \subseteq minted' /\ minted' \subseteq Hash
    BY StepService, StepMonotone DEF Monotone, IInv, PortIInv, PortTypeOK
<1>1. CASE UNCHANGED <<wins, written>>
    BY <1>0, <1>1 DEF RecordsAreSwaps
<1>2. ASSUME NEW c \in Client, NEW h2 \in Hash, NEW f \in Family, Swap(c, h2, f)
      PROVE  RecordsAreSwaps'
    <2> DEFINE w == <<req[c].presented, req[c].res.hash, h2>>
    <2>0. \A k \in Hash :
             \/ retired'[k] = retired[k] /\ written'[k] = written[k]
             \/ /\ k = req[c].res.hash /\ written'[k] # None
                /\ retired'[k] = written'[k] /\ written'[k].successor_hash = h2
        BY <1>2, SwapRecords
    <2>1. /\ req[c].presented \in Hash /\ req[c].res.hash \in minted /\ h2 \notin minted
          /\ wins' = wins \cup {w}
        BY <1>2, SwapRecords
    <2>2. w[1] = req[c].presented /\ w[2] = req[c].res.hash /\ w[3] = h2
        OBVIOUS
    <2>3. h2 \in minted'
        BY <1>2 DEF Swap, rotate_refresh_token
    <2> HIDE DEF w
    <2>4. \A h \in Hash : written'[h] # None =>
              \E v \in wins' : v[2] = h /\ v[3] = written'[h].successor_hash
        BY <2>0, <2>1, <2>2 DEF RecordsAreSwaps
    <2>5. \A v \in wins' : v[3] \in minted' /\ v[3] # v[2]
        BY <1>0, <2>1, <2>2, <2>3 DEF RecordsAreSwaps
    <2>6. \A v, x \in wins' : v[3] = x[3] => v = x
        BY <2>1, <2>2 DEF RecordsAreSwaps
    <2> QED
        BY <2>4, <2>5, <2>6 DEF RecordsAreSwaps
<1> QED
    BY <1>1, <1>2, HistoryGrows

\* A successor leaves by a swap or a logout, or its record leaves with it: the undone
\* sign-in takes back the first generation of its family only.
LEMMA StepAccounted ==
    ASSUME IInv, Succession, SuccessorsAccounted, RecordsAreSwaps, StoredIsFirst, [Next]_vars
    PROVE  SuccessorsAccounted'
<1>0. /\ live \in [Hash -> Session \cup {None}] /\ minted \subseteq Hash
      /\ retired \in [Hash -> RetiredRefreshToken \cup {None}] /\ now \in Nat
    BY DEF IInv, PortIInv, PortTypeOK
<1> SUFFICES ASSUME NEW h \in Hash, retired'[h] # None, retired'[h].expires_at > now',
                    NEW k, k = retired'[h].successor_hash
             PROVE  live'[k] # None \/ Spent(k)'
    BY DEF SuccessorsAccounted
<1>1. Spent(k) => Spent(k)'
    BY HistoryGrows DEF Spent
<1>2. ASSUME retired'[h] = retired[h], now' = now, live'[k] # None \/ live'[k] = live[k]
      PROVE  live'[k] # None \/ Spent(k)'
    BY <1>1, <1>2 DEF SuccessorsAccounted
<1>3. retired'[h] = retired[h] =>
          /\ k \in minted /\ k \in Hash /\ retired[h].expires_at \in Nat
          /\ \E w \in wins : w[2] = h /\ w[3] = k
    BY <1>0 DEF IInv, PortIInv, RetiredIsNotLive, HoldsMinted, RecordsAreSwaps, RetiredRefreshToken
<1>4. ASSUME NEW c \in Client, NEW h2 \in Hash, NEW f \in Family, Swap(c, h2, f)
      PROVE  live'[k] # None \/ Spent(k)'
    <2>1. /\ now' = now /\ h2 \notin minted /\ live'[h2] # None
          /\ wins' = wins \cup {<<req[c].presented, req[c].res.hash, h2>>}
          /\ \A j \in Hash \ {h2, req[c].res.hash} : live'[j] = live[j]
        BY <1>4, SwapRecords
    <2>2. retired'[h] = retired[h] \/ k = h2
        <3>1. \A j \in Hash :
                 \/ retired'[j] = retired[j] /\ written'[j] = written[j]
                 \/ /\ j = req[c].res.hash /\ written'[j] # None
                    /\ retired'[j] = written'[j] /\ written'[j].successor_hash = h2
            BY <1>4, SwapRecords
        <3> QED
            BY <3>1
    <2>3. CASE k = h2
        BY <2>1, <2>3
    <2>4. CASE k = req[c].res.hash
        <3>1. <<req[c].presented, req[c].res.hash, h2>>[2] = k
            BY <2>4
        <3> QED
            BY <2>1, <3>1 DEF Spent
    <2>5. CASE k # h2 /\ k # req[c].res.hash
        BY <1>2, <1>3, <2>1, <2>2, <2>5
    <2> QED
        BY <2>3, <2>4, <2>5
<1>5. ASSUME NEW c \in Client, NEW j \in Hash, Present(c, j) PROVE live'[k] # None \/ Spent(k)'
    BY <1>2, <1>5, PresentCounts DEF portVars
<1>6. ASSUME NEW c \in Client, NEW j \in Hash, NEW f \in Family, StoreSession(c, j, f)
      PROVE  live'[k] # None \/ Spent(k)'
    <2>1. /\ j \notin minted /\ retired' = retired /\ now' = now
          /\ \A i \in Hash \ {j} : live'[i] = live[i]
        BY <1>0, <1>6 DEF StoreSession, store_refresh_token
    <2> QED
        BY <1>2, <1>3, <2>1
<1>7. ASSUME NEW c \in Client, UndoStore(c) PROVE live'[k] # None \/ Spent(k)'
    <2>1. /\ retired' = retired /\ now' = now /\ req[c].pc = "undo"
          /\ \A i \in Hash \ {req[c].fresh} : live'[i] = live[i]
        BY <1>0, <1>7 DEF UndoStore, revoke_session
    <2>2. k # req[c].fresh
        BY <1>3, <2>1 DEF StoredIsFirst
    <2> QED
        BY <1>2, <1>3, <2>1, <2>2
<1>8. ASSUME NEW c \in Client, RevokeRefreshToken(c) PROVE live'[k] # None \/ Spent(k)'
    <2>1. /\ retired' = retired /\ now' = now /\ req[c].presented \in ended'
          /\ \A i \in Hash \ {req[c].presented} : live'[i] = live[i]
        BY <1>0, <1>8 DEF RevokeRefreshToken, revoke_session
    <2> QED
        BY <1>2, <1>3, <2>1 DEF Spent
<1>9. CASE Revocation
    <2>1. now' = now
        BY <1>9 DEF Revocation, revoke_family, revoke_all_user_sessions, cleanup_expired_sessions
    <2> QED
        BY <1>2, <1>9, <2>1, RevocationTakesBoth DEF IInv
<1>10. CASE UNCHANGED <<live, retired>> /\ now' \in Nat /\ now' >= now
    <2>1. retired[h].expires_at > now
        BY <1>0, <1>3, <1>10
    <2> QED
        BY <1>1, <1>10, <2>1 DEF SuccessorsAccounted
<1> QED
    BY <1>4, <1>5, <1>6, <1>7, <1>8, <1>9, <1>10, ServiceMoves

\* How a request comes to hold a session it stored: it did before, or it just stored it.
LEMMA StoredMoves ==
    ASSUME IInv, [Next]_vars, NEW c \in Client, req'[c].pc \in {"stored", "undo"}
    PROVE  \/ req[c].pc \in {"stored", "undo"} /\ req'[c].fresh = req[c].fresh
           \/ \E h \in Hash, f \in Family : StoreSession(c, h, f) /\ req'[c].fresh = h
<1> DEFINE Kept == req[c].pc \in {"stored", "undo"} /\ req'[c].fresh = req[c].fresh
           Stored == \E h \in Hash, f \in Family : StoreSession(c, h, f) /\ req'[c].fresh = h
<1>0. req \in [Client -> Request]
    BY DEF IInv, RequestType
<1>1. ASSUME NEW d \in Client, ClientStep(d) PROVE Kept \/ Stored
    <2>1. CASE d # c
        <3>1. req'[c] = req[c]
            BY <1>0, <1>1, <2>1 DEF ClientStep, RefuseUnknown, RefuseExpired, ReadUser,
                RefuseSuspended, Swap, LoseSwap, RespondWithoutRotation, Respond, RevokeForReuse,
                RaiseAlarm, StoreSession, AuditRejected, UndoStore, RevokeRefreshToken
        <3> QED
            BY <3>1
    <2>2. ASSUME d = c, \E h \in Hash, f \in Family : StoreSession(d, h, f) PROVE Stored
        <3>1. PICK h \in Hash, f \in Family : StoreSession(c, h, f)
            BY <2>2
        <3>2. req' = [req EXCEPT ![c] = [req[c] EXCEPT !.pc = "stored", !.fresh = h]]
            BY <1>0, <3>1 DEF StoreSession, Request
        <3>3. req'[c] = [req[c] EXCEPT !.pc = "stored", !.fresh = h] /\ req[c] \in Request
            BY <1>0, <3>2
        <3>4. req'[c].fresh = h
            BY <3>3 DEF Request
        <3> QED
            BY <3>1, <3>4
    <2>3. ASSUME d = c, AuditRejected(d) PROVE Kept
        BY <1>0, <2>3 DEF AuditRejected, Request
    <2>4. ASSUME d = c, \/ RefuseUnknown(d) \/ RefuseExpired(d) \/ RefuseSuspended(d)
                        \/ LoseSwap(d) \/ RespondWithoutRotation(d) \/ Respond(d) \/ RaiseAlarm(d)
                        \/ UndoStore(d) \/ RevokeRefreshToken(d)
          PROVE  FALSE
        <3>1. req'[c] = Idle
            BY <1>0, <2>4 DEF RefuseUnknown, RefuseExpired, RefuseSuspended, LoseSwap,
                RespondWithoutRotation, Respond, RaiseAlarm, UndoStore, RevokeRefreshToken
        <3> QED
            BY <3>1 DEF Idle
    <2>5. ASSUME d = c, ReadUser(d) \/ RevokeForReuse(d) PROVE FALSE
        BY <1>0, <2>5 DEF ReadUser, RevokeForReuse, Request
    <2>6. ASSUME d = c, NEW h2 \in Hash, NEW f \in Family, Swap(d, h2, f) PROVE FALSE
        <3>1. req' = [req EXCEPT ![c] = [req[c] EXCEPT !.pc = "rotated", !.fresh = h2]]
            BY <2>6, SwapRecords
        <3> QED
            BY <1>0, <3>1 DEF Request
    <2> QED
        BY <1>1, <2>1, <2>2, <2>3, <2>4, <2>5, <2>6 DEF ClientStep
<1>2. ASSUME NEW a \in Admin, AdminStep(a) PROVE Kept
    BY <1>2 DEF AdminStep, AdminWrite, AdminRevokeAll, AdminRevokeSession, requestVars
<1>3. CASE Arrival
    <2>1. ASSUME NEW d \in Client, NEW h \in Hash, Present(d, h) \/ LookupForRevoke(d, h)
          PROVE  Kept
        BY <1>0, <2>1 DEF Present, LookupForRevoke, Receive, Idle
    <2>2. ASSUME NEW d \in Client, NEW u \in User, Admit(d, u) PROVE Kept
        BY <1>0, <2>2 DEF Admit, Receive, Idle
    <2>3. ASSUME NEW d \in Client, NEW f \in Family, RevokeAccessToken(d, f) PROVE Kept
        BY <1>0, <2>3 DEF RevokeAccessToken, Receive, Idle
    <2>4. ASSUME NEW a \in Admin, NEW u \in User,
                 \/ \E t \in Status : AdminRead(a, u, t)
                 \/ AdminEndSessions(a, u)
                 \/ \E h \in Hash : AdminFindSession(a, u, h)
          PROVE  Kept
        BY <2>4 DEF AdminRead, AdminEndSessions, AdminFindSession, requestVars
    <2> QED
        BY <1>3, <2>1, <2>2, <2>3, <2>4 DEF Arrival
<1>4. CASE Failure
    BY <1>0, <1>4 DEF Failure, FailRequest, FailAdmin, requestVars, Idle
<1>5. CASE Restart
    BY <1>5 DEF Restart, Idle
<1>6. CASE Environment
    BY <1>6 DEF Environment, requestVars
<1>7. CASE UNCHANGED vars
    BY <1>7 DEF vars, requestVars
<1> QED
    BY <1>1, <1>2, <1>3, <1>4, <1>5, <1>6, <1>7 DEF Next

\* No swap installs what a sign-in stored.
LEMMA StepStored ==
    IInv /\ RecordsAreSwaps /\ StoredIsFirst /\ [Next]_vars => StoredIsFirst'
<1> SUFFICES ASSUME IInv, RecordsAreSwaps, StoredIsFirst, [Next]_vars,
                    NEW c \in Client, req'[c].pc \in {"stored", "undo"}, NEW w \in wins'
             PROVE  w[3] # req'[c].fresh
    BY DEF StoredIsFirst
<1>1. CASE req[c].pc \in {"stored", "undo"} /\ req'[c].fresh = req[c].fresh
    <2>1. req[c].fresh \in minted
        BY <1>1 DEF IInv, Remembers
    <2>2. w \in wins \/ w[3] \notin minted
        <3>1. ASSUME NEW d \in Client, NEW h2 \in Hash, NEW f \in Family, Swap(d, h2, f)
              PROVE  w \in wins \/ w[3] \notin minted
            <4>1. /\ wins' = wins \cup {<<req[d].presented, req[d].res.hash, h2>>}
                  /\ h2 \notin minted
                BY <3>1, SwapRecords
            <4> QED
                BY <4>1
        <3> QED
            BY <3>1, HistoryGrows
    <2> QED
        BY <1>1, <2>1, <2>2 DEF StoredIsFirst
<1>2. ASSUME NEW h \in Hash, NEW f \in Family, StoreSession(c, h, f), req'[c].fresh = h
      PROVE  w[3] # req'[c].fresh
    BY <1>2 DEF StoreSession, RecordsAreSwaps
<1> QED
    BY <1>1, <1>2, StoredMoves

\* A request is told Retired only when the successor was spent before.
LEMMA StepRetired ==
    IInv /\ SuccessorsAccounted /\ RetiredIsSpent /\ [Next]_vars => RetiredIsSpent'
<1> SUFFICES ASSUME IInv, SuccessorsAccounted, RetiredIsSpent, [Next]_vars, NEW c \in Client,
                    req'[c].pc = "resolved", req'[c].res.kind = "Retired",
                    NEW h, h = req'[c].presented, NEW k, k = req'[c].res.hash
             PROVE  written'[h] # None /\ written'[h].successor_hash = k /\ Spent(k)'
    BY DEF RetiredIsSpent
<1>1. Spent(k) => Spent(k)'
    BY HistoryGrows DEF Spent
<1>2. CASE req'[c] = req[c]
    <2>1. h \in Hash /\ written[h] # None /\ written[h].successor_hash = k /\ Spent(k)
        BY <1>2 DEF RetiredIsSpent, IInv, Remembers
    <2> QED
        BY <1>1, <2>1, StepService, StepMonotone DEF Monotone, IInv
<1>3. ASSUME NEW j \in Hash, Present(c, j)
      PROVE  written'[h] # None /\ written'[h].successor_hash = k /\ Spent(k)'
    <2>1. h = j /\ req'[c].res = resolve_refresh_token(h) /\ UNCHANGED portVars
        BY <1>3, PresentCounts
    <2>2. /\ retired[h] # None /\ ~(retired[h].expires_at <= now)
          /\ live[retired[h].successor_hash] = None /\ k = retired[h].successor_hash
        BY <2>1 DEF resolve_refresh_token
    <2>3. written[h] = retired[h] /\ retired[h].expires_at > now
        BY <1>3, <2>1, <2>2 DEF IInv, PortIInv, HoldsMinted, PortTypeOK, RetiredRefreshToken
    <2>4. Spent(k)
        BY <1>3, <2>1, <2>2, <2>3 DEF SuccessorsAccounted
    <2> QED
        BY <1>1, <2>1, <2>2, <2>3, <2>4 DEF portVars
<1>4. ~ReadUser(c)
    BY DEF ReadUser, IInv, RequestType, Request
<1> QED
    BY <1>2, <1>3, <1>4, RequestMoves

\* A step that neither receives a presentation nor makes a swap asks for nothing new.
LEMMA NumbersKept ==
    ASSUME NEW h, Numbered(h), UNCHANGED <<wins, presented>>,
           \A c \in Client : Asks(c, h)' => Asks(c, h)
    PROVE  Numbered(h)'
BY DEF Numbered

\* A presentation gets the next number.
LEMMA NumbersGrow ==
    ASSUME IInv, NEW c \in Client, NEW j \in Hash, Present(c, j), NEW h \in Hash, Numbered(h)
    PROVE  Numbered(h)'
<1>1. /\ wins' = wins /\ req[c].pc = "idle"
      /\ presented' = [presented EXCEPT ![j] = presented[j] + 1]
      /\ req' = [req EXCEPT ![c] = req'[c]]
      /\ req'[c].presented = j
    BY PresentCounts
<1>2. /\ presented \in [Hash -> Nat] /\ presented[h] \in Nat
      /\ presented'[h] = IF h = j THEN presented[h] + 1 ELSE presented[h]
    BY <1>1 DEF IInv, RequestType
<1>3. \A d \in Client : d # c => (Asks(d, h)' <=> Asks(d, h))
    <2>1. req \in [Client -> Request]
        BY DEF IInv, RequestType
    <2>2. \A d \in Client : d # c => req'[d] = req[d]
        BY <1>1, <2>1
    <2> QED
        BY <2>2 DEF Asks
<1>4. ~Asks(c, h) /\ (Asks(c, h)' => h = j)
    BY <1>1 DEF Asks
<1>5. PICK ask \in [Client -> 0..presented[h]], swap \in [wins -> 0..presented[h]] :
          /\ \A d \in Client : Asks(d, h) => ask[d] > 0
          /\ \A w \in wins : w[1] = h => swap[w] > 0
          /\ \A d, e \in Client : Asks(d, h) /\ Asks(e, h) /\ ask[d] = ask[e] => d = e
          /\ \A v, w \in wins : v[1] = h /\ w[1] = h /\ swap[v] = swap[w] => v = w
          /\ \A d \in Client, w \in wins : Asks(d, h) /\ w[1] = h => ask[d] # swap[w]
    BY DEF Numbered
<1> DEFINE new == [ask EXCEPT ![c] = presented'[h]]
<1>6. /\ new \in [Client -> 0..presented'[h]] /\ swap \in [wins' -> 0..presented'[h]]
      /\ new[c] = presented'[h]
      /\ \A d \in Client : d # c => new[d] = ask[d]
    BY <1>1, <1>2, <1>5
<1>7. /\ \A d \in Client : ask[d] \in 0..presented[h]
      /\ \A w \in wins : swap[w] \in 0..presented[h]
    BY <1>5
<1> HIDE DEF new
<1>8. \A d \in Client : Asks(d, h)' => new[d] > 0
    BY <1>2, <1>3, <1>4, <1>5, <1>6
<1>9. \A d, e \in Client : Asks(d, h)' /\ Asks(e, h)' /\ new[d] = new[e] => d = e
    BY <1>2, <1>3, <1>4, <1>5, <1>6, <1>7
<1>10. \A d \in Client, w \in wins' : Asks(d, h)' /\ w[1] = h => new[d] # swap[w]
    BY <1>1, <1>2, <1>3, <1>4, <1>5, <1>6, <1>7
<1> QED
    BY <1>1, <1>5, <1>6, <1>8, <1>9, <1>10 DEF Numbered

\* A swap takes over the number of the request that makes it.
LEMMA NumbersPass ==
    ASSUME IInv, RecordsAreSwaps, NEW c \in Client, NEW h2 \in Hash, NEW f \in Family,
           Swap(c, h2, f), NEW h \in Hash, Numbered(h)
    PROVE  Numbered(h)'
<1> DEFINE w0 == <<req[c].presented, req[c].res.hash, h2>>
<1>1. /\ wins' = wins \cup {w0} /\ presented' = presented /\ h2 \notin minted
      /\ req' = [req EXCEPT ![c] = [req[c] EXCEPT !.pc = "rotated", !.fresh = h2]]
    BY SwapRecords
<1>2. w0[1] = req[c].presented /\ w0[3] = h2
    OBVIOUS
<1> HIDE DEF w0
<1>3. req \in [Client -> Request] /\ req[c].pc = "gated" /\ presented[h] \in Nat
    BY DEF Swap, IInv, RequestType
<1>4. \A d \in Client : d # c => req'[d] = req[d]
    BY <1>1, <1>3
<1>5. req'[c].pc = "rotated"
    <2>1. req'[c] = [req[c] EXCEPT !.pc = "rotated", !.fresh = h2] /\ req[c] \in Request
        BY <1>1, <1>3
    <2> QED
        BY <2>1 DEF Request
<1>6. w0 \notin wins
    BY <1>1, <1>2 DEF RecordsAreSwaps
<1>7. /\ \A d \in Client : Asks(d, h)' => Asks(d, h) /\ d # c
      /\ w0[1] = h => Asks(c, h)
    BY <1>2, <1>3, <1>4, <1>5 DEF Asks
<1>8. PICK ask \in [Client -> 0..presented[h]], swap \in [wins -> 0..presented[h]] :
          /\ \A d \in Client : Asks(d, h) => ask[d] > 0
          /\ \A w \in wins : w[1] = h => swap[w] > 0
          /\ \A d, e \in Client : Asks(d, h) /\ Asks(e, h) /\ ask[d] = ask[e] => d = e
          /\ \A v, w \in wins : v[1] = h /\ w[1] = h /\ swap[v] = swap[w] => v = w
          /\ \A d \in Client, w \in wins : Asks(d, h) /\ w[1] = h => ask[d] # swap[w]
    BY DEF Numbered
<1> DEFINE new == [w \in wins' |-> IF w = w0 THEN ask[c] ELSE swap[w]]
<1>9. /\ new \in [wins' -> 0..presented'[h]] /\ ask \in [Client -> 0..presented'[h]]
      /\ new[w0] = ask[c]
      /\ \A w \in wins : new[w] = swap[w]
    BY <1>1, <1>6, <1>8
<1> HIDE DEF new
<1>10. \A w \in wins' : w[1] = h => new[w] > 0
    BY <1>1, <1>7, <1>8, <1>9
<1>11. \A v, w \in wins' : v[1] = h /\ w[1] = h /\ new[v] = new[w] => v = w
    BY <1>1, <1>7, <1>8, <1>9
<1>12. \A d \in Client, w \in wins' : Asks(d, h)' /\ w[1] = h => ask[d] # new[w]
    BY <1>1, <1>7, <1>8, <1>9
<1>13. \A d, e \in Client : Asks(d, h)' /\ Asks(e, h)' /\ ask[d] = ask[e] => d = e
    BY <1>7, <1>8
<1>14. \A d \in Client : Asks(d, h)' => ask[d] > 0
    BY <1>7, <1>8
<1> QED
    BY <1>9, <1>10, <1>11, <1>12, <1>13, <1>14 DEF Numbered

\* Every step keeps the presentations numbered apart.
LEMMA StepNumbered ==
    ASSUME IInv, RecordsAreSwaps, [Next]_vars, NEW h \in Hash, Numbered(h)
    PROVE  Numbered(h)'
<1>1. CASE \E c \in Client, j \in Hash : Present(c, j)
    BY <1>1, NumbersGrow
<1>2. CASE \E c \in Client, h2 \in Hash, f \in Family : Swap(c, h2, f)
    BY <1>2, NumbersPass
<1>3. CASE /\ UNCHANGED <<wins, presented>>
           /\ ~\E c \in Client, j \in Hash : Present(c, j)
    <2>1. ASSUME NEW c \in Client, Asks(c, h)' PROVE Asks(c, h)
        <3>1. req'[c] = req[c] \/ ReadUser(c)
            BY <1>3, <2>1, RequestMoves DEF Asks
        <3>2. ASSUME ReadUser(c) PROVE Asks(c, h)
            <4>1. /\ req[c].pc = "resolved" /\ req[c] \in Request
                  /\ req'[c] = [req[c] EXCEPT !.pc = "gated",
                                              !.seen = status[req[c].res.session.user_id]]
                BY <3>2 DEF ReadUser, IInv, RequestType, Request
            <4>2. req'[c].presented = req[c].presented
                BY <4>1 DEF Request
            <4> QED
                BY <2>1, <4>1, <4>2 DEF Asks
        <3> QED
            BY <2>1, <3>1, <3>2 DEF Asks
    <2> QED
        BY <1>3, <2>1, NumbersKept
<1> QED
    BY <1>1, <1>2, <1>3, HistoryGrows

\* The service starts with nothing presented, swapped or retired.
LEMMA InitRetry == Init => RetryInv
<1> SUFFICES ASSUME Init PROVE RetryInv
    OBVIOUS
<1>1. /\ \A c \in Client : req[c].pc = "idle"
      /\ wins = {} /\ presented = [h \in Hash |-> 0]
      /\ \A h \in Hash : retired[h] = None /\ written[h] = None
    BY IdleSound DEF Init, PortInit
<1>2. ASSUME NEW h \in Hash PROVE Numbered(h)
    <2> DEFINE ask == [c \in Client |-> 0]
               swap == [w \in wins |-> 0]
    <2>1. ask \in [Client -> 0..presented[h]] /\ swap \in [wins -> 0..presented[h]]
        BY <1>1
    <2>2. \A c \in Client : ~Asks(c, h)
        BY <1>1 DEF Asks
    <2> HIDE DEF ask, swap
    <2> QED
        BY <1>1, <2>1, <2>2 DEF Numbered
<1>3. Succession /\ SuccessorsAccounted /\ RecordsAreSwaps
    BY <1>1 DEF Succession, SuccessorsAccounted, RecordsAreSwaps
<1>4. StoredIsFirst /\ RetiredIsSpent
    BY <1>1 DEF StoredIsFirst, RetiredIsSpent
<1> QED
    BY <1>2, <1>3, <1>4 DEF RetryInv

\* Every step of the service keeps RetryInv.
LEMMA StepRetry == IInv /\ RetryInv /\ [Next]_vars => RetryInv'
<1> SUFFICES ASSUME IInv, RetryInv, [Next]_vars PROVE RetryInv'
    OBVIOUS
<1>1. Succession'
    BY StepService, StepSuccession DEF IInv, RetryInv
<1>2. SuccessorsAccounted' /\ RecordsAreSwaps'
    BY StepAccounted, StepRecordsAreSwaps DEF RetryInv
<1>3. StoredIsFirst' /\ RetiredIsSpent'
    BY StepStored, StepRetired DEF RetryInv
<1>4. \A h \in Hash : Numbered(h)'
    BY StepNumbered DEF RetryInv
<1> QED
    BY <1>1, <1>2, <1>3, <1>4 DEF RetryInv

\* One retry is safe, for any number of clients and requests: a successor that is gone
\* while its predecessor's record still counts was spent, and whoever spent it had been
\* given it, or had presented the same token before.
THEOREM ServiceOneRetryIsSafe == Spec => OneRetryIsSafe
<1>1. ASSUME IInv, RetryInv, Next, NEW c \in Client,
             req[c].pc = "resolved", req'[c].pc = "alarm",
             now - req[c].res.retired_at <= Grace,
             ~(presented[req[c].presented] > 2),
             ~(presented[req[c].res.hash] > 0),
             req[c].res.hash \notin ended,
             NEW v \in wins, v[2] = req[c].presented, v[1] = req[c].presented,
             v[3] = req[c].res.hash,
             NEW w \in wins, w[2] = req[c].res.hash
      PROVE  FALSE
    <2> DEFINE h == req[c].presented
               k == req[c].res.hash
    <2>1. /\ h \in Hash /\ k \in Hash /\ presented[h] \in Nat /\ presented[k] \in Nat
          /\ Asks(c, h) /\ v # w
        BY <1>1 DEF IInv, RequestType, PortIInv, PortTypeOK, Remembers, Asks, RetryInv,
            RecordsAreSwaps
    <2>2. PICK ask \in [Client -> 0..presented[h]], swap \in [wins -> 0..presented[h]] :
              /\ \A d \in Client : Asks(d, h) => ask[d] > 0
              /\ \A x \in wins : x[1] = h => swap[x] > 0
              /\ \A d, e \in Client : Asks(d, h) /\ Asks(e, h) /\ ask[d] = ask[e] => d = e
              /\ \A x, y \in wins : x[1] = h /\ y[1] = h /\ swap[x] = swap[y] => x = y
              /\ \A d \in Client, x \in wins : Asks(d, h) /\ x[1] = h => ask[d] # swap[x]
        BY <1>1, <2>1 DEF RetryInv, Numbered
    <2>3. w[1] = h
        <3>1. w[1] = k \/ (written[w[1]] # None /\ written[w[1]].successor_hash = k)
            BY <1>1 DEF IInv, SwapsSound
        <3>2. w[1] \in Hash
            BY <1>1 DEF IInv, RequestType
        <3>3. w[1] # k
            <4> SUFFICES ASSUME w[1] = k PROVE FALSE
                OBVIOUS
            <4>1. PICK numbers \in [wins -> 0..presented[k]] : numbers[w] > 0
                BY <1>1, <2>1 DEF RetryInv, Numbered
            <4> QED
                BY <1>1, <2>1, <4>1
        <3>4. PICK x \in wins : x[2] = w[1] /\ x[3] = k
            BY <3>1, <3>2, <3>3, <1>1 DEF RetryInv, RecordsAreSwaps
        <3>5. x = v
            BY <1>1, <3>4 DEF RetryInv, RecordsAreSwaps
        <3> QED
            BY <1>1, <3>4, <3>5
    <2>4. /\ ask[c] \in 1..presented[h] /\ swap[v] \in 1..presented[h]
          /\ swap[w] \in 1..presented[h]
          /\ ask[c] # swap[v] /\ ask[c] # swap[w] /\ swap[v] # swap[w]
        BY <1>1, <2>1, <2>2, <2>3
    <2> QED
        BY <1>1, <2>1, <2>4
<1>2. ASSUME IInv, RetryInv, Next, NEW c \in Client,
             req[c].pc = "resolved", req'[c].pc = "alarm",
             now - req[c].res.retired_at <= Grace
      PROVE  \/ presented[req[c].presented] > 2
             \/ presented[req[c].res.hash] > 0
             \/ req[c].res.hash \in ended
             \/ \E w \in wins : w[2] = req[c].presented /\ w[1] # req[c].presented
    <2>1. RevokeForReuse(c)
        BY <1>2, AlarmIsReuse
    <2>2. req[c].res.kind = "Retired"
        BY <1>2, <2>1 DEF RevokeForReuse, IsReuse, within_grace
    <2>3. /\ written[req[c].presented] # None
          /\ written[req[c].presented].successor_hash = req[c].res.hash
          /\ Spent(req[c].res.hash) /\ req[c].presented \in Hash
        BY <1>2, <2>2 DEF RetryInv, RetiredIsSpent, IInv, Remembers
    <2>4. PICK v \in wins : v[2] = req[c].presented /\ v[3] = req[c].res.hash
        BY <1>2, <2>3 DEF RetryInv, RecordsAreSwaps
    <2> QED
        BY <1>1, <1>2, <2>3, <2>4 DEF Spent
<1>3. IInv /\ RetryInv /\ [Next]_vars =>
          [\A c \in Client :
             LET r == req[c].res
             IN  req[c].pc = "resolved" /\ req'[c].pc = "alarm"
                    /\ now - r.retired_at <= Grace
                 => \/ presented[req[c].presented] > 2
                    \/ presented[r.hash] > 0
                    \/ r.hash \in ended
                    \/ \E w \in wins : w[2] = req[c].presented /\ w[1] # req[c].presented]_vars
    BY <1>2
<1> QED
    BY <1>3, InitRetry, StepRetry, ServiceInvariant, PTL DEF Spec, OneRetryIsSafe

-----------------------------------------------------------------------------
(* The SQLite adapter.                                                     *)

Writing == {"deleted", "commit", "sweeping"}

CallRecord ==
    [pc : {"done", "record", "successor", "rotate", "selected", "deleted", "commit",
           "sweep", "sweeping"},
     hash : Hash \cup {None}, rec : RetiredRefreshToken \cup {None},
     row : Session \cup {None}, old : Session \cup {None}, fresh : Hash \cup {None},
     family : Family \cup {None},
     sweep : [kind : {"family", "user", "expired"}, of : Family \cup User \cup Nat] \cup {None},
     answer : {"Live", "Unknown", "Superseded", "Retired", None}]

\* No two rotations install the same hash, or move rows to the same new family.
RotationsDiffer ==
    \A p, q \in Call :
        call[p].pc \in Rotating /\ call[q].pc \in Rotating /\ p # q =>
            /\ call[p].fresh # call[q].fresh
            /\ MovesLegacy(call[p]) => call[p].family # call[q].family

\* The row of an open rotation's SELECT is the live one, unless it was overtaken.
SnapshotHolds(p) ==
    LET c == call[p]
    IN  c.pc \in {"deleted", "commit"} \/ (c.pc = "selected" /\ p \notin stale) =>
            live[c.hash] # None /\ c.old = live[c.hash]

RecordFits(p) ==
    LET c == call[p]
    IN  /\ c.pc \in {"record", "successor"} => c.hash \in Hash
        /\ c.pc = "commit" =>
             IF c.old.family_id = NoFamily THEN c.rec = None
             ELSE \E at \in 0..now :
                    c.rec = [family_id |-> c.old.family_id, user_id |-> c.old.user_id,
                             successor_hash |-> c.fresh, retired_at |-> at,
                             expires_at |-> retention_deadline(at, c.row.expires_at)]

SweepFits(p) ==
    LET c == call[p]
    IN  c.pc \in {"sweep", "sweeping"} =>
          /\ c.sweep.kind = "family" => c.sweep.of \in families
          /\ c.sweep.kind = "user" => c.sweep.of \in User
          /\ c.sweep.kind = "expired" => c.sweep.of \in 0..now

OneWriter == \A p \in Call : call[p].pc \in Writing => writer = p

CallSound(p) == RotationFits(call[p]) /\ SnapshotHolds(p) /\ RecordFits(p) /\ SweepFits(p)

SqliteIInv ==
    /\ PortIInv
    /\ call \in [Call -> CallRecord]
    /\ \A p \in Call : CallSound(p)
    /\ RotationsDiffer
    /\ OneWriter

-----------------------------------------------------------------------------
\* A call that has ended, as a record.
LEMMA DoneSound == Done \in CallRecord /\ Done.pc = "done"
BY DEF Done, CallRecord

\* The inductive invariant holds of a fresh or pre-rotation database.
LEMMA InitSqlite == SqliteInit => SqliteIInv
<1> SUFFICES ASSUME SqliteInit PROVE SqliteIInv
    OBVIOUS
<1>1. \A p \in Call : call[p] = Done
    BY DEF SqliteInit
<1>2. call \in [Call -> CallRecord]
    BY DoneSound DEF SqliteInit
<1>3. PortIInv
    BY InitPort DEF SqliteInit
<1>4. \A p \in Call : CallSound(p)
    BY <1>1, DoneSound DEF CallSound, RotationFits, SnapshotHolds, RecordFits, SweepFits, Rotating
<1>5. RotationsDiffer /\ OneWriter
    BY <1>1, DoneSound DEF RotationsDiffer, OneWriter, Rotating, Writing
<1> QED
    BY <1>2, <1>3, <1>4, <1>5 DEF SqliteIInv

\* A step of one call that leaves the tables alone disturbs no other call.
LEMMA StepLocal ==
    ASSUME SqliteIInv, UNCHANGED portVars, NEW p \in Call, NEW m \in CallRecord,
           call' = [call EXCEPT ![p] = m],
           CallSound(p)',
           m.pc \in Rotating =>
               \A q \in Call \ {p} : call[q].pc \in Rotating =>
                   /\ m.fresh # call[q].fresh
                   /\ MovesLegacy(m) \/ MovesLegacy(call[q]) => m.family # call[q].family,
           m.pc \in Writing => writer' = p,
           \A q \in Call \ {p} : call[q].pc \in Writing => writer' = q,
           \A q \in Call \ {p} : q \in stale => q \in stale'
    PROVE  SqliteIInv'
<1>0. /\ live' = live /\ minted' = minted /\ families' = families /\ now' = now
      /\ call \in [Call -> CallRecord]
    BY DEF SqliteIInv, portVars
<1>1. call' \in [Call -> CallRecord]
    BY <1>0
<1>2. PortIInv'
    BY StepPort DEF SqliteIInv
<1>3. \A q \in Call \ {p} : call'[q] = call[q] /\ CallSound(q)
    BY <1>0 DEF SqliteIInv
<1>4. \A q \in Call : CallSound(q)'
    <2> SUFFICES ASSUME NEW q \in Call \ {p} PROVE CallSound(q)'
        OBVIOUS
    <2>1. call'[q] = call[q] /\ RotationFits(call[q]) /\ SnapshotHolds(q) /\ RecordFits(q) /\ SweepFits(q)
        BY <1>3 DEF CallSound
    <2>2. RotationFits(call[q])'
        BY <1>0, <2>1 DEF RotationFits, MovesLegacy
    <2>3. SnapshotHolds(q)'
        BY <1>0, <2>1 DEF SnapshotHolds
    <2>4. RecordFits(q)'
        BY <1>0, <2>1 DEF RecordFits
    <2>5. SweepFits(q)'
        BY <1>0, <2>1 DEF SweepFits
    <2> QED
        BY <2>2, <2>3, <2>4, <2>5 DEF CallSound
<1>5. RotationsDiffer'
    <2> SUFFICES ASSUME NEW q \in Call, NEW r \in Call, q # r,
                        call'[q].pc \in Rotating, call'[r].pc \in Rotating
                 PROVE  /\ call'[q].fresh # call'[r].fresh
                        /\ MovesLegacy(call[q])' => call'[q].family # call'[r].family
        BY DEF RotationsDiffer
    <2>1. \A c \in CallRecord : MovesLegacy(c)' = MovesLegacy(c)
        BY <1>0 DEF MovesLegacy
    <2>2. call'[p] = m
        BY <1>0
    <2>3. CASE q # p /\ r # p
        BY <1>0, <1>3, <2>1, <2>3 DEF SqliteIInv, RotationsDiffer, MovesLegacy
    <2>4. CASE q = p
        BY <1>0, <1>3, <2>2, <2>4 DEF MovesLegacy
    <2>5. CASE r = p
        BY <1>0, <1>3, <2>2, <2>5 DEF MovesLegacy
    <2> QED
        BY <2>3, <2>4, <2>5
<1>6. OneWriter'
    BY <1>0, <1>3 DEF OneWriter, SqliteIInv
<1> QED
    BY <1>1, <1>2, <1>4, <1>5, <1>6 DEF SqliteIInv

\* The end of a call that wrote nothing: an answer, a refusal or a roll-back.
LEMMA StepEnds ==
    ASSUME SqliteIInv, UNCHANGED portVars, NEW p \in Call, NEW m \in CallRecord,
           call' = [call EXCEPT ![p] = m], m.pc = "done",
           \A q \in Call \ {p} : call[q].pc \in Writing => writer' = q,
           \A q \in Call \ {p} : q \in stale => q \in stale'
    PROVE  SqliteIInv'
<1>1. call'[p] = m
    BY DEF SqliteIInv
<1>2. CallSound(p)'
    BY <1>1 DEF CallSound, RotationFits, SnapshotHolds, RecordFits, SweepFits, Rotating
<1>3. m.pc \notin Rotating /\ m.pc \notin Writing
    BY DEF Rotating, Writing
<1> QED
    BY <1>2, <1>3, StepLocal

\* The three reads of resolve_refresh_token.
LEMMA StepReads ==
    ASSUME SqliteIInv, NEW p \in Call,
           \/ \E h \in minted : ReadPresented(p, h)
           \/ get_retired_record(p) \/ ReadSuccessor(p)
    PROVE  SqliteIInv' /\ UNCHANGED portVars
<1>0. /\ call \in [Call -> CallRecord]
      /\ OneWriter
      /\ minted \subseteq Hash /\ retired \in [Hash -> RetiredRefreshToken \cup {None}]
    BY DEF SqliteIInv, PortIInv, PortTypeOK
<1>1. UNCHANGED portVars /\ writer' = writer /\ stale' = stale
    BY DEF ReadPresented, get_retired_record, ReadSuccessor
<1>2. ASSUME NEW m \in CallRecord, call' = [call EXCEPT ![p] = m],
             m.pc = "done" \/ (m.pc \in {"record", "successor"} /\ m.hash \in Hash)
      PROVE  SqliteIInv'
    <2>1. CASE m.pc = "done"
        BY <1>0, <1>1, <1>2, <2>1, StepEnds DEF OneWriter
    <2>2. CASE m.pc \in {"record", "successor"} /\ m.hash \in Hash
        <3>1. call'[p] = m
            BY <1>0, <1>2
        <3>2. CallSound(p)'
            BY <2>2, <3>1 DEF CallSound, RotationFits, SnapshotHolds, RecordFits, SweepFits, Rotating
        <3>3. m.pc \notin Rotating /\ m.pc \notin Writing
            BY <2>2 DEF Rotating, Writing
        <3> QED
            BY <1>0, <1>1, <1>2, <3>2, <3>3, StepLocal DEF OneWriter
    <2> QED
        BY <1>2, <2>1, <2>2
<1>3. ASSUME NEW h \in minted, ReadPresented(p, h) PROVE SqliteIInv'
    <2>1. CASE get_session_by_refresh_token(h) # None
        <3> DEFINE m == [Done EXCEPT !.hash = h, !.answer = "Live"]
        <3>1. m \in CallRecord /\ m.pc = "done"
            BY <1>0, <1>3 DEF Done, CallRecord
        <3>2. call' = [call EXCEPT ![p] = m]
            BY <1>3, <2>1 DEF ReadPresented
        <3> HIDE DEF m
        <3> QED
            BY <1>2, <3>1, <3>2
    <2>2. CASE ~(get_session_by_refresh_token(h) # None)
        <3> DEFINE m == [Done EXCEPT !.hash = h, !.pc = "record"]
        <3>1. m \in CallRecord /\ m.pc = "record" /\ m.hash \in Hash
            BY <1>0, <1>3 DEF Done, CallRecord
        <3>2. call' = [call EXCEPT ![p] = m]
            BY <1>3, <2>2 DEF ReadPresented
        <3> HIDE DEF m
        <3> QED
            BY <1>2, <3>1, <3>2
    <2> QED
        BY <2>1, <2>2
<1>4. ASSUME get_retired_record(p) PROVE SqliteIInv'
    <2> DEFINE rec == retired[call[p].hash]
    <2>0. call[p].hash \in Hash
        BY <1>4 DEF SqliteIInv, CallSound, RecordFits, get_retired_record
    <2>1. CASE rec = None \/ rec.expires_at <= now
        <3> DEFINE m == [Done EXCEPT !.hash = call[p].hash, !.answer = "Unknown"]
        <3>1. m \in CallRecord /\ m.pc = "done"
            BY <2>0 DEF Done, CallRecord
        <3>2. call' = [call EXCEPT ![p] = m]
            BY <1>4, <2>1 DEF get_retired_record
        <3> HIDE DEF m
        <3> QED
            BY <1>2, <3>1, <3>2
    <2>2. CASE ~(rec = None \/ rec.expires_at <= now)
        <3> DEFINE m == [call[p] EXCEPT !.pc = "successor", !.rec = rec]
        <3>1. m \in CallRecord /\ m.pc = "successor" /\ m.hash \in Hash
            BY ZenonT(60), <1>0, <2>0 DEF CallRecord
        <3>2. call' = [call EXCEPT ![p] = m]
            BY <1>0, <1>4, <2>2 DEF get_retired_record
        <3> HIDE DEF m
        <3> QED
            BY <1>2, <3>1, <3>2
    <2> QED
        BY <2>1, <2>2
<1>5. ASSUME ReadSuccessor(p) PROVE SqliteIInv'
    <2> DEFINE kind == IF get_session_by_refresh_token(call[p].rec.successor_hash) # None
                       THEN "Superseded" ELSE "Retired"
               m == [Done EXCEPT !.hash = call[p].hash, !.answer = kind]
    <2>1. m \in CallRecord /\ m.pc = "done"
        BY <1>0 DEF Done, CallRecord
    <2>2. call' = [call EXCEPT ![p] = m]
        BY <1>5 DEF ReadSuccessor
    <2> HIDE DEF m
    <2> QED
        BY <1>2, <2>1, <2>2
<1> QED
    BY <1>1, <1>3, <1>4, <1>5

\* A rotation is called with the live row, and its new hash and family are its own.
LEMMA StepCallRotate ==
    ASSUME SqliteIInv, NEW p \in Call, NEW h \in Hash, NEW h2 \in FreshHash, NEW f \in Family,
           CallRotate(p, h, h2, f)
    PROVE  SqliteIInv' /\ UNCHANGED portVars
<1> DEFINE row == [live[h] EXCEPT !.family_id = f, !.generation = @ + 1]
           m == [Done EXCEPT !.pc = "rotate", !.hash = h, !.fresh = h2, !.row = row, !.family = f]
<1>0. /\ UNCHANGED portVars /\ writer' = writer /\ stale' = stale
      /\ live' = live /\ minted' = minted /\ families' = families
      /\ live[h] # None /\ call' = [call EXCEPT ![p] = m]
    BY DEF CallRotate, portVars
<1>1. /\ call \in [Call -> CallRecord] /\ OneWriter /\ live \in [Hash -> Session \cup {None}]
      /\ minted \subseteq Hash /\ live[h] \in Session /\ h \in minted
      /\ live[h].family_id \in families \cup {NoFamily} /\ families \subseteq Family
    BY <1>0 DEF SqliteIInv, PortIInv, PortTypeOK, HoldsMinted
<1>2. /\ row \in Session /\ row.family_id = f /\ row.user_id = live[h].user_id
      /\ row.generation = live[h].generation + 1 /\ row.expires_at = live[h].expires_at
    <2>1. PICK g \in Nat : g = live[h].generation + 1
        BY <1>1 DEF Session
    <2>2. row = [live[h] EXCEPT !.family_id = f, !.generation = g]
        BY <2>1
    <2> HIDE DEF row
    <2> QED
        BY <1>1, <2>1, <2>2 DEF Session
<1>3. /\ m \in CallRecord /\ m.pc = "rotate" /\ m.hash = h /\ m.fresh = h2 /\ m.row = row
      /\ m.family = f
    BY <1>2 DEF Done, CallRecord, FreshHash
<1>4. h2 \in Hash \ minted /\ \A q \in Call : call[q].fresh # h2
    BY DEF FreshHash
<1>5. /\ live[h].family_id # NoFamily => f = live[h].family_id
      /\ live[h].family_id = NoFamily => f \notin families /\ \A q \in Call : call[q].family # f
    BY DEF CallRotate, FreshFamily
<1> HIDE DEF row, m
<1>6. call'[p] = m
    BY <1>0, <1>1
<1>7. CallSound(p)'
    <2>1. RotationFits(call[p])'
        BY <1>0, <1>1, <1>2, <1>3, <1>4, <1>5, <1>6 DEF RotationFits, MovesLegacy
    <2> QED
        BY <1>3, <1>6, <2>1 DEF CallSound, SnapshotHolds, RecordFits, SweepFits
<1>8. ASSUME NEW q \in Call \ {p}, call[q].pc \in Rotating
      PROVE  /\ m.fresh # call[q].fresh
             /\ MovesLegacy(m) \/ MovesLegacy(call[q]) => m.family # call[q].family
    <2>1. m.fresh # call[q].fresh
        BY <1>3, <1>4
    <2>2. CASE live[h].family_id = NoFamily
        BY <1>3, <1>5, <2>1, <2>2
    <2>3. CASE live[h].family_id # NoFamily
        <3>1. ~MovesLegacy(m) /\ f \in families
            BY <1>1, <1>3, <1>5, <2>3 DEF MovesLegacy
        <3>2. MovesLegacy(call[q]) => call[q].family \notin families
            BY <1>8 DEF SqliteIInv, CallSound, RotationFits
        <3> QED
            BY <1>3, <2>1, <3>1, <3>2
    <2> QED
        BY <2>2, <2>3
<1>9. m.pc \notin Writing
    BY <1>3 DEF Writing
<1> QED
    BY <1>0, <1>1, <1>3, <1>7, <1>8, <1>9, StepLocal DEF OneWriter

\* A rotation moves on inside its transaction.
LEMMA StepRotating ==
    ASSUME SqliteIInv, NEW p \in Call, RotateSelect(p) \/ RotateDelete(p) \/ RotateInsert(p)
    PROVE  SqliteIInv' /\ UNCHANGED portVars
<1>0. /\ UNCHANGED portVars /\ stale' = stale
      /\ live' = live /\ minted' = minted /\ families' = families /\ now' = now
    BY DEF RotateSelect, RotateDelete, RotateInsert, portVars
<1>1. /\ call \in [Call -> CallRecord] /\ OneWriter /\ live \in [Hash -> Session \cup {None}]
      /\ minted \subseteq Hash /\ now \in Nat /\ CallSound(p) /\ RotationsDiffer
    BY DEF SqliteIInv, PortIInv, PortTypeOK
<1>2. ASSUME NEW m \in CallRecord, call' = [call EXCEPT ![p] = m], m.pc \in Rotating,
             call[p].pc \in Rotating,
             m.hash = call[p].hash, m.fresh = call[p].fresh, m.row = call[p].row,
             m.family = call[p].family,
             SnapshotHolds(p)', RecordFits(p)', m.pc \in Writing => writer' = p,
             \A q \in Call \ {p} : call[q].pc \in Writing => writer' = q
      PROVE  SqliteIInv'
    <2>1. call'[p] = m
        BY <1>1, <1>2
    <2>2. CallSound(p)'
        <3>1. RotationFits(call[p])'
            BY <1>0, <1>1, <1>2, <2>1 DEF CallSound, RotationFits, MovesLegacy
        <3>2. SweepFits(p)'
            BY <1>2, <2>1 DEF SweepFits, Rotating
        <3> QED
            BY <1>2, <3>1, <3>2 DEF CallSound
    <2>3. MovesLegacy(m) = MovesLegacy(call[p])
        BY <1>2 DEF MovesLegacy
    <2>4. \A q \in Call \ {p} : call[q].pc \in Rotating =>
              /\ m.fresh # call[q].fresh
              /\ MovesLegacy(m) \/ MovesLegacy(call[q]) => m.family # call[q].family
        BY <1>1, <1>2, <2>3 DEF RotationsDiffer
    <2> QED
        BY <1>0, <1>2, <2>2, <2>4, StepLocal
<1>3. ASSUME RotateSelect(p) PROVE SqliteIInv'
    <2>0. call[p].pc = "rotate" /\ writer' = writer
        BY <1>3 DEF RotateSelect
    <2>1. call[p].hash \in Hash
        BY <1>1, <2>0 DEF CallSound, RotationFits, Rotating
    <2>2. CASE live[call[p].hash] = None
        <3>1. call' = [call EXCEPT ![p] = Done]
            BY <1>1, <1>3, <2>2 DEF RotateSelect
        <3> QED
            BY <1>0, <1>1, <2>0, <3>1, DoneSound, StepEnds DEF OneWriter
    <2>3. CASE live[call[p].hash] # None
        <3> DEFINE m == [call[p] EXCEPT !.pc = "selected", !.old = live[call[p].hash]]
        <3>1. /\ m \in CallRecord /\ m.pc = "selected" /\ m.hash = call[p].hash
              /\ m.fresh = call[p].fresh /\ m.row = call[p].row /\ m.family = call[p].family
              /\ m.old = live[call[p].hash]
            BY ZenonT(60), <1>1, <2>1 DEF CallRecord
        <3>2. call' = [call EXCEPT ![p] = m]
            BY <1>1, <1>3, <2>3 DEF RotateSelect
        <3> HIDE DEF m
        <3>3. call'[p] = m
            BY <1>1, <3>2
        <3>4. SnapshotHolds(p)' /\ RecordFits(p)'
            BY <1>0, <2>3, <3>1, <3>3 DEF SnapshotHolds, RecordFits
        <3>5. m.pc \in Rotating /\ m.pc \notin Writing /\ call[p].pc \in Rotating
            BY <2>0, <3>1 DEF Rotating, Writing
        <3> QED
            BY <1>1, <1>2, <2>0, <3>1, <3>2, <3>4, <3>5 DEF OneWriter
    <2> QED
        BY <2>2, <2>3
<1>4. ASSUME RotateDelete(p) PROVE SqliteIInv'
    <2> DEFINE m == [call[p] EXCEPT !.pc = "deleted"]
    <2>0. /\ call[p].pc = "selected" /\ writer = None /\ writer' = p /\ p \notin stale
          /\ call' = [call EXCEPT ![p] = m]
        BY <1>1, <1>4 DEF RotateDelete
    <2>1. /\ m \in CallRecord /\ m.pc = "deleted" /\ m.hash = call[p].hash
          /\ m.fresh = call[p].fresh /\ m.row = call[p].row /\ m.family = call[p].family
          /\ m.old = call[p].old
        BY <1>1 DEF CallRecord
    <2> HIDE DEF m
    <2>2. call'[p] = m
        BY <1>1, <2>0
    <2>3. SnapshotHolds(p)' /\ RecordFits(p)'
        BY <1>0, <1>1, <2>0, <2>1, <2>2 DEF CallSound, SnapshotHolds, RecordFits
    <2>4. m.pc \in Rotating /\ call[p].pc \in Rotating
        BY <2>0, <2>1 DEF Rotating
    <2>5. \A q \in Call \ {p} : call[q].pc \notin Writing
        BY <1>1, <2>0, SqliteAssumption DEF OneWriter
    <2> QED
        BY <1>2, <2>0, <2>1, <2>3, <2>4, <2>5
<1>5. ASSUME RotateInsert(p) PROVE SqliteIInv'
    <2> DEFINE rec == IF call[p].old.family_id = NoFamily THEN None
                      ELSE retirement_record(call[p])
               m == [call[p] EXCEPT !.pc = "commit", !.rec = rec]
    <2>0. /\ call[p].pc = "deleted" /\ writer' = writer
          /\ call' = [call EXCEPT ![p] = m]
        BY <1>1, <1>5 DEF RotateInsert
    <2>1. /\ call[p].old = live[call[p].hash] /\ call[p].old \in Session
          /\ call[p].row \in Session /\ call[p].fresh \in Hash
        BY <1>1, <2>0 DEF CallSound, SnapshotHolds, RotationFits, Rotating
    <2>2. rec \in RetiredRefreshToken \cup {None}
        <3>1. now \in Nat /\ call[p].row.expires_at \in Nat
            BY <1>1, <2>1 DEF Session
        <3>2. retention_deadline(now, call[p].row.expires_at) \in Nat
            BY <3>1, DeadlineType
        <3> QED
            BY <2>1, <3>1, <3>2 DEF retirement_record, RetiredRefreshToken, Session
    <2>3. /\ m \in CallRecord /\ m.pc = "commit" /\ m.hash = call[p].hash
          /\ m.fresh = call[p].fresh /\ m.row = call[p].row /\ m.family = call[p].family
          /\ m.old = call[p].old /\ m.rec = rec
        BY ZenonT(60), <1>1, <2>2 DEF CallRecord
    <2> HIDE DEF m
    <2>4. call'[p] = m
        BY <1>1, <2>0
    <2>5. SnapshotHolds(p)'
        BY <1>0, <1>1, <2>0, <2>3, <2>4 DEF CallSound, SnapshotHolds
    <2>6. RecordFits(p)'
        <3>1. now \in 0..now /\ 0..now' = 0..now
            BY <1>0, <1>1
        <3> QED
            BY <2>3, <2>4, <3>1 DEF RecordFits, retirement_record
    <2>7. m.pc \in Rotating /\ call[p].pc \in Rotating /\ call[p].pc \in Writing
        BY <2>0, <2>3 DEF Rotating, Writing
    <2> QED
        BY <1>1, <1>2, <2>0, <2>3, <2>5, <2>6, <2>7 DEF OneWriter
<1> QED
    BY <1>0, <1>3, <1>4, <1>5

\* A sweep is called, or takes the write lock.
LEMMA StepSweeping ==
    ASSUME SqliteIInv, NEW p \in Call,
           \/ \E f \in families : CallSweep(p, [kind |-> "family", of |-> f])
           \/ \E u \in User : CallSweep(p, [kind |-> "user", of |-> u])
           \/ CallSweep(p, [kind |-> "expired", of |-> now])
           \/ SweepSessions(p)
    PROVE  SqliteIInv' /\ UNCHANGED portVars
<1>0. /\ UNCHANGED portVars /\ stale' = stale /\ families' = families /\ now' = now
    BY DEF CallSweep, SweepSessions, portVars
<1>1. /\ call \in [Call -> CallRecord] /\ OneWriter /\ now \in Nat /\ CallSound(p)
      /\ families \subseteq Family
    BY DEF SqliteIInv, PortIInv, PortTypeOK
<1>2. ASSUME NEW m \in CallRecord, call' = [call EXCEPT ![p] = m],
             m.pc \in {"sweep", "sweeping"}, SweepFits(p)',
             m.pc = "sweeping" => writer' = p,
             \A q \in Call \ {p} : call[q].pc \in Writing => writer' = q
      PROVE  SqliteIInv'
    <2>1. call'[p] = m
        BY <1>1, <1>2
    <2>2. CallSound(p)'
        BY <1>2, <2>1 DEF CallSound, RotationFits, SnapshotHolds, RecordFits, Rotating
    <2>3. m.pc \notin Rotating /\ (m.pc \in Writing => writer' = p)
        BY <1>2 DEF Rotating, Writing
    <2> QED
        BY <1>0, <1>2, <2>2, <2>3, StepLocal
<1>3. ASSUME NEW k \in {"family", "user", "expired"}, NEW x \in Family \cup User \cup Nat,
             k = "family" => x \in families, k = "user" => x \in User,
             k = "expired" => x \in 0..now,
             CallSweep(p, [kind |-> k, of |-> x])
      PROVE  SqliteIInv'
    <2> DEFINE w == [kind |-> k, of |-> x]
               m == [Done EXCEPT !.pc = "sweep", !.sweep = w]
    <2>1. /\ m \in CallRecord /\ m.pc = "sweep" /\ m.sweep = w
        BY DEF Done, CallRecord
    <2>2. call' = [call EXCEPT ![p] = m] /\ writer' = writer
        BY <1>3 DEF CallSweep
    <2>3. call'[p] = m
        BY <1>1, <2>2
    <2>4. SweepFits(p)'
        BY <1>0, <1>3, <2>1, <2>3 DEF SweepFits
    <2> HIDE DEF m
    <2> QED
        BY <1>1, <1>2, <2>1, <2>2, <2>4 DEF OneWriter
<1>4. ASSUME SweepSessions(p) PROVE SqliteIInv'
    <2> DEFINE m == [call[p] EXCEPT !.pc = "sweeping"]
    <2>0. /\ call[p].pc = "sweep" /\ writer = None /\ writer' = p
          /\ call' = [call EXCEPT ![p] = m]
        BY <1>1, <1>4 DEF SweepSessions
    <2>1. m \in CallRecord /\ m.pc = "sweeping" /\ m.sweep = call[p].sweep
        BY <1>1 DEF CallRecord
    <2> HIDE DEF m
    <2>2. call'[p] = m
        BY <1>1, <2>0
    <2>3. SweepFits(p)'
        BY <1>0, <1>1, <2>0, <2>1, <2>2 DEF CallSound, SweepFits
    <2>4. \A q \in Call \ {p} : call[q].pc \notin Writing
        BY <1>1, <2>0, SqliteAssumption DEF OneWriter
    <2> QED
        BY <1>2, <2>0, <2>1, <2>3, <2>4
<1>5. ASSUME CallSweep(p, [kind |-> "expired", of |-> now]) PROVE SqliteIInv'
    <2>1. now \in 0..now
        BY <1>1
    <2> QED
        BY <1>1, <1>3, <1>5, <2>1
<1> QED
    BY <1>0, <1>1, <1>3, <1>4, <1>5

\* A refused or abandoned call lets go of the lock, if it had it.
LEMMA StepUndone ==
    ASSUME SqliteIInv, NEW p \in Call, RotateBusy(p) \/ RollBack(p)
    PROVE  SqliteIInv' /\ UNCHANGED portVars
<1>1. UNCHANGED portVars /\ call' = [call EXCEPT ![p] = Done] /\ stale' = stale \ {p}
    BY DEF RotateBusy, RollBack
<1>2. \A q \in Call \ {p} : call[q].pc \in Writing => writer' = q
    BY DEF RotateBusy, RollBack, SqliteIInv, OneWriter
<1> QED
    BY <1>1, <1>2, DoneSound, StepEnds

-----------------------------------------------------------------------------
\* A step the contract sees: the calls that go on keep what they were given, and
\* none of them is half-way through a write, or had read what has now changed.
LEMMA StepVisible ==
    ASSUME SqliteIInv, PortNext, now <= now',
           \A q \in Call : call'[q] = call[q] \/ call'[q] = Done,
           call' \in [Call -> CallRecord],
           \A q \in Call : call'[q].pc \in Rotating =>
               /\ call[q].fresh \notin minted'
               /\ MovesLegacy(call[q]) => call[q].family \notin families',
           \A q \in Call : call'[q].pc \in Writing => writer' = q /\ live' = live,
           \A q \in Call : call'[q].pc = "selected" /\ q \notin stale' =>
               q \notin stale /\ live' = live
    PROVE  SqliteIInv'
<1>0. PortIInv' /\ Monotone
    BY StepPort, StepMonotone DEF SqliteIInv
<1>1. now \in Nat /\ now' \in Nat /\ minted \subseteq Hash
    BY <1>0 DEF SqliteIInv, PortIInv, PortTypeOK
<1>2. ASSUME NEW q \in Call PROVE CallSound(q)'
    <2>1. CASE call'[q] = Done
        BY <2>1, DoneSound DEF CallSound, RotationFits, SnapshotHolds, RecordFits, SweepFits, Rotating
    <2>2. CASE call'[q] = call[q]
        <3>0. RotationFits(call[q]) /\ SnapshotHolds(q) /\ RecordFits(q) /\ SweepFits(q)
            BY DEF SqliteIInv, CallSound
        <3>1. RotationFits(call[q])'
            <4>1. call[q].pc \in Rotating =>
                      /\ call[q].hash \in minted /\ call[q].hash \in minted'
                      /\ live'[call[q].hash] = None \/ live'[call[q].hash] = live[call[q].hash]
                BY <1>0, <3>0 DEF RotationFits, Monotone
            <4> QED
                BY <2>2, <3>0, <4>1 DEF RotationFits, MovesLegacy
        <3>2. SnapshotHolds(q)'
            BY <2>2, <3>0 DEF SnapshotHolds, Writing
        <3>3. RecordFits(q)'
            <4>1. \A at \in 0..now : at \in 0..now'
                BY <1>1
            <4> QED
                BY <2>2, <3>0, <4>1 DEF RecordFits
        <3>4. SweepFits(q)'
            <4>1. families \subseteq families' /\ \A at \in 0..now : at \in 0..now'
                BY <1>0, <1>1 DEF Monotone
            <4> QED
                BY <2>2, <3>0, <4>1 DEF SweepFits
        <3> QED
            BY <3>1, <3>2, <3>3, <3>4 DEF CallSound
    <2> QED
        BY <2>1, <2>2
<1>3. RotationsDiffer'
    <2> SUFFICES ASSUME NEW q \in Call, NEW r \in Call, q # r,
                        call'[q].pc \in Rotating, call'[r].pc \in Rotating
                 PROVE  /\ call'[q].fresh # call'[r].fresh
                        /\ MovesLegacy(call[q])' => call'[q].family # call'[r].family
        BY DEF RotationsDiffer
    <2>1. call'[q] = call[q] /\ call'[r] = call[r]
        BY DoneSound DEF Rotating
    <2>2. call[q].hash \in minted
        BY <2>1 DEF SqliteIInv, CallSound, RotationFits
    <2>3. MovesLegacy(call[q])' => MovesLegacy(call[q])
        BY <1>0, <2>1, <2>2 DEF MovesLegacy, Monotone
    <2> QED
        BY <2>1, <2>3 DEF SqliteIInv, RotationsDiffer
<1>4. OneWriter'
    BY DEF OneWriter
<1> QED
    BY <1>0, <1>2, <1>3, <1>4 DEF SqliteIInv

\* A single statement waits until nobody writes, and is one step of the contract.
LEMMA StepStatement ==
    ASSUME SqliteIInv,
           \/ \E h \in FreshHash, f \in FreshFamily, u \in User : store_refresh_token_sqlite(h, f, u)
           \/ \E h \in Hash : revoke_session_sqlite(h)
    PROVE  SqliteIInv' /\ PortNext
<1>0. /\ writer = None /\ call' = call /\ stale' = {q \in Call : call[q].pc = "selected"}
      /\ call \in [Call -> CallRecord] /\ now \in Nat
    BY DEF store_refresh_token_sqlite, revoke_session_sqlite, Overtake, SqliteIInv, PortIInv,
        PortTypeOK
<1>1. \A q \in Call : call[q].pc \notin Writing
    BY <1>0, SqliteAssumption DEF SqliteIInv, OneWriter
<1>2. PortNext /\ now' = now
    BY DEF store_refresh_token_sqlite, revoke_session_sqlite, store_refresh_token, revoke_session,
        PortNext, SignIn, FreshHash, FreshFamily
<1>3. ASSUME NEW q \in Call, call[q].pc \in Rotating
      PROVE  /\ call[q].fresh \notin minted'
             /\ MovesLegacy(call[q]) => call[q].family \notin families'
    <2>1. /\ call[q].fresh \notin minted
          /\ MovesLegacy(call[q]) => call[q].family \notin families
        BY <1>3 DEF SqliteIInv, CallSound, RotationFits
    <2>2. CASE \E h \in Hash : revoke_session_sqlite(h)
        BY <2>1, <2>2 DEF revoke_session_sqlite, revoke_session
    <2>3. ASSUME NEW h \in FreshHash, NEW f \in FreshFamily, NEW u \in User,
                 store_refresh_token_sqlite(h, f, u)
          PROVE  minted' = minted \cup {h} /\ families' = families \cup {f}
                 /\ h # call[q].fresh /\ f # call[q].family
        BY <2>3 DEF store_refresh_token_sqlite, store_refresh_token, FreshHash, FreshFamily
    <2> QED
        BY <2>1, <2>2, <2>3
<1> QED
    BY <1>0, <1>1, <1>2, <1>3, StepVisible

\* The commit of a rotation is the winning compare-and-swap of the contract.
LEMMA CommitRedeems ==
    ASSUME SqliteIInv, NEW p \in Call, RotateCommit(p)
    PROVE  Redeem
<1> DEFINE c == call[p]
           h == c.hash
<1>0. /\ c.pc = "commit" /\ RotationFits(call[p]) /\ SnapshotHolds(p) /\ RecordFits(p)
      /\ live \in [Hash -> Session \cup {None}] /\ minted \subseteq Hash /\ now \in Nat
    BY DEF RotateCommit, SqliteIInv, CallSound, PortIInv, PortTypeOK
<1>1. /\ h \in Hash /\ c.fresh \in Hash \ minted /\ c.row \in Session /\ c.family \in Family
      /\ live[h] # None /\ live[h] \in Session /\ c.old = live[h]
      /\ c.family = c.row.family_id
      /\ c.row.user_id = live[h].user_id
      /\ c.row.generation = live[h].generation + 1
      /\ c.row.expires_at = live[h].expires_at
      /\ live[h].family_id # NoFamily => c.family = live[h].family_id
      /\ live[h].family_id = NoFamily => c.family \notin families
    BY <1>0 DEF RotationFits, SnapshotHolds, MovesLegacy, Rotating
<1>2. c.row = [user_id |-> live[h].user_id, family_id |-> c.family,
               generation |-> live[h].generation + 1, expires_at |-> live[h].expires_at]
    <2>1. PICK g \in Nat : g = c.row.generation
        BY <1>1 DEF Session
    <2>2. c.row = [user_id |-> c.row.user_id, family_id |-> c.row.family_id,
                   generation |-> g, expires_at |-> c.row.expires_at]
        BY <1>1, <2>1 DEF Session
    <2> QED
        BY <1>1, <2>1, <2>2
<1>3. PICK at \in 0..now :
          live[h].family_id # NoFamily =>
            c.rec = [family_id |-> live[h].family_id, user_id |-> live[h].user_id,
                     successor_hash |-> c.fresh, retired_at |-> at,
                     expires_at |-> retention_deadline(at, c.row.expires_at)]
    <2>1. now \in 0..now
        BY <1>0
    <2> QED
        BY <1>0, <1>1, <2>1 DEF RecordFits
<1>4. live[h].family_id = NoFamily => c.rec = None
    BY <1>0, <1>1 DEF RecordFits
<1>5. live[h].family_id # NoFamily => c.rec # None
    <2> SUFFICES ASSUME live[h].family_id # NoFamily PROVE c.rec # None
        OBVIOUS
    <2>1. /\ live[h].family_id \in Family /\ live[h].user_id \in User
          /\ at \in Nat /\ c.row.expires_at \in Nat
        BY <1>0, <1>1 DEF Session
    <2>2. retention_deadline(at, c.row.expires_at) \in Nat
        BY <2>1, DeadlineType
    <2>3. c.rec \in RetiredRefreshToken
        BY <1>1, <1>3, <2>1, <2>2 DEF RetiredRefreshToken
    <2> QED
        BY <2>3, PortAssumption
<1>6. rotate_refresh_token(h, c.fresh, c.row, at)
    BY <1>1, <1>3, <1>4, <1>5 DEF RotateCommit, rotate_refresh_token
<1> QED
    BY <1>1, <1>2, <1>6 DEF Redeem

\* The commit of a transaction ends its call and overtakes every open snapshot.
LEMMA StepCommit ==
    ASSUME SqliteIInv, NEW p \in Call, RotateCommit(p) \/ SweepCommit(p)
    PROVE  SqliteIInv' /\ PortNext
<1>0. /\ call \in [Call -> CallRecord] /\ now \in Nat /\ OneWriter /\ RotationsDiffer
      /\ call' = [call EXCEPT ![p] = Done] /\ stale' = {q \in Call : call[q].pc = "selected"}
      /\ now' = now /\ call[p].pc \in Writing
    BY DEF RotateCommit, SweepCommit, Overtake, SqliteIInv, PortIInv, PortTypeOK, revoke_family,
        revoke_all_user_sessions, cleanup_expired_sessions, Writing
<1>1. PortNext
    <2>1. CASE RotateCommit(p)
        BY <2>1, CommitRedeems DEF PortNext
    <2>2. CASE SweepCommit(p)
        <3>1. SweepFits(p) /\ call[p].pc = "sweeping" /\ Hash \in SUBSET Hash
            BY <2>2 DEF SqliteIInv, CallSound, SweepCommit
        <3>2. \A at \in 0..now : at \in 0..(now + 1)
            BY <1>0
        <3> QED
            BY <2>2, <3>1, <3>2 DEF SweepFits, SweepCommit, PortNext
    <2> QED
        BY <2>1, <2>2
<1>2. /\ call' \in [Call -> CallRecord]
      /\ \A q \in Call : call'[q] = call[q] \/ call'[q] = Done
      /\ \A q \in Call : call'[q].pc # "done" => q # p /\ call'[q] = call[q]
    BY <1>0, DoneSound
<1>3. \A q \in Call \ {p} : call[q].pc \notin Writing
    BY <1>0 DEF OneWriter
<1>4. ASSUME NEW q \in Call, call'[q].pc \in Rotating
      PROVE  /\ call[q].fresh \notin minted'
             /\ MovesLegacy(call[q]) => call[q].family \notin families'
    <2>0. q # p /\ call'[q] = call[q] /\ call[q].pc \in Rotating
        BY <1>2, <1>4 DEF Rotating
    <2>1. /\ call[q].fresh \notin minted
          /\ MovesLegacy(call[q]) => call[q].family \notin families
        BY <2>0 DEF SqliteIInv, CallSound, RotationFits
    <2>2. CASE SweepCommit(p)
        BY <2>1, <2>2 DEF SweepCommit, revoke_family, revoke_all_user_sessions,
            cleanup_expired_sessions
    <2>3. CASE RotateCommit(p)
        <3>1. /\ minted' = minted \cup {call[p].fresh}
              /\ families' = families \cup {call[p].row.family_id}
              /\ call[p].pc \in Rotating
            BY <2>3 DEF RotateCommit, Rotating
        <3>2. call[p].family = call[p].row.family_id
            BY <3>1 DEF SqliteIInv, CallSound, RotationFits
        <3> QED
            BY <1>0, <2>0, <2>1, <3>1, <3>2 DEF RotationsDiffer
    <2> QED
        BY <2>2, <2>3
<1>5. \A q \in Call : call'[q].pc \notin Writing
    BY <1>2, <1>3 DEF Writing
<1>6. \A q \in Call : call'[q].pc = "selected" => q \in stale'
    BY <1>0, <1>2
<1> QED
    BY <1>0, <1>1, <1>2, <1>4, <1>5, <1>6, StepVisible

\* The clock: no table changes, and the contract allows the step.
LEMMA StepTick == SqliteIInv /\ Tick /\ UNCHANGED <<call, writer, stale>> => SqliteIInv' /\ PortNext
<1> SUFFICES ASSUME SqliteIInv, Tick, UNCHANGED <<call, writer, stale>>
             PROVE  SqliteIInv' /\ PortNext
    OBVIOUS
<1>1. /\ now \in Nat /\ now' = now + 1 /\ live' = live /\ minted' = minted /\ families' = families
      /\ call \in [Call -> CallRecord] /\ OneWriter /\ PortNext
    BY DEF Tick, PortNext, SqliteIInv, PortIInv, PortTypeOK
<1>2. \A q \in Call : call[q].pc \in Rotating =>
          /\ call[q].fresh \notin minted
          /\ MovesLegacy(call[q]) => call[q].family \notin families
    BY DEF SqliteIInv, CallSound, RotationFits
<1> QED
    BY <1>1, <1>2, StepVisible DEF OneWriter

\* Every step of the adapter keeps the invariant and is a step of the contract, or
\* changes nothing the contract speaks of.
LEMMA StepSqlite == SqliteIInv /\ [SqliteNext]_sqliteVars => SqliteIInv' /\ [PortNext]_portVars
<1> SUFFICES ASSUME SqliteIInv, [SqliteNext]_sqliteVars
             PROVE  SqliteIInv' /\ [PortNext]_portVars
    OBVIOUS
<1>1. ASSUME NEW p \in Call, CallStep(p) \/ NewCall(p) \/ RollBack(p)
      PROVE  SqliteIInv' /\ [PortNext]_portVars
    <2>1. CASE \/ \E h \in minted : ReadPresented(p, h)
               \/ get_retired_record(p) \/ ReadSuccessor(p)
        BY <2>1, StepReads
    <2>2. CASE \E h \in Hash, h2 \in FreshHash, f \in Family : CallRotate(p, h, h2, f)
        BY <2>2, StepCallRotate
    <2>3. CASE RotateSelect(p) \/ RotateDelete(p) \/ RotateInsert(p)
        BY <2>3, StepRotating
    <2>4. CASE \/ \E f \in families : CallSweep(p, [kind |-> "family", of |-> f])
               \/ \E u \in User : CallSweep(p, [kind |-> "user", of |-> u])
               \/ CallSweep(p, [kind |-> "expired", of |-> now])
               \/ SweepSessions(p)
        BY <2>4, StepSweeping
    <2>5. CASE RotateBusy(p) \/ RollBack(p)
        BY <2>5, StepUndone
    <2>6. CASE RotateCommit(p) \/ SweepCommit(p)
        BY <2>6, StepCommit
    <2> QED
        BY <1>1, <2>1, <2>2, <2>3, <2>4, <2>5, <2>6 DEF CallStep, NewCall
<1>2. CASE UNCHANGED sqliteVars
    BY <1>2, StepPort DEF sqliteVars, portVars, SqliteIInv, CallRecord, CallSound, RotationFits,
        SnapshotHolds, RecordFits, SweepFits, RotationsDiffer, OneWriter, MovesLegacy
<1> QED
    BY <1>1, <1>2, StepStatement, StepTick DEF SqliteNext

\* The SQLite adapter implements the contract: SR1 to SR5 hold of it for any number
\* of concurrent calls, with roll-backs and crashes between any two statements.
THEOREM SqliteImplementsPort == SqliteSpec => PortSpec
<1>1. SqliteInit => PortInit
    BY DEF SqliteInit
<1> QED
    BY <1>1, InitSqlite, StepSqlite, PTL DEF SqliteSpec, PortSpec

-----------------------------------------------------------------------------
(* What the separate reads of a resolution may answer. *)

\* A call in progress has answered nothing.  A resolution past its first read names a
\* hash that is not live, and will not be; past its second, it holds the one record
\* that was ever written of that hash.
ReadFits(c) ==
    /\ c.pc # "done" => c.answer = None
    /\ c.pc \in {"record", "successor"} => c.hash \in minted /\ live[c.hash] = None
    /\ c.pc = "successor" => c.rec # None /\ written[c.hash] = c.rec

ReadsFit == \A p \in Call : ReadFits(call[p])

\* What a step does to a call, as far as its reads go: nothing, a read, an end without an
\* answer, or a step of a transaction.
LEMMA CallMoves ==
    ASSUME SqliteIInv, ReadsFit, SqliteNext, NEW p \in Call
    PROVE  \/ call'[p] = call[p]
           \/ \E h \in minted : ReadPresented(p, h)
           \/ get_retired_record(p)
           \/ ReadSuccessor(p)
           \/ call'[p].answer = None /\ call'[p].pc \notin {"record", "successor"}
<1> DEFINE Silent == call'[p].answer = None /\ call'[p].pc \notin {"record", "successor"}
<1>0. /\ call \in [Call -> CallRecord] /\ call[p] \in CallRecord
      /\ Done.answer = None /\ Done.pc = "done"
    BY DEF SqliteIInv, Done
<1>1. ASSUME NEW q \in Call, CallStep(q) \/ NewCall(q) \/ RollBack(q), q # p
      PROVE  call'[p] = call[p]
    <2>1. CASE CallStep(q)
        BY <1>0, <1>1, <2>1 DEF CallStep, get_retired_record, ReadSuccessor, RotateSelect,
            RotateDelete, RotateBusy, RotateInsert, RotateCommit, SweepSessions, SweepCommit
    <2>2. CASE NewCall(q)
        BY <1>0, <1>1, <2>2 DEF NewCall, ReadPresented, CallRotate, CallSweep
    <2>3. CASE RollBack(q)
        BY <1>0, <1>1, <2>3 DEF RollBack
    <2> QED
        BY <1>1, <2>1, <2>2, <2>3
<1>2. ASSUME \/ RotateSelect(p) \/ RotateDelete(p) \/ RotateInsert(p) \/ SweepSessions(p)
      PROVE  Silent
    <2>1. call[p].answer = None
        BY <1>2 DEF ReadsFit, ReadFits, RotateSelect, RotateDelete, RotateInsert, SweepSessions
    <2>2. CASE RotateSelect(p)
        <3>1. call'[p] = Done \/ call'[p] = [call[p] EXCEPT !.pc = "selected", !.old = live[call[p].hash]]
            BY <1>0, <2>2 DEF RotateSelect
        <3> QED
            BY <1>0, <2>1, <3>1 DEF CallRecord
    <2>3. CASE RotateDelete(p) \/ SweepSessions(p)
        <3>1. call'[p] = [call[p] EXCEPT !.pc = "deleted"]
              \/ call'[p] = [call[p] EXCEPT !.pc = "sweeping"]
            BY <1>0, <2>3 DEF RotateDelete, SweepSessions
        <3> QED
            BY <1>0, <2>1, <3>1 DEF CallRecord
    <2>4. CASE RotateInsert(p)
        <3>1. call'[p] = [call[p] EXCEPT !.pc = "commit",
                              !.rec = IF call[p].old.family_id = NoFamily THEN None
                                      ELSE retirement_record(call[p])]
            BY <1>0, <2>4 DEF RotateInsert
        <3> QED
            BY <1>0, <2>1, <3>1 DEF CallRecord
    <2> QED
        BY <1>2, <2>2, <2>3, <2>4
<1>3. ASSUME RotateBusy(p) \/ RotateCommit(p) \/ SweepCommit(p) \/ RollBack(p) PROVE Silent
    BY <1>0, <1>3 DEF RotateBusy, RotateCommit, SweepCommit, RollBack
<1>4. ASSUME NEW h \in Hash, NEW h2 \in FreshHash, NEW f \in Family, CallRotate(p, h, h2, f)
      PROVE  Silent
    <2>1. PICK m : /\ call' = [call EXCEPT ![p] = m]
                   /\ m = [Done EXCEPT !.pc = "rotate", !.hash = h, !.fresh = h2,
                               !.row = [live[h] EXCEPT !.family_id = f, !.generation = @ + 1],
                               !.family = f]
        BY <1>4 DEF CallRotate
    <2> QED
        BY <1>0, <2>1 DEF Done
<1>5. ASSUME NEW s, CallSweep(p, s) PROVE Silent
    BY <1>0, <1>5 DEF CallSweep, Done
<1>6. ASSUME CallStep(p) \/ NewCall(p) \/ RollBack(p)
      PROVE  Silent \/ (\E h \in minted : ReadPresented(p, h)) \/ get_retired_record(p)
             \/ ReadSuccessor(p)
    BY <1>2, <1>3, <1>4, <1>5, <1>6 DEF CallStep, NewCall
<1>7. ASSUME \/ \E h \in FreshHash, f \in FreshFamily, u \in User : store_refresh_token_sqlite(h, f, u)
             \/ \E h \in Hash : revoke_session_sqlite(h)
             \/ Tick /\ UNCHANGED <<call, writer, stale>>
      PROVE  call' = call
    BY <1>7 DEF store_refresh_token_sqlite, revoke_session_sqlite
<1> QED
    BY <1>1, <1>6, <1>7 DEF SqliteNext

\* The three reads, one by one.
LEMMA ReadMoves ==
    ASSUME SqliteIInv, ReadsFit, NEW p \in Call
    PROVE  /\ \A h \in minted : ReadPresented(p, h) =>
                 /\ call'[p].hash = h /\ UNCHANGED portVars
                 /\ \/ live[h] # None /\ call'[p].pc = "done" /\ call'[p].answer = "Live"
                    \/ live[h] = None /\ call'[p].pc = "record" /\ call'[p].answer = None
           /\ get_retired_record(p) =>
                 /\ call[p].pc = "record"
                 /\ call'[p].hash = call[p].hash /\ UNCHANGED portVars
                 /\ \/ /\ retired[call[p].hash] = None \/ retired[call[p].hash].expires_at <= now
                       /\ call'[p].pc = "done" /\ call'[p].answer = "Unknown"
                    \/ /\ retired[call[p].hash] # None
                       /\ call'[p].pc = "successor" /\ call'[p].answer = None
                       /\ call'[p].rec = retired[call[p].hash]
           /\ ReadSuccessor(p) =>
                 /\ call[p].pc = "successor"
                 /\ call'[p].hash = call[p].hash /\ UNCHANGED portVars
                 /\ call'[p].pc = "done"
                 /\ call'[p].answer = IF live[call[p].rec.successor_hash] # None
                                      THEN "Superseded" ELSE "Retired"
<1>0. call \in [Call -> CallRecord] /\ call[p] \in CallRecord
    BY DEF SqliteIInv
<1>1. ASSUME NEW h \in minted, ReadPresented(p, h)
      PROVE  /\ call'[p].hash = h /\ UNCHANGED portVars
             /\ \/ live[h] # None /\ call'[p].pc = "done" /\ call'[p].answer = "Live"
                \/ live[h] = None /\ call'[p].pc = "record" /\ call'[p].answer = None
    <2>1. call'[p] = IF live[h] # None THEN [Done EXCEPT !.hash = h, !.answer = "Live"]
                                       ELSE [Done EXCEPT !.hash = h, !.pc = "record"]
        BY <1>0, <1>1 DEF ReadPresented, get_session_by_refresh_token
    <2>2. UNCHANGED portVars
        BY <1>1 DEF ReadPresented
    <2>3. CASE live[h] # None
        <3>1. call'[p] = [Done EXCEPT !.hash = h, !.answer = "Live"]
            BY <2>1, <2>3
        <3>2. call'[p].hash = h /\ call'[p].pc = "done" /\ call'[p].answer = "Live"
            BY <3>1 DEF Done
        <3> QED
            BY <2>2, <2>3, <3>2
    <2>4. CASE live[h] = None
        <3>1. call'[p] = [Done EXCEPT !.hash = h, !.pc = "record"]
            BY <2>1, <2>4
        <3>2. call'[p].hash = h /\ call'[p].pc = "record" /\ call'[p].answer = None
            BY <3>1 DEF Done
        <3> QED
            BY <2>2, <2>4, <3>2
    <2> QED
        BY <2>3, <2>4
<1>2. ASSUME get_retired_record(p)
      PROVE  /\ call[p].pc = "record"
             /\ call'[p].hash = call[p].hash /\ UNCHANGED portVars
             /\ \/ /\ retired[call[p].hash] = None \/ retired[call[p].hash].expires_at <= now
                   /\ call'[p].pc = "done" /\ call'[p].answer = "Unknown"
                \/ /\ retired[call[p].hash] # None
                   /\ call'[p].pc = "successor" /\ call'[p].answer = None
                   /\ call'[p].rec = retired[call[p].hash]
    <2>1. /\ call[p].pc = "record" /\ UNCHANGED portVars /\ call[p].answer = None
          /\ call'[p] = IF retired[call[p].hash] = None \/ retired[call[p].hash].expires_at <= now
                        THEN [Done EXCEPT !.hash = call[p].hash, !.answer = "Unknown"]
                        ELSE [call[p] EXCEPT !.pc = "successor", !.rec = retired[call[p].hash]]
        BY <1>0, <1>2 DEF get_retired_record, ReadsFit, ReadFits
    <2>2. CASE retired[call[p].hash] = None \/ retired[call[p].hash].expires_at <= now
        BY <2>1, <2>2 DEF Done
    <2>3. CASE ~(retired[call[p].hash] = None \/ retired[call[p].hash].expires_at <= now)
        <3>1. call'[p] = [call[p] EXCEPT !.pc = "successor", !.rec = retired[call[p].hash]]
            BY <2>1, <2>3
        <3> QED
            BY <1>0, <2>1, <2>3, <3>1 DEF CallRecord
    <2> QED
        BY <2>2, <2>3
<1>3. ASSUME ReadSuccessor(p)
      PROVE  /\ call[p].pc = "successor"
             /\ call'[p].hash = call[p].hash /\ UNCHANGED portVars
             /\ call'[p].pc = "done"
             /\ call'[p].answer = IF live[call[p].rec.successor_hash] # None
                                  THEN "Superseded" ELSE "Retired"
    <2>1. PICK a : /\ a = IF live[call[p].rec.successor_hash] # None
                          THEN "Superseded" ELSE "Retired"
                   /\ call'[p] = [Done EXCEPT !.hash = call[p].hash, !.answer = a]
        BY <1>0, <1>3 DEF ReadSuccessor, get_session_by_refresh_token
    <2>2. call'[p].hash = call[p].hash /\ call'[p].pc = "done" /\ call'[p].answer = a
        BY <2>1 DEF Done
    <2>3. call[p].pc = "successor" /\ UNCHANGED portVars
        BY <1>3 DEF ReadSuccessor
    <2> QED
        BY <2>1, <2>2, <2>3
<1> QED
    BY <1>1, <1>2, <1>3

\* Hashes that are gone stay gone and records are written once, so what a resolution has
\* read keeps fitting.
LEMMA StepReadsFit == SqliteIInv /\ ReadsFit /\ [SqliteNext]_sqliteVars => ReadsFit'
<1> SUFFICES ASSUME SqliteIInv, ReadsFit, [SqliteNext]_sqliteVars PROVE ReadsFit'
    OBVIOUS
<1>1. /\ \A h \in minted : h \in minted' /\ (live'[h] = None \/ live'[h] = live[h])
      /\ \A h \in minted : h \in Hash /\ (written[h] # None => written'[h] = written[h])
    BY StepSqlite, StepMonotone DEF Monotone, SqliteIInv, PortIInv, PortTypeOK
<1>2. \A c : ReadFits(c) => ReadFits(c)'
    BY <1>1 DEF ReadFits
<1>3. CASE UNCHANGED call
    BY <1>2, <1>3 DEF ReadsFit
<1>4. ASSUME SqliteNext, NEW p \in Call PROVE ReadFits(call[p])'
    <2>1. CASE call'[p] = call[p]
        <3>1. ReadFits(call[p])
            BY DEF ReadsFit
        <3> QED
            BY <1>1, <2>1, <3>1 DEF ReadFits
    <2>2. ASSUME NEW h \in minted, ReadPresented(p, h) PROVE ReadFits(call[p])'
        BY <1>1, <2>2, ReadMoves DEF ReadFits, portVars
    <2>3. CASE get_retired_record(p)
        <3>1. /\ call[p].hash \in minted /\ call[p].hash \in Hash /\ live[call[p].hash] = None
            BY <1>1, <2>3, ReadMoves DEF ReadsFit, ReadFits
        <3>2. retired[call[p].hash] # None => written[call[p].hash] = retired[call[p].hash]
            BY <3>1 DEF SqliteIInv, PortIInv, HoldsMinted
        <3> QED
            BY <2>3, <3>1, <3>2, ReadMoves DEF ReadFits, portVars
    <2>4. CASE ReadSuccessor(p)
        BY <2>4, ReadMoves DEF ReadFits
    <2>5. CASE call'[p].answer = None /\ call'[p].pc \notin {"record", "successor"}
        BY <2>5 DEF ReadFits
    <2> QED
        BY <1>4, <2>1, <2>2, <2>3, <2>4, <2>5, CallMoves
<1> QED
    BY <1>3, <1>4 DEF ReadsFit, sqliteVars

\* What a read answers is what resolve_refresh_token would, unless the record it had read
\* went in between; Superseded is not said of a dead family even then.
LEMMA AnswerIsCurrent ==
    ASSUME SqliteIInv, ReadsFit, Succession, SqliteNext, NEW p \in Call,
           call'[p] # call[p], call'[p].answer # None, NEW h, h = call'[p].hash
    PROVE  \/ call'[p].answer = resolve_refresh_token(h).kind
           \/ /\ call[p].pc = "successor"
              /\ retired[h] = None \/ retired[h].expires_at <= now
              /\ call'[p].answer = "Superseded" => LiveOf(call[p].rec.family_id) # {}
<1>1. CASE \E k \in minted : ReadPresented(p, k)
    BY <1>1, ReadMoves DEF resolve_refresh_token
<1>2. CASE get_retired_record(p)
    <2>1. /\ retired[h] = None \/ retired[h].expires_at <= now
          /\ live[h] = None /\ call'[p].answer = "Unknown"
        BY <1>2, ReadMoves DEF ReadsFit, ReadFits
    <2> QED
        BY <2>1 DEF resolve_refresh_token
<1>3. CASE ReadSuccessor(p)
    <2> DEFINE rec == call[p].rec
    <2>1. /\ call[p].pc = "successor" /\ h \in Hash /\ live[h] = None
          /\ rec # None /\ written[h] = rec
          /\ call'[p].answer = IF live[rec.successor_hash] # None THEN "Superseded" ELSE "Retired"
        BY <1>3, ReadMoves DEF ReadsFit, ReadFits, SqliteIInv, PortIInv, PortTypeOK
    <2>2. live[rec.successor_hash] # None => LiveOf(rec.family_id) # {}
        <3>1. rec.successor_hash \in Hash
            BY <2>1 DEF SqliteIInv, PortIInv, PortTypeOK, RetiredRefreshToken
        <3>2. live[rec.successor_hash] # None =>
                  live[rec.successor_hash].family_id = rec.family_id
            BY <2>1 DEF Succession
        <3> QED
            BY <3>1, <3>2 DEF LiveOf
    <2>3. CASE retired[h] # None /\ ~(retired[h].expires_at <= now)
        <3>1. retired[h] = rec
            BY <2>1, <2>3 DEF SqliteIInv, PortIInv, HoldsMinted
        <3> QED
            BY <2>1, <2>3, <3>1 DEF resolve_refresh_token
    <2> QED
        BY <2>1, <2>2, <2>3
<1> QED
    BY <1>1, <1>2, <1>3, CallMoves

\* A listing shows one generation of a family, and every live session is in one listing.
LEMMA ListingsAreCurrent ==
    ASSUME PortIInv
    PROVE  /\ \A u \in User : \A h, k \in list_live_sessions_sqlite(u) :
                 live[h].family_id = live[k].family_id /\ live[h].family_id # NoFamily => h = k
           /\ count_active_sessions =
                 Cardinality(UNION {list_live_sessions_sqlite(u) : u \in User})
<1>1. \A u \in User : \A h, k \in list_live_sessions_sqlite(u) :
          live[h].family_id = live[k].family_id /\ live[h].family_id # NoFamily => h = k
    BY DEF list_live_sessions_sqlite, get_session_by_refresh_token, PortIInv, SingleLiveGeneration
<1>2. \A h \in Hash : live[h] # None => live[h].user_id \in User
    BY DEF PortIInv, PortTypeOK, Session
<1>3. {h \in Hash : live[h] # None /\ live[h].expires_at > now}
      = UNION {list_live_sessions_sqlite(u) : u \in User}
    BY <1>2 DEF list_live_sessions_sqlite, get_session_by_refresh_token
<1> QED
    BY <1>1, <1>3 DEF count_active_sessions

\* SR1 of SQLite's resolution, for any number of concurrent calls: its three reads
\* together answer as one would, up to a record that goes between the last two.
THEOREM SqliteReadsAreCurrent == SqliteSpec => ReadsAreCurrent
<1>1. SqliteInit => ReadsFit /\ Succession
    BY DEF SqliteInit, PortInit, ReadsFit, ReadFits, Done, Succession
<1>2. SqliteIInv /\ Succession /\ [SqliteNext]_sqliteVars => Succession'
    BY StepSqlite, StepSuccession DEF SqliteIInv
<1>3. SqliteIInv /\ ReadsFit /\ Succession /\ [SqliteNext]_sqliteVars =>
      [/\ \A p \in Call :
          LET h == call'[p].hash
              kind == call'[p].answer
          IN  call'[p] # call[p] /\ kind # None
              => \/ kind = resolve_refresh_token(h).kind
                 \/ /\ call[p].pc = "successor"
                    /\ retired[h] = None \/ retired[h].expires_at <= now
                    /\ kind = "Superseded" => LiveOf(call[p].rec.family_id) # {}
       /\ \A u \in User : \A h, k \in list_live_sessions_sqlite(u) :
             live[h].family_id = live[k].family_id /\ live[h].family_id # NoFamily => h = k
       /\ count_active_sessions =
             Cardinality(UNION {list_live_sessions_sqlite(u) : u \in User})]_sqliteVars
    BY AnswerIsCurrent, ListingsAreCurrent DEF SqliteIInv
<1> QED
    BY <1>1, <1>2, <1>3, InitSqlite, StepSqlite, StepReadsFit, PTL DEF SqliteSpec, ReadsAreCurrent
=============================================================================
