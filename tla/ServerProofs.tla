----------------------------- MODULE ServerProofs ------------------------------
(***************************************************************************)
(* Theorems about the server, for every value of the constants: Ingress,   *)
(* the requests of its two listeners, and Boot, the process around them.   *)
(*                                                                         *)
(* Requests.  Whatever r does moves r alone, along Flow, and keeps what it *)
(* arrived with (Moves, StepMoves); so each theorem has only to look at    *)
(* the few handlers that touch its state (StepFrame).  A permit belongs to *)
(* a request in service and the refill permit to a task that holds it; a   *)
(* task waits in the queue exactly once (HeldInv).  The failures of a peer *)
(* are counted to the last until its budget is spent, and from then on     *)
(* only those that had passed the check may still fail (LockoutInv).  What *)
(* was counted against an address and what still will be was sent from it  *)
(* (BudgetInv).  What a request carries that the service's key made is an  *)
(* issued token or an operators' one, for two audiences (PlaneInv).        *)
(*                                                                         *)
(* Boot.  The settings, the service and the planes are built from one      *)
(* another (BootInv), and of the layered tree a leaf is the topmost one    *)
(* that was written (Layered).                                             *)
(***************************************************************************)
EXTENDS Ingress, Boot, FiniteSetTheorems, SequenceTheorems, NaturalsInduction, TLAPS

-----------------------------------------------------------------------------
(* Requests and where they go. *)

Fields == {"pc", "in", "addr", "answer", "attempt", "token"}

\* An input as it arrives: whose addresses it has, whose address it is counted
\* against, where its form comes from.
Arrivable(in) ==
    /\ in.origin # None
    /\ {in.origin, in.via, in.platform} \subseteq D.addresses \cup {None}
    /\ in.runtime = D.runtime
    /\ rate_limit_key(audit_context(in)) \in {in.origin, in.via, in.platform, None}
    /\ split_jws_segments(in.form) =>
           in.form.sig.by # D.keys.material \/ in.form \in issued \cup OperatorTokens

\* The requests in flight, as far as every theorem depends on it.
RequestInv ==
    /\ deployment \in DOMAIN Deployments
    /\ DOMAIN req = Request
    /\ \A r \in Request : DOMAIN req[r] = Fields
    /\ \A r \in Request :
          req[r].pc # "idle" => peer_key(req[r].in) \in IF D.runtime = "server" THEN D.addresses ELSE {None}
    /\ \A r \in Request : req[r].addr \in D.addresses \cup {None}

InService == {"handle", "code", "assertion", "keys", "mint", "revoke", "terminal", "respond"}

\* Where a request goes from where it stands.
Flow ==
    {<<"throttle", "admit">>, <<"throttle", "denied">>, <<"admit", "handle">>,
     <<"handle", "respond">>, <<"handle", "terminal">>, <<"handle", "assertion">>, <<"handle", "code">>,
     <<"code", "assertion">>, <<"code", "terminal">>,
     <<"assertion", "terminal">>, <<"assertion", "keys">>,
     <<"keys", "mint">>, <<"keys", "terminal">>, <<"mint", "terminal">>, <<"terminal", "respond">>,
     <<"handle", "revoke">>, <<"revoke", "respond">>, <<"revoke", "terminal">>, <<"health", "respond">>,
     <<"check", "authenticate">>, <<"check", "lockedOut">>,
     <<"authenticate", "refused">>, <<"authenticate", "panic">>, <<"authenticate", "operate">>,
     <<"operate", "record">>, <<"record", "notify">>, <<"notify", "notify">>}

\* Request r moves on, or is over; the others stay where they are.
Moves(r) ==
    /\ req' = [req EXCEPT ![r] = req'[r]]
    /\ \/ req'[r] = NoRequest
       \/ /\ DOMAIN req'[r] = Fields
          /\ req'[r].in = req[r].in
          /\ req'[r].addr = req[r].addr
          /\ <<req[r].pc, req'[r].pc>> \in Flow
          /\ req'[r].token \in {req[r].token, build_access_token(D.keys, D, User, "family", now)}
          /\ req'[r].pc \in {"record", "notify"} => req'[r].answer = req[r].answer

LEMMA PublicMoves ==
    ASSUME RequestInv, NEW r \in Request,
           Throttle(r) \/ Deny(r) \/ Admit(r) \/ Respond(r)
    PROVE  Moves(r)
<1> USE DEF RequestInv, Fields, Flow, Advance, Ends, Answer, Terminal, NoRequest
<1>1. CASE Throttle(r)
    <2>1. PICK pc \in {"admit", "denied"} : Advance(r, pc) /\ req[r].pc = "throttle"
        BY <1>1 DEF Throttle
    <2> QED
        BY <2>1 DEF Moves
<1>2. CASE Deny(r)
    BY <1>2 DEF Deny, Moves
<1>3. CASE Admit(r)
    BY <1>3 DEF Admit, Moves
<1>4. CASE Respond(r)
    BY <1>4 DEF Respond, Moves
<1> QED
    BY <1>1, <1>2, <1>3, <1>4

LEMMA TokenMoves ==
    ASSUME RequestInv, NEW r \in Request,
           \/ HandleToken(r) \/ ExchangeCode(r) \/ LookUpKey(r) \/ Validate(r) \/ KeyNotFound(r)
           \/ Mint(r) \/ Record(r) \/ HandleRevoke(r) \/ RevokeFamily(r) \/ HandleOther(r)
    PROVE  Moves(r)
<1> USE DEF RequestInv, Fields, Flow, Advance, Ends, Answer, Terminal, NoRequest
<1>1. CASE HandleToken(r)
    <2>1. /\ req[r].pc = "handle"
          /\ \/ \E e : Answer(r, e)
             \/ \E e : Terminal(r, e)
             \/ Advance(r, "assertion") \/ Advance(r, "code")
        BY <1>1 DEF HandleToken
    <2> QED
        BY <2>1 DEF Moves
<1>2. CASE ExchangeCode(r)
    <2>1. /\ req[r].pc = "code"
          /\ Advance(r, "assertion") \/ Terminal(r, "ProviderError")
        BY <1>2 DEF ExchangeCode
    <2> QED
        BY <2>1 DEF Moves
<1>3. CASE LookUpKey(r)
    <2>1. /\ req[r].pc = "assertion"
          /\ Advance(r, "keys") \/ Terminal(r, "InvalidGrant")
        BY <1>3 DEF LookUpKey
    <2> QED
        BY <2>1 DEF Moves
<1>4. CASE Validate(r)
    <2>1. /\ req[r].pc = "keys"
          /\ Advance(r, "mint") \/ \E e : Terminal(r, e)
        BY <1>4 DEF Validate
    <2> QED
        BY <2>1 DEF Moves
<1>5. CASE KeyNotFound(r)
    BY <1>5 DEF KeyNotFound, Moves
<1>6. CASE Mint(r)
    <2> HIDE DEF Terminal
    <2>1. /\ req[r].pc = "mint"
          /\ \/ Terminal(r, "KeyError")
             \/ req' = [req EXCEPT ![r].pc = "terminal",
                                   ![r].token = build_access_token(D.keys, D, User, "family", now)]
        BY <1>6 DEF Mint
    <2> QED
        BY <2>1 DEF Moves, Terminal
<1>7. CASE Record(r)
    <2>1. /\ req[r].pc = "terminal"
          /\ \E e : Answer(r, e)
        BY <1>7 DEF Record
    <2> QED
        BY <2>1 DEF Moves
<1>8. CASE HandleRevoke(r)
    <2>1. /\ req[r].pc = "handle"
          /\ Advance(r, "revoke") \/ Terminal(r, None)
        BY <1>8 DEF HandleRevoke
    <2> QED
        BY <2>1 DEF Moves
<1>9. CASE RevokeFamily(r)
    BY <1>9 DEF RevokeFamily, Moves
<1>10. CASE HandleOther(r)
    <2>1. /\ req[r].pc \in {"handle", "health"}
          /\ \E e : Answer(r, e)
        BY <1>10 DEF HandleOther
    <2>2. PICK e : Answer(r, e)
        BY <2>1
    <2>3. CASE req[r].pc = "handle"
        BY <2>2, <2>3 DEF Moves
    <2>4. CASE req[r].pc = "health"
        BY <2>2, <2>4 DEF Moves
    <2> QED
        BY <2>1, <2>3, <2>4
<1> QED
    BY <1>1, <1>2, <1>3, <1>4, <1>5, <1>6, <1>7, <1>8, <1>9, <1>10

LEMMA OperatorMoves ==
    ASSUME RequestInv, NEW r \in Request,
           CheckLockout(r) \/ Authenticate(r) \/ RecordRefusal(r)
           \/ Operate(r) \/ RecordMutation(r) \/ Notify(r) \/ Drop(r)
    PROVE  Moves(r)
<1> USE DEF RequestInv, Fields, Flow, Advance, Ends, NoRequest
<1>1. CASE CheckLockout(r)
    <2>1. /\ req[r].pc = "check"
          /\ Advance(r, "authenticate") \/ Advance(r, "lockedOut")
        BY <1>1 DEF CheckLockout
    <2> QED
        BY <2>1 DEF Moves
<1>2. CASE Authenticate(r)
    <2> HIDE DEF Advance
    <2>1. /\ req[r].pc = "authenticate"
          /\ \/ Advance(r, "refused") \/ Advance(r, "panic")
             \/ \E m : req' = [req EXCEPT ![r].pc = "operate", ![r].answer = m]
        BY <1>2 DEF Authenticate
    <2> QED
        BY <2>1 DEF Moves, Advance
<1>3. CASE RecordRefusal(r)
    BY <1>3 DEF RecordRefusal, Moves
<1>4. CASE Operate(r)
    BY <1>4 DEF Operate, Moves
<1>5. CASE RecordMutation(r)
    BY <1>5 DEF RecordMutation, Moves
<1>6. CASE Notify(r)
    BY <1>6 DEF Notify, Moves
<1>7. CASE Drop(r)
    BY <1>7 DEF Drop, Moves
<1> QED
    BY <1>1, <1>2, <1>3, <1>4, <1>5, <1>6, <1>7

LEMMA StepMoves ==
    ASSUME RequestInv, NEW r \in Request, Step(r)
    PROVE  Moves(r)
BY PublicMoves, TokenMoves, OperatorMoves DEF Step

-----------------------------------------------------------------------------
(* Arrivals. *)

\* The request whose proxy is trusted is counted against the address the proxy saw.
LEMMA TrustedAddress ==
    ASSUME deployment \in DOMAIN Deployments, NEW in \in D.inputs, Peer(in) \in D.trusted_proxies
    PROVE  select_forwarded(forwarded(in), D.trusted_proxy_hops) \in {None, in.origin}
<1>1. Sendable(D, in) /\ TrustIsDeserved(D, in)
    BY IngressAssumption DEF D
<1>2. in.via # None /\ D.trusted_proxy_hops = 1
    BY <1>1 DEF TrustIsDeserved
<1>3. in.forged \in Seq(Range(in.forged))
    BY <1>1 DEF Sendable
<1>4. DEFINE s == in.forged
             chain == Append(s, in.origin)
<1>5. Len(chain) = Len(s) + 1 /\ Len(s) \in Nat /\ chain[Len(s) + 1] = in.origin
    BY <1>3, AppendProperties
<1>6. forwarded(in) = chain
    BY <1>2 DEF forwarded
<1> HIDE DEF chain, s
<1>7. Len(chain) + 1 - D.trusted_proxy_hops = Len(s) + 1
    BY <1>2, <1>5
<1> QED
    BY <1>5, <1>6, <1>7 DEF select_forwarded

\* A request is counted against an address it came from or through, or against none,
\* whatever its headers say.
LEMMA CountedAddress ==
    ASSUME deployment \in DOMAIN Deployments, NEW in \in D.inputs
    PROVE  rate_limit_key(audit_context(in)) \in {in.origin, in.via, in.platform, None}
<1>1. TrustIsDeserved(D, in)
    BY IngressAssumption DEF D
<1>2. Peer(in) \in {in.origin, in.via, in.platform, None}
    BY DEF Peer, ConnectInfo, SocketPeer
<1>3. resolve_client_addr(in) \in {ClientAddr("Forwarded", in.origin), ClientAddr("Peer", Peer(in)),
                                  ClientAddr("Unknown", None)}
    BY TrustedAddress DEF resolve_client_addr
<1>4. \/ audit_context(in) = resolve_client_addr(in)
      \/ audit_context(in) = ClientAddr("Asserted", in.ip_header)
      \/ audit_context(in) = ClientAddr("Reported", in.ip_header) /\ in.ip_header = in.origin
    BY <1>1 DEF audit_context, TrustIsDeserved
<1> QED
    BY <1>2, <1>3, <1>4 DEF rate_limit_key, ClientAddr

LEMMA Arrivals ==
    ASSUME RequestInv, Arrival
    PROVE  \E r \in Request : \E in : Arrivable(in) /\ Arrive(r, in)
<1>1. PICK r \in Request :
          \/ \E in \in D.inputs : Arrive(r, in)
          \/ \E in \in D.inputs, t \in issued \cup OperatorTokens : ArriveWithToken(r, in, t)
    BY DEF Arrival
<1>2. \A in \in D.inputs : Sendable(D, in)
    BY IngressAssumption DEF D, RequestInv
<1>3. \A in \in D.inputs : Arrivable(in)
    BY <1>2, CountedAddress DEF Arrivable, Sendable, RequestInv
<1>4. ASSUME NEW in \in D.inputs, NEW t \in issued \cup OperatorTokens, ArriveWithToken(r, in, t)
      PROVE  \E i : Arrivable(i) /\ Arrive(r, i)
    <2>1. PICK i : /\ i \in {[in EXCEPT !.form = t], [in EXCEPT !.bearer = t]}
                   /\ Arrive(r, i)
        BY <1>4 DEF ArriveWithToken
    <2>2. /\ i.origin = in.origin /\ i.via = in.via /\ i.platform = in.platform /\ i.runtime = in.runtime
          /\ i.forged = in.forged /\ i.ip_header = in.ip_header /\ i.form \in {t, in.form}
        BY <1>2, <2>1 DEF Sendable
    <2>3. audit_context(i) = audit_context(in)
        BY <2>2 DEF audit_context, resolve_client_addr, Peer, ConnectInfo, SocketPeer, forwarded
    <2> QED
        BY <1>3, <2>1, <2>2, <2>3 DEF Arrivable
<1> QED
    BY <1>1, <1>3, <1>4

\* A request that arrives is new, and is at the first of its layers.
LEMMA ArriveTakesASlot ==
    ASSUME RequestInv, NEW r \in Request, NEW in, Arrivable(in), Arrive(r, in)
    PROVE  /\ req[r] = NoRequest
           /\ \/ UNCHANGED req
              \/ /\ req' = [req EXCEPT ![r] = req'[r]]
                 /\ DOMAIN req'[r] = Fields
                 /\ req'[r].in = in
                 /\ req'[r].pc \in {"check", "throttle", "health"}
                 /\ req'[r].addr = rate_limit_key(audit_context(in))
                 /\ req'[r].token = None
<1>1. PICK first \in {"check", "throttle", "health"} :
          \/ req' = req
          \/ req' = [req EXCEPT ![r] = [NoRequest EXCEPT !.pc = first, !.in = in,
                                             !.addr = rate_limit_key(audit_context(in))]]
    BY DEF Arrive
<1>2. req[r] = NoRequest
    BY DEF Arrive
<1> QED
    BY <1>1, <1>2 DEF RequestInv, Fields, NoRequest

\* Whoever moves, the requests stay what they are.
LEMMA RequestInvStep ==
    ASSUME RequestInv, [Next]_vars
    PROVE  RequestInv'
<1>1. CASE Arrival
    <2>0. PICK r \in Request : \E in : Arrivable(in) /\ Arrive(r, in)
        BY <1>1, Arrivals
    <2>1. PICK in : Arrivable(in) /\ Arrive(r, in)
        BY <2>0
    <2>2. UNCHANGED deployment
        BY <2>1 DEF Arrive
    <2>3. peer_key(in) \in IF D.runtime = "server" THEN D.addresses ELSE {None}
        BY <2>1 DEF Arrivable, peer_key, ConnectInfo, SocketPeer
    <2>4. rate_limit_key(audit_context(in)) \in D.addresses \cup {None}
        BY <2>1 DEF Arrivable
    <2> QED
        BY <2>1, <2>2, <2>3, <2>4, ArriveTakesASlot DEF RequestInv, D, NoRequest, Fields
<1>2. CASE \E r \in Request : Step(r)
    <2>1. PICK r \in Request : Step(r)
        BY <1>2
    <2>2. Moves(r)
        BY <2>1, StepMoves
    <2>3. UNCHANGED deployment
        BY <2>1 DEF Step, Throttle, Deny, Admit, Respond, HandleToken, ExchangeCode, LookUpKey, Validate,
                    KeyNotFound, Mint, Record, HandleRevoke, RevokeFamily, HandleOther, CheckLockout,
                    Authenticate, RecordRefusal, Operate, RecordMutation, Notify, Drop, Same
    <2>4. req[r].pc # "idle" \/ req'[r] = NoRequest
        BY <2>2 DEF Moves, Flow
    <2>5. UNCHANGED D
        BY <2>3 DEF D
    <2> QED
        BY <2>2, <2>3, <2>4, <2>5 DEF RequestInv, Moves, NoRequest, Fields
<1>3. CASE UNCHANGED <<deployment, req>>
    BY <1>3 DEF RequestInv, D
<1> QED
    BY <1>1, <1>2, <1>3 DEF Next, KeyStep, ProviderRotates, Tick, Finished, vars

-----------------------------------------------------------------------------
(* The queue for the refill permit. *)

\* The first of a queue leaves it; the others stay.
LEMMA HeadLeaves ==
    ASSUME NEW S, NEW s \in Seq(S), s # << >>, IsInjective(s)
    PROVE  /\ Head(s) \in S
           /\ Contains(s, Head(s))
           /\ Tail(s) \in Seq(S)
           /\ IsInjective(Tail(s))
           /\ \A e : Contains(Tail(s), e) <=> Contains(s, e) /\ e # Head(s)
<1>1. /\ Head(s) \in S /\ Head(s) = s[1] /\ Tail(s) \in Seq(S)
      /\ Len(s) \in Nat \ {0} /\ Len(Tail(s)) = Len(s) - 1
      /\ \A i \in 1..Len(Tail(s)) : Tail(s)[i] = s[i + 1]
      /\ DOMAIN s = 1..Len(s) /\ DOMAIN Tail(s) = 1..Len(Tail(s))
    BY HeadTailProperties, LenProperties, EmptySeq
<1>2. \A i, j \in 1..Len(s) : s[i] = s[j] => i = j
    BY <1>1 DEF IsInjective
<1>3. IsInjective(Tail(s))
    BY <1>1, <1>2 DEF IsInjective
<1>4. ASSUME NEW e, Contains(Tail(s), e)
      PROVE  Contains(s, e) /\ e # Head(s)
    <2>1. PICK i \in 1..Len(Tail(s)) : Tail(s)[i] = e
        BY <1>4 DEF Contains
    <2>2. i + 1 \in 1..Len(s) /\ s[i + 1] = e /\ i + 1 # 1 /\ 1 \in 1..Len(s)
        BY <1>1, <2>1
    <2> QED
        BY <1>1, <1>2, <2>2 DEF Contains
<1>5. ASSUME NEW e, Contains(s, e), e # Head(s)
      PROVE  Contains(Tail(s), e)
    <2>1. PICK i \in 1..Len(s) : s[i] = e
        BY <1>5 DEF Contains
    <2>2. i - 1 \in 1..Len(Tail(s)) /\ Tail(s)[i - 1] = e
        BY <1>1, <1>5, <2>1
    <2> QED
        BY <2>2 DEF Contains
<1>6. Contains(s, Head(s))
    BY <1>1 DEF Contains
<1> QED
    BY <1>1, <1>3, <1>4, <1>5, <1>6

\* Who is not queued yet is queued last.
LEMMA LastJoins ==
    ASSUME NEW S, NEW s \in Seq(S), IsInjective(s), NEW x \in S, ~Contains(s, x)
    PROVE  /\ Append(s, x) \in Seq(S)
           /\ IsInjective(Append(s, x))
           /\ \A e : Contains(Append(s, x), e) <=> Contains(s, e) \/ e = x
<1>1. /\ Append(s, x) \in Seq(S) /\ Len(s) \in Nat /\ Len(Append(s, x)) = Len(s) + 1
      /\ \A i \in 1..Len(s) : Append(s, x)[i] = s[i]
      /\ Append(s, x)[Len(s) + 1] = x
      /\ DOMAIN s = 1..Len(s) /\ DOMAIN Append(s, x) = 1..Len(Append(s, x))
    BY AppendProperties, LenProperties
<1>2. \A i, j \in 1..Len(s) : s[i] = s[j] => i = j
    BY <1>1 DEF IsInjective
<1>3. \A i \in 1..Len(s) : s[i] # x
    BY DEF Contains
<1>4. IsInjective(Append(s, x))
    BY <1>1, <1>2, <1>3 DEF IsInjective
<1>5. \A e : Contains(Append(s, x), e) <=> Contains(s, e) \/ e = x
    BY <1>1 DEF Contains
<1> QED
    BY <1>1, <1>4, <1>5

\* A test that some position passes selects the first of them.
LEMMA FirstPosition ==
    ASSUME NEW n \in Nat, NEW I \in SUBSET (1..n), I # {}
    PROVE  Min(I) \in I
<1>1. I \subseteq Nat
    OBVIOUS
<1>2. PICK i \in I : \A j \in I : ~(<<j, i>> \in OpToRel(<, Nat))
    BY <1>1, NatLessThanWellFounded, WFMin
<1>3. \A j \in Nat : j < i => <<j, i>> \in OpToRel(<, Nat)
    BY <1>1, Zenon DEF OpToRel
<1>4. \A j \in I : ~(j < i)
    BY <1>1, <1>2, <1>3, Zenon
<1>5. \A j \in I : i =< j
    BY <1>1, <1>4
<1> QED
    BY <1>5 DEF Min

\* Who is dropped leaves the queue from any place in it.
LEMMA OneLeaves ==
    ASSUME NEW S, NEW s \in Seq(S), IsInjective(s), NEW x
    PROVE  /\ RemoveFirst(s, x) \in Seq(S)
           /\ IsInjective(RemoveFirst(s, x))
           /\ \A e : Contains(RemoveFirst(s, x), e) <=> Contains(s, e) /\ e # x
<1>1. CASE ~Contains(s, x)
    <2>1. RemoveFirst(s, x) = s
        BY <1>1 DEF RemoveFirst, Contains
    <2> QED
        BY <1>1, <2>1 DEF Contains
<1>2. CASE Contains(s, x)
    <2> DEFINE k == SelectInSeq(s, LAMBDA v : v = x)
               u == SubSeq(s, 1, k - 1)
               v == SubSeq(s, k + 1, Len(s))
    <2>0. Len(s) \in Nat /\ DOMAIN s = 1..Len(s) /\ \A i \in 1..Len(s) : s[i] \in S
        BY LenProperties, ElementOfSeq
    <2>1. \A i, j \in 1..Len(s) : s[i] = s[j] => i = j
        BY <2>0 DEF IsInjective
    <2>2. k \in 1..Len(s) /\ s[k] = x
        <3> DEFINE I == {i \in 1..Len(s) : s[i] = x}
        <3>1. I # {} /\ I \in SUBSET (1..Len(s))
            BY <1>2 DEF Contains
        <3>2. k = Min(I)
            BY <3>1 DEF SelectInSeq
        <3> QED
            BY <2>0, <3>1, <3>2, FirstPosition
    <2>3. RemoveFirst(s, x) = u \o v
        BY <1>2 DEF RemoveFirst, RemoveAt, Contains
    <2> HIDE DEF k
    <2>4. /\ u \in Seq(S) /\ Len(u) = k - 1 /\ \A i \in 1..(k - 1) : u[i] = s[i]
        BY <2>0, <2>2, SubSeqProperties
    <2>5. /\ v \in Seq(S) /\ Len(v) = Len(s) - k
          /\ \A i \in 1..(Len(s) - k) : v[i] = s[k + i]
        <3>1. k + 1 \in Int /\ Len(s) \in Int /\ \A i \in (k + 1)..Len(s) : s[i] \in S
            BY <2>0, <2>2
        <3>2. /\ v \in Seq(S) /\ Len(v) = IF k + 1 <= Len(s) THEN Len(s) - (k + 1) + 1 ELSE 0
              /\ \A i \in 1..(Len(s) - (k + 1) + 1) : v[i] = s[(k + 1) + i - 1]
            BY <3>1, SubSeqProperties
        <3> HIDE DEF v
        <3>3. Len(s) - (k + 1) + 1 = Len(s) - k
            BY <2>0, <2>2
        <3>4. ASSUME NEW i \in 1..(Len(s) - k)
              PROVE  v[i] = s[k + i]
            <4>1. v[i] = s[(k + 1) + i - 1]
                BY <3>2, <3>3
            <4>2. (k + 1) + i - 1 = k + i
                BY <2>0, <2>2
            <4> QED
                BY <4>1, <4>2, Zenon
        <3>5. Len(v) = Len(s) - k
            <4>1. Len(v) = IF k + 1 <= Len(s) THEN Len(s) - (k + 1) + 1 ELSE 0
                BY <3>2
            <4>2. k \in 1..Len(s) /\ Len(s) \in Nat
                BY <2>0, <2>2
            <4>3. CASE k + 1 <= Len(s)
                BY <3>3, <4>1, <4>3, Zenon
            <4>4. CASE ~(k + 1 <= Len(s))
                <5>1. Len(s) - k = 0
                    BY <4>2, <4>4
                <5> QED
                    BY <4>1, <4>4, <5>1, Zenon
            <4> QED
                BY <4>3, <4>4
        <3> QED
            BY <3>2, <3>4, <3>5, Zenon
    <2> HIDE DEF u, v
    <2> DEFINE w == u \o v
    <2>6. /\ w \in Seq(S) /\ Len(w) = Len(s) - 1
          /\ \A i \in 1..(Len(s) - 1) : w[i] = IF i < k THEN s[i] ELSE s[i + 1]
        <3>1. /\ w \in Seq(S) /\ Len(w) = Len(u) + Len(v)
              /\ \A i \in 1..(Len(u) + Len(v)) : w[i] = IF i <= Len(u) THEN u[i] ELSE v[i - Len(u)]
            BY <2>4, <2>5, ConcatProperties
        <3>2. Len(u) + Len(v) = Len(s) - 1
            BY <2>0, <2>2, <2>4, <2>5
        <3> HIDE DEF w
        <3>3. ASSUME NEW i \in 1..(Len(s) - 1)
              PROVE  w[i] = IF i < k THEN s[i] ELSE s[i + 1]
            <4>1. CASE i < k
                <5>1. i <= Len(u) /\ i \in 1..(k - 1)
                    BY <2>0, <2>2, <2>4, <4>1
                <5>2. w[i] = u[i]
                    BY <3>1, <3>2, <5>1
                <5>3. u[i] = s[i]
                    BY <2>4, <5>1
                <5> QED
                    BY <4>1, <5>2, <5>3, Zenon
            <4>2. CASE ~(i < k)
                <5>1. i - Len(u) \in 1..(Len(s) - k) /\ k + (i - Len(u)) = i + 1 /\ ~(i <= Len(u))
                    BY <2>0, <2>2, <2>4, <4>2
                <5>2. w[i] = v[i - Len(u)]
                    BY <3>1, <3>2, <5>1
                <5>3. v[i - Len(u)] = s[k + (i - Len(u))]
                    BY <2>5, <5>1, Zenon
                <5>4. w[i] = s[i + 1]
                    BY <5>1, <5>2, <5>3, Zenon
                <5> QED
                    BY <4>2, <5>4, Zenon
            <4> QED
                BY <4>1, <4>2
        <3> QED
            BY <3>1, <3>2, <3>3
    <2>7. DOMAIN w = 1..(Len(s) - 1)
        BY <2>6, LenProperties
    <2> HIDE DEF w
    <2>8. IsInjective(w)
        BY <2>0, <2>1, <2>2, <2>6, <2>7 DEF IsInjective
    <2>9. ASSUME NEW e, Contains(w, e)
          PROVE  Contains(s, e) /\ e # x
        <3>1. PICK i \in 1..(Len(s) - 1) : w[i] = e
            BY <2>6, <2>9 DEF Contains
        <3>2. PICK j \in 1..Len(s) : j # k /\ s[j] = e
            <4>1. CASE i < k
                BY <2>0, <2>2, <2>6, <3>1, <4>1
            <4>2. CASE i >= k
                BY <2>0, <2>2, <2>6, <3>1, <4>2
            <4> QED
                BY <2>2, <3>1, <4>1, <4>2
        <3> QED
            BY <2>1, <2>2, <3>2 DEF Contains
    <2>10. ASSUME NEW e, Contains(s, e), e # x
           PROVE  Contains(w, e)
        <3>1. PICK j \in 1..Len(s) : s[j] = e
            BY <2>10 DEF Contains
        <3>2. PICK i \in 1..(Len(s) - 1) : w[i] = e
            <4>1. CASE j < k
                BY <2>0, <2>2, <2>6, <3>1, <4>1
            <4>2. CASE j > k
                <5>1. j - 1 \in 1..(Len(s) - 1) /\ ~(j - 1 < k) /\ (j - 1) + 1 = j
                    BY <2>0, <2>2, <4>2
                <5> QED
                    BY <2>6, <3>1, <5>1
            <4> QED
                BY <2>2, <2>10, <3>1, <4>1, <4>2
        <3> QED
            BY <2>6, <3>2 DEF Contains
    <2> QED
        BY <2>3, <2>6, <2>8, <2>9, <2>10 DEF w
<1> QED
    BY <1>1, <1>2

-----------------------------------------------------------------------------
(* The tasks at the JWKS cache. *)

TaskFields == {"pc", "kid", "pass", "reply"}

\* The refill permit and its queue, against what the tasks are at.
QueueInv ==
    /\ DOMAIN task = Request
    /\ \A r \in Request : DOMAIN task[r] = TaskFields
    /\ waiters \in Seq(Request) /\ IsInjective(waiters)
    /\ refill \in Request \cup {None}
    /\ refill = None => waiters = << >>
    /\ \A r \in Request : task[r].pc \in Holding <=> refill = r
    /\ \A r \in Request : task[r].pc = "queued" <=> Contains(waiters, r)

\* What a task may become without having to do with the permit.
Apart(t) == DOMAIN t = TaskFields /\ t.pc \notin Holding /\ t.pc # "queued"

\* The others stay where they are, but for the one that is handed the permit.
OthersWait(r) ==
    \A q \in Request \ {r} :
        task'[q].pc # task[q].pc => task[q].pc = "queued" /\ task'[q].pc = "recheck"

LEMMA WithIsApart ==
    ASSUME NEW t, DOMAIN t = TaskFields, NEW doc
    PROVE  Apart(With(t, doc)) /\ With(t, doc).pc \in {"found", "forcedRead", "InvalidGrant"}
BY DEF Apart, With, TaskFields, Holding

\* A task that has nothing to do with the permit goes on without it.
LEMMA GoesApart ==
    ASSUME QueueInv, NEW r \in Request, NEW t, Apart(t), Apart(task[r]), Goes(r, t)
    PROVE  QueueInv' /\ OthersWait(r) /\ task'[r] = t
BY DEF QueueInv, Goes, Apart, OthersWait

\* The holder goes on with it.
LEMMA HolderGoes ==
    ASSUME QueueInv, NEW r \in Request, NEW t, DOMAIN t = TaskFields, t.pc \in Holding,
           task[r].pc \in Holding, Goes(r, t)
    PROVE  QueueInv' /\ OthersWait(r) /\ task'[r] = t
BY DEF QueueInv, Goes, Holding, OthersWait

\* A task that finds the permit free takes it.
LEMMA PermitTaken ==
    ASSUME QueueInv, NEW r \in Request, Apart(task[r]), refill = None,
           refill' = r, UNCHANGED waiters, task' = [task EXCEPT ![r].pc = "recheck"]
    PROVE  QueueInv' /\ OthersWait(r) /\ task'[r].pc = "recheck"
<1>1. \A q \in Request : task[q].pc \notin Holding
    BY IngressAssumption DEF QueueInv
<1>2. DOMAIN task'[r] = TaskFields /\ task'[r].pc = "recheck"
    BY DEF QueueInv, TaskFields
<1>3. DOMAIN task' = Request /\ \A q \in Request : q # r => task'[q] = task[q]
    BY DEF QueueInv
<1> QED
    BY <1>1, <1>2, <1>3, IngressAssumption DEF QueueInv, Holding, Apart, OthersWait

\* The holder gives it up, to the first who waits or to nobody.
LEMMA PermitReleased ==
    ASSUME QueueInv, NEW r \in Request, NEW t, Apart(t), refill = r, Release(r, t)
    PROVE  QueueInv' /\ OthersWait(r) /\ task'[r] = t
<1>0. task[r].pc \in Holding /\ ~Contains(waiters, r)
    BY DEF QueueInv, Holding
<1>1. CASE waiters = << >>
    <2>1. refill' = None /\ task' = [task EXCEPT ![r] = t] /\ UNCHANGED waiters
        BY <1>1 DEF Release
    <2>2. /\ DOMAIN task' = Request /\ task'[r] = t
          /\ \A q \in Request \ {r} : task'[q] = task[q]
        BY <2>1 DEF QueueInv
    <2>3. \A q \in Request : task'[q].pc \in Holding <=> refill' = q
        BY <2>1, <2>2, IngressAssumption DEF QueueInv, Apart
    <2>4. \A q \in Request : task'[q].pc = "queued" <=> Contains(waiters', q)
        <3>1. ~Contains(waiters, r)
            BY <1>0
        <3> QED
            BY <2>1, <2>2, <3>1 DEF QueueInv, Apart
    <2>5. refill' \in Request \cup {None} /\ \A q \in Request : DOMAIN task'[q] = TaskFields
        BY <2>1, <2>2 DEF QueueInv, Apart
    <2> QED
        BY <1>1, <2>1, <2>2, <2>3, <2>4, <2>5 DEF QueueInv, OthersWait
<1>2. CASE waiters # << >>
    <2> DEFINE w == Head(waiters)
    <2>1. /\ refill' = w /\ waiters' = Tail(waiters)
          /\ task' = [task EXCEPT ![r] = t, ![w].pc = "recheck"]
        BY <1>2 DEF Release
    <2>2. /\ w \in Request /\ Contains(waiters, w)
          /\ waiters' \in Seq(Request) /\ IsInjective(waiters')
          /\ \A q : Contains(waiters', q) <=> Contains(waiters, q) /\ q # w
        BY <1>2, <2>1, HeadLeaves DEF QueueInv
    <2> HIDE DEF w
    <2>3. task[w].pc = "queued" /\ w # r
        BY <2>2 DEF QueueInv, Holding
    <2>4. /\ DOMAIN task' = Request
          /\ task'[r] = t
          /\ task'[w] = [task[w] EXCEPT !.pc = "recheck"]
          /\ \A q \in Request \ {r, w} : task'[q] = task[q]
        BY <2>1, <2>2, <2>3 DEF QueueInv
    <2>5. DOMAIN task'[w] = TaskFields /\ task'[w].pc = "recheck"
        BY <2>2, <2>4 DEF QueueInv, TaskFields
    <2>6. \A q \in Request : DOMAIN task'[q] = TaskFields
        BY <2>4, <2>5 DEF QueueInv, Apart
    <2>7. \A q \in Request : task'[q].pc \in Holding <=> q = w
        BY <2>3, <2>4, <2>5 DEF QueueInv, Apart, Holding
    <2>8. ASSUME NEW q \in Request
          PROVE  task'[q].pc = "queued" <=> Contains(waiters', q)
        <3>1. CASE q = r
            BY <1>0, <2>2, <2>4, <3>1 DEF Apart
        <3>2. CASE q = w
            BY <2>2, <2>5, <3>2
        <3>3. CASE q \notin {r, w}
            BY <2>2, <2>4, <3>3 DEF QueueInv
        <3> QED
            BY <3>1, <3>2, <3>3
    <2>9. refill' # None
        BY <2>1, <2>2, IngressAssumption
    <2> QED
        BY <2>1, <2>2, <2>3, <2>4, <2>5, <2>6, <2>7, <2>8, <2>9 DEF QueueInv, OthersWait
<1> QED
    BY <1>1, <1>2

\* A dropped task leaves the queue, or gives the permit up.
LEMMA TaskDropped ==
    ASSUME QueueInv, NEW r \in Request, DropTask(r)
    PROVE  /\ QueueInv'
           /\ task'[r] = Off
           /\ OthersWait(r)
<1>1. Apart(Off)
    BY DEF Apart, Off, TaskFields, Holding
<1>2. CASE refill = r
    <2>1. Release(r, Off)
        BY <1>2 DEF DropTask
    <2> QED
        BY <1>1, <1>2, <2>1, PermitReleased
<1>3. CASE refill # r
    <2>1. /\ waiters' = RemoveFirst(waiters, r) /\ task' = [task EXCEPT ![r] = Off]
          /\ UNCHANGED refill
        BY <1>3 DEF DropTask
    <2>2. /\ waiters' \in Seq(Request) /\ IsInjective(waiters')
          /\ \A q : Contains(waiters', q) <=> Contains(waiters, q) /\ q # r
        BY <2>1, OneLeaves DEF QueueInv
    <2>3. /\ DOMAIN task' = Request /\ task'[r] = Off
          /\ \A q \in Request \ {r} : task'[q] = task[q]
        BY <2>1 DEF QueueInv
    <2>4. refill' = None => waiters' = << >>
        <3> SUFFICES ASSUME refill' = None
                     PROVE  waiters' = << >>
            OBVIOUS
        <3>1. waiters = << >>
            BY <2>1 DEF QueueInv
        <3>2. ~Contains(<< >>, r)
            BY DEF Contains
        <3> QED
            BY <2>1, <3>1, <3>2 DEF RemoveFirst, Contains
    <2>5. \A q \in Request : task'[q].pc \in Holding <=> refill' = q
        BY <1>1, <1>3, <2>1, <2>3 DEF QueueInv, Apart
    <2>6. \A q \in Request : task'[q].pc = "queued" <=> Contains(waiters', q)
        BY <1>1, <2>2, <2>3 DEF QueueInv, Apart
    <2> QED
        BY <1>1, <2>1, <2>2, <2>3, <2>4, <2>5, <2>6 DEF QueueInv, Apart, OthersWait
<1> QED
    BY <1>2, <1>3

\* A task that finds no set waits for the permit.
LEMMA TaskQueued ==
    ASSUME QueueInv, NEW r \in Request, Apart(task[r]), refill # None, UNCHANGED refill,
           waiters' = Append(waiters, r), task' = [task EXCEPT ![r].pc = "queued"]
    PROVE  QueueInv' /\ OthersWait(r) /\ task'[r].pc = "queued"
<1>1. ~Contains(waiters, r) /\ refill # r
    BY DEF QueueInv, Apart
<1>2. /\ waiters' \in Seq(Request) /\ IsInjective(waiters')
      /\ \A q : Contains(waiters', q) <=> Contains(waiters, q) \/ q = r
    BY <1>1, LastJoins DEF QueueInv
<1>3. /\ DOMAIN task' = Request /\ DOMAIN task'[r] = TaskFields /\ task'[r].pc = "queued"
      /\ \A q \in Request \ {r} : task'[q] = task[q]
    BY DEF QueueInv, TaskFields
<1> QED
    BY <1>1, <1>2, <1>3 DEF QueueInv, Holding, OthersWait

\* A forced refetch is not started: its stamps stay.
Unforced == UNCHANGED <<last_forced_refetch, forcedStart>>

\* Each step of a task keeps the queue in order; only ForcedWrite starts a forced
\* refetch, and not too soon.
LEMMA TaskStepKeeps ==
    ASSUME QueueInv, NEW r \in Request, TaskStep(r)
    PROVE  /\ QueueInv' /\ OthersWait(r)
           /\ task[r].pc # "off"
           /\ \/ Unforced /\ (task'[r].pc = "forcedFetch" => task[r].pc = "forcedFetch")
              \/ ~TooSoon /\ last_forced_refetch' = now /\ forcedStart' = now
<1> USE DEF TaskFields, Holding
<1>0. DOMAIN task[r] = TaskFields
    BY DEF QueueInv
<1>1. CASE FreshCached(r)
    <2>1. PICK t : t \in {With(task[r], cached.doc), [task[r] EXCEPT !.pc = "elect"]} /\ Goes(r, t)
        BY <1>1 DEF FreshCached
    <2>2. Apart(t) /\ t.pc # "forcedFetch" /\ Apart(task[r]) /\ task[r].pc = "read"
        BY <1>0, <1>1, <2>1, WithIsApart DEF Apart, FreshCached
    <2> QED
        BY <1>1, <2>1, <2>2, GoesApart DEF FreshCached, CacheKept, Unforced
<1>2. CASE Elect(r)
    <2>1. Apart(task[r]) /\ task[r].pc = "elect" /\ Unforced
        BY <1>0, <1>2 DEF Apart, Elect, CacheKept, Unforced
    <2>2. CASE refill = None
        BY <1>2, <2>1, <2>2, PermitTaken DEF Elect
    <2>3. CASE refill # None
        <3> DEFINE t == [task[r] EXCEPT !.pc = "stale"]
        <3>1. Goes(r, t) /\ Apart(t) /\ t.pc = "stale"
            BY <1>0, <1>2, <2>3 DEF Elect, Apart
        <3> HIDE DEF t
        <3> QED
            BY <2>1, <3>1, GoesApart
    <2> QED
        BY <2>2, <2>3
<1>3. CASE ServeStale(r)
    <2>1. Apart(task[r]) /\ task[r].pc = "stale" /\ Unforced /\ Goes(r, With(task[r], cached.doc))
        BY <1>0, <1>3 DEF Apart, ServeStale, CacheKept, Unforced
    <2>2. Apart(With(task[r], cached.doc)) /\ With(task[r], cached.doc).pc # "forcedFetch"
        BY <1>0, WithIsApart
    <2> QED
        BY <2>1, <2>2, GoesApart
<1>4. CASE Queue(r)
    <2>1. Apart(task[r]) /\ task[r].pc = "stale" /\ Unforced
        BY <1>0, <1>4 DEF Apart, Queue, CacheKept, Unforced
    <2>2. CASE refill = None
        BY <1>4, <2>1, <2>2, PermitTaken DEF Queue
    <2>3. CASE refill # None
        BY <1>4, <2>1, <2>3, TaskQueued DEF Queue
    <2> QED
        BY <2>2, <2>3
<1>5. CASE Recheck(r)
    <2>1. task[r].pc = "recheck" /\ refill = r /\ Unforced
        BY <1>5 DEF Recheck, CacheKept, Unforced, QueueInv
    <2>2. CASE fresh
        <3>1. Release(r, With(task[r], cached.doc))
            BY <1>5, <2>2 DEF Recheck
        <3>2. Apart(With(task[r], cached.doc)) /\ With(task[r], cached.doc).pc # "forcedFetch"
            BY <1>0, WithIsApart
        <3> QED
            BY <2>1, <3>1, <3>2, PermitReleased
    <2>3. CASE ~fresh
        <3> DEFINE t == [task[r] EXCEPT !.pc = "fetch"]
        <3>1. Goes(r, t) /\ DOMAIN t = TaskFields /\ t.pc = "fetch"
            BY <1>0, <1>5, <2>3 DEF Recheck
        <3> HIDE DEF t
        <3> QED
            BY <2>1, <3>1, HolderGoes
    <2> QED
        BY <2>2, <2>3
<1>6. CASE FetchReply(r)
    <2>1. task[r].pc = "fetch" /\ refill = r /\ Unforced
        BY <1>6 DEF FetchReply, CacheKept, Unforced, QueueInv
    <2>2. PICK t : \/ t = [task[r] EXCEPT !.pc = "store", !.reply = published] /\ Goes(r, t)
                   \/ t = [Off EXCEPT !.pc = "ProviderError"] /\ Release(r, t)
        BY <1>6 DEF FetchReply
    <2>3. CASE Goes(r, t) /\ t = [task[r] EXCEPT !.pc = "store", !.reply = published]
        <3>1. DOMAIN t = TaskFields /\ t.pc = "store"
            BY <1>0, <2>3
        <3> QED
            BY <2>1, <2>3, <3>1, HolderGoes
    <2>4. CASE Release(r, t) /\ t = [Off EXCEPT !.pc = "ProviderError"]
        <3>1. Apart(t) /\ t.pc = "ProviderError"
            BY <2>4 DEF Apart, Off
        <3> QED
            BY <2>1, <2>4, <3>1, PermitReleased
    <2> QED
        BY <2>2, <2>3, <2>4
<1>7. CASE StoreKeys(r)
    <2>1. task[r].pc = "store" /\ refill = r /\ Unforced /\ Release(r, With(task[r], task[r].reply))
        BY <1>7 DEF StoreKeys, Unforced, QueueInv
    <2>2. Apart(With(task[r], task[r].reply)) /\ With(task[r], task[r].reply).pc # "forcedFetch"
        BY <1>0, WithIsApart
    <2> QED
        BY <2>1, <2>2, PermitReleased
<1>8. CASE ForcedRead(r)
    <2>1. PICK t : t \in {Again(task[r]), [task[r] EXCEPT !.pc = "forcedWrite"]} /\ Goes(r, t)
        BY <1>8 DEF ForcedRead
    <2>2. Apart(t) /\ t.pc # "forcedFetch" /\ Apart(task[r]) /\ task[r].pc = "forcedRead"
        BY <1>0, <1>8, <2>1 DEF Apart, ForcedRead, Again
    <2> QED
        BY <1>8, <2>1, <2>2, GoesApart DEF ForcedRead, CacheKept, Unforced
<1>9. CASE ForcedWrite(r)
    <2>1. Apart(task[r]) /\ task[r].pc = "forcedWrite"
        BY <1>0, <1>9 DEF Apart, ForcedWrite
    <2>2. CASE TooSoon
        <3>1. Goes(r, Again(task[r])) /\ Unforced
            BY <1>9, <2>2 DEF ForcedWrite, Unforced
        <3>2. Apart(Again(task[r])) /\ Again(task[r]).pc = "read"
            BY <1>0 DEF Apart, Again
        <3> QED
            BY <2>1, <3>1, <3>2, GoesApart
    <2>3. CASE ~TooSoon
        <3> DEFINE t == [task[r] EXCEPT !.pc = "forcedFetch"]
        <3>1. Goes(r, t) /\ last_forced_refetch' = now /\ forcedStart' = now
            BY <1>9, <2>3 DEF ForcedWrite
        <3>2. Apart(t)
            BY <1>0 DEF Apart
        <3> HIDE DEF t
        <3> QED
            BY <2>1, <2>3, <3>1, <3>2, GoesApart
    <2> QED
        BY <2>2, <2>3
<1>10. CASE ForcedReply(r)
    <2>1. Apart(task[r]) /\ task[r].pc = "forcedFetch" /\ Unforced
        BY <1>0, <1>10 DEF Apart, ForcedReply, CacheKept, Unforced
    <2>2. PICK t : /\ t \in {[task[r] EXCEPT !.pc = "forcedStore", !.reply = published],
                             [Off EXCEPT !.pc = "ProviderError"]}
                   /\ Goes(r, t)
        BY <1>10 DEF ForcedReply
    <2>3. Apart(t)
        BY <1>0, <2>2 DEF Apart, Off
    <2> QED
        BY <2>1, <2>2, <2>3, GoesApart
<1>11. CASE ForcedStore(r)
    <2>1. Apart(task[r]) /\ task[r].pc = "forcedStore" /\ Unforced /\ Goes(r, Again(task[r]))
        BY <1>0, <1>11 DEF Apart, ForcedStore, Unforced
    <2>2. Apart(Again(task[r])) /\ Again(task[r]).pc = "read"
        BY <1>0 DEF Apart, Again
    <2> QED
        BY <2>1, <2>2, GoesApart
<1> QED
    BY <1>1, <1>2, <1>3, <1>4, <1>5, <1>6, <1>7, <1>8, <1>9, <1>10, <1>11 DEF TaskStep

-----------------------------------------------------------------------------
(* What a request holds. *)

\* A request has a task only while it looks for a key, and the refetches that were
\* sent are those that were stamped.
KeysInv ==
    /\ QueueInv
    /\ \A r \in Request : task[r].pc # "off" => req[r].pc = "keys"
    /\ now \in Nat
    /\ last_forced_refetch = forcedStart
    /\ forcedStart \in Nat \cup {None}

PermitInv ==
    /\ permits \subseteq Request
    /\ \A r \in permits : req[r].pc \in InService
    /\ Cardinality(permits) <= D.max_concurrent_requests

HeldInv == RequestInv /\ KeysInv /\ PermitInv

\* A refetch is forced by a task that found none stamped within the interval.
Rarely ==
    \A r \in Request :
        task'[r].pc = "forcedFetch" /\ task[r].pc # "forcedFetch" /\ forcedStart # None
        => now - forcedStart >= MIN_REFRESH_INTERVAL

LEMMA HeldInit ==
    ASSUME Init
    PROVE  HeldInv
<1>1. RequestInv
    BY DEF Init, RequestInv, NoRequest, Fields
<1>2. QueueInv
    <2>1. << >> \in Seq(Request) /\ IsInjective(<< >>) /\ \A r : ~Contains(<< >>, r)
        BY DEF IsInjective, Contains
    <2> QED
        BY <2>1, IngressAssumption DEF Init, JwksInit, QueueInv, Off, TaskFields, Holding
<1>3. KeysInv
    BY <1>2 DEF Init, JwksInit, KeysInv, Off
<1>4. PermitInv
    <2>1. Cardinality(permits) = 0 /\ permits = {}
        BY FS_EmptySet DEF Init
    <2>2. D.max_concurrent_requests \in Nat
        BY IngressAssumption DEF Init, Accepted, D
    <2> QED
        BY <2>1, <2>2 DEF PermitInv
<1> QED
    BY <1>1, <1>3, <1>4 DEF HeldInv

\* A step of a request outside the cache leaves the tasks alone, one at the cache
\* ends or starts its own.
LEMMA RequestStepKeys ==
    ASSUME RequestInv, KeysInv, NEW r \in Request, Step(r)
    PROVE  KeysInv' /\ (UNCHANGED task \/ (OthersWait(r) /\ task'[r].pc # "forcedFetch"))
<1> DEFINE Kept == UNCHANGED <<now, last_forced_refetch, forcedStart>>
<1>0. Moves(r)
    BY StepMoves
<1>1. /\ \A q \in Request \ {r} : req'[q] = req[q]
      /\ req[r].pc # "keys" => task[r].pc = "off"
    BY <1>0 DEF Moves, RequestInv, KeysInv
<1>2. ASSUME QueueInv', OthersWait(r), task'[r].pc = "off", Kept
      PROVE  KeysInv' /\ OthersWait(r) /\ task'[r].pc # "forcedFetch"
    BY <1>1, <1>2 DEF KeysInv, OthersWait
<1>3. Apart(Off) /\ Off.pc = "off"
    BY DEF Apart, Off, TaskFields, Holding
<1>4. CASE LookUpKey(r)
    <2>1. req[r].pc = "assertion" /\ task[r].pc = "off" /\ Kept
        BY <1>1, <1>4 DEF LookUpKey
    <2>2. Apart(task[r])
        BY <2>1 DEF Apart, KeysInv, QueueInv, Holding
    <2>3. CASE task' = task
        BY <1>1, <1>4, <2>1, <2>3 DEF LookUpKey, KeysInv, QueueInv
    <2>4. CASE Advance(r, "keys") /\ \E kid : task' = [task EXCEPT ![r] = StartedTask(kid)]
        <3>1. PICK kid : task' = [task EXCEPT ![r] = StartedTask(kid)]
            BY <2>4
        <3>2. Apart(StartedTask(kid)) /\ StartedTask(kid).pc # "forcedFetch"
            BY DEF Apart, StartedTask, Off, TaskFields, Holding
        <3>3. Goes(r, StartedTask(kid))
            BY <1>4, <3>1 DEF Goes, LookUpKey
        <3>4. req'[r].pc = "keys"
            BY <2>4 DEF Advance, RequestInv, Fields
        <3>5. QueueInv' /\ OthersWait(r) /\ task'[r] = StartedTask(kid)
            BY <2>2, <3>2, <3>3, GoesApart DEF KeysInv
        <3> QED
            BY <1>1, <2>1, <3>2, <3>4, <3>5 DEF KeysInv, OthersWait
    <2> QED
        BY <1>4, <2>3, <2>4 DEF LookUpKey
<1>5. CASE Validate(r) \/ KeyNotFound(r)
    <2>1. Goes(r, Off) /\ Kept /\ task[r].pc \in {"found", "InvalidGrant", "ProviderError"}
        BY <1>5 DEF Validate, KeyNotFound, Goes
    <2>2. Apart(task[r])
        BY <2>1 DEF Apart, KeysInv, QueueInv, Holding
    <2> QED
        BY <1>2, <1>3, <2>1, <2>2, GoesApart DEF KeysInv
<1>6. CASE Drop(r)
    <2>1. DropTask(r) /\ Kept
        BY <1>6 DEF Drop, DropTask, CacheKept
    <2> QED
        BY <1>2, <1>3, <2>1, TaskDropped DEF KeysInv
<1>7. CASE req[r].pc # "keys" /\ UNCHANGED jwksVars /\ UNCHANGED now
    BY <1>1, <1>7 DEF KeysInv, QueueInv, jwksVars
<1>8. CASE Throttle(r) \/ Deny(r) \/ Admit(r) \/ Respond(r)
    BY <1>7, <1>8 DEF Throttle, Deny, Admit, Respond, Same
<1>9. CASE \/ HandleToken(r) \/ ExchangeCode(r) \/ Mint(r) \/ Record(r)
           \/ HandleRevoke(r) \/ RevokeFamily(r) \/ HandleOther(r)
    BY <1>7, <1>9 DEF HandleToken, ExchangeCode, Mint, Record, HandleRevoke, RevokeFamily, HandleOther, Same
<1>10. CASE \/ CheckLockout(r) \/ Authenticate(r) \/ RecordRefusal(r)
            \/ Operate(r) \/ RecordMutation(r) \/ Notify(r)
    BY <1>7, <1>10 DEF CheckLockout, Authenticate, RecordRefusal, Operate, RecordMutation, Notify, Same
<1> QED
    BY <1>4, <1>5, <1>6, <1>8, <1>9, <1>10 DEF Step

LEMMA KeysStep ==
    ASSUME RequestInv, KeysInv, [Next]_vars
    PROVE  KeysInv' /\ Rarely
<1>1. CASE Arrival
    <2>0. PICK r \in Request : \E in : Arrivable(in) /\ Arrive(r, in)
        BY <1>1, Arrivals
    <2>1. PICK in : Arrivable(in) /\ Arrive(r, in)
        BY <2>0
    <2>2. req[r].pc # "keys" /\ \A q \in Request \ {r} : req'[q] = req[q]
        BY <2>1, ArriveTakesASlot DEF NoRequest, RequestInv
    <2>3. UNCHANGED jwksVars /\ UNCHANGED now
        BY <2>1 DEF Arrive
    <2> QED
        BY <2>2, <2>3 DEF KeysInv, QueueInv, jwksVars, Rarely
<1>2. CASE \E r \in Request : Step(r)
    <2>1. PICK r \in Request : Step(r)
        BY <1>2
    <2> QED
        BY <2>1, RequestStepKeys DEF Rarely, OthersWait
<1>3. CASE \E r \in Request : KeyStep(r)
    <2>1. PICK r \in Request : KeyStep(r)
        BY <1>3
    <2>2. TaskStep(r) /\ UNCHANGED <<now, req>>
        BY <2>1 DEF KeyStep
    <2>3. /\ QueueInv' /\ OthersWait(r) /\ task[r].pc # "off"
          /\ \/ Unforced /\ (task'[r].pc = "forcedFetch" => task[r].pc = "forcedFetch")
             \/ ~TooSoon /\ last_forced_refetch' = now /\ forcedStart' = now
        BY <2>2, TaskStepKeeps DEF KeysInv
    <2>4. KeysInv'
        BY <2>2, <2>3 DEF KeysInv, OthersWait, Unforced
    <2>5. ~TooSoon /\ forcedStart # None => now - forcedStart >= MIN_REFRESH_INTERVAL
        BY JwksAssumption DEF TooSoon, KeysInv
    <2> QED
        BY <2>3, <2>4, <2>5 DEF Rarely, OthersWait
<1>4. CASE ProviderRotates
    BY <1>4 DEF ProviderRotates, Rotate, KeysInv, QueueInv, Rarely
<1>5. CASE Tick
    BY <1>5 DEF Tick, jwksVars, KeysInv, QueueInv, Rarely
<1>6. CASE UNCHANGED vars
    BY <1>6 DEF vars, jwksVars, KeysInv, QueueInv, Rarely
<1> QED
    BY <1>1, <1>2, <1>3, <1>4, <1>5, <1>6 DEF Next, Finished

\* The settings stay what they are, and only four layers touch the permits.
LEMMA StepFrame ==
    ASSUME NEW r \in Request, Step(r)
    PROVE  /\ UNCHANGED <<now, deployment, arrived, sent>>
           /\ UNCHANGED windows \/ Throttle(r) \/ Respond(r)
           /\ UNCHANGED permits \/ Admit(r) \/ permits' = permits \ {r}
           /\ UNCHANGED <<buckets, guesses>> \/ CheckLockout(r) \/ Authenticate(r)
           /\ UNCHANGED issued \/ Record(r)
<1> USE DEF Same, layerVars, historyVars
<1>1. CASE Throttle(r) \/ Deny(r) \/ Admit(r) \/ Respond(r)
    BY <1>1 DEF Throttle, Deny, Admit, Respond, emit_mandatory_audit_event
<1>2. CASE HandleToken(r) \/ ExchangeCode(r) \/ LookUpKey(r) \/ Validate(r) \/ KeyNotFound(r) \/ Mint(r)
    BY <1>2 DEF HandleToken, ExchangeCode, LookUpKey, Validate, KeyNotFound, Mint
<1>3. CASE Record(r) \/ HandleRevoke(r) \/ RevokeFamily(r) \/ HandleOther(r)
    BY <1>3 DEF Record, HandleRevoke, RevokeFamily, HandleOther, emit_mandatory_audit_event
<1>4. CASE CheckLockout(r) \/ Authenticate(r) \/ RecordRefusal(r)
    BY <1>4 DEF CheckLockout, Authenticate, RecordRefusal, emit_mandatory_audit_event
<1>5. CASE Operate(r) \/ RecordMutation(r) \/ Notify(r) \/ Drop(r)
    BY <1>5 DEF Operate, RecordMutation, Notify, Drop, emit_mandatory_audit_event
<1> QED
    BY <1>1, <1>2, <1>3, <1>4, <1>5 DEF Step

LEMMA OtherFrame ==
    ASSUME [Next]_vars, ~Arrival, \A r \in Request : ~Step(r)
    PROVE  UNCHANGED <<deployment, req, arrived, permits, windows, subjects, buckets, issued, sent, guesses>>
           /\ (UNCHANGED now \/ now' = now + 1)
BY DEF Next, KeyStep, ProviderRotates, Tick, Finished, vars, layerVars, historyVars

\* A request in service that is over has given its permit back.
LEMMA EndReturnsPermit ==
    ASSUME RequestInv, NEW r \in Request, Step(r), req[r].pc \in InService, req'[r] = NoRequest
    PROVE  permits' = permits \ {r}
<1> USE DEF RequestInv, Fields, InService, Advance, Ends, Answer, Terminal
<1>1. req'[r].pc = "idle"
    BY DEF NoRequest
<1>2. CASE Throttle(r) \/ Deny(r) \/ Admit(r)
    BY <1>2 DEF Throttle, Deny, Admit
<1>3. CASE Respond(r) \/ Drop(r)
    BY <1>3 DEF Respond, Drop
<1>4. CASE HandleToken(r) \/ ExchangeCode(r)
    <2>1. \/ \E e : Answer(r, e) \/ Terminal(r, e)
          \/ Advance(r, "assertion") \/ Advance(r, "code")
        BY <1>4 DEF HandleToken, ExchangeCode
    <2> QED
        BY <1>1, <2>1
<1>5. CASE LookUpKey(r) \/ Validate(r) \/ KeyNotFound(r)
    <2>1. Advance(r, "keys") \/ Advance(r, "mint") \/ \E e : Terminal(r, e)
        BY <1>5 DEF LookUpKey, Validate, KeyNotFound
    <2> QED
        BY <1>1, <2>1
<1>6. CASE Mint(r) \/ Record(r)
    <2>1. \/ \E e : Answer(r, e) \/ Terminal(r, e)
          \/ \E t : req' = [req EXCEPT ![r].pc = "terminal", ![r].token = t]
        BY <1>6 DEF Mint, Record
    <2> QED
        BY <1>1, <2>1
<1>7. CASE HandleRevoke(r) \/ RevokeFamily(r) \/ HandleOther(r)
    <2>1. Advance(r, "revoke") \/ \E e : Answer(r, e) \/ Terminal(r, e)
        BY <1>7 DEF HandleRevoke, RevokeFamily, HandleOther
    <2> QED
        BY <1>1, <2>1
<1>8. CASE \/ CheckLockout(r) \/ Authenticate(r) \/ RecordRefusal(r)
           \/ Operate(r) \/ RecordMutation(r) \/ Notify(r)
    BY <1>8 DEF CheckLockout, Authenticate, RecordRefusal, Operate, RecordMutation, Notify
<1> QED
    BY <1>2, <1>3, <1>4, <1>5, <1>6, <1>7, <1>8 DEF Step

LEMMA PermitStep ==
    ASSUME RequestInv, PermitInv, [Next]_vars
    PROVE  PermitInv'
<1> DEFINE max == D.max_concurrent_requests
<1>0. /\ IsFiniteSet(permits) /\ Cardinality(permits) \in Nat /\ max \in Nat
    BY IngressAssumption, FS_Subset, FS_CardinalityType DEF PermitInv, RequestInv, Accepted, D
<1>1. CASE Arrival
    <2>0. PICK r \in Request : \E in : Arrivable(in) /\ Arrive(r, in)
        BY <1>1, Arrivals
    <2>1. PICK in : Arrivable(in) /\ Arrive(r, in)
        BY <2>0
    <2>2. r \notin permits /\ \A q \in Request \ {r} : req'[q] = req[q]
        BY <2>1, ArriveTakesASlot DEF NoRequest, PermitInv, InService, RequestInv
    <2>3. UNCHANGED <<permits, deployment>>
        BY <2>1 DEF Arrive, layerVars
    <2> QED
        BY <2>2, <2>3 DEF PermitInv, D
<1>2. CASE \E r \in Request : Step(r)
    <2>1. PICK r \in Request : Step(r)
        BY <1>2
    <2>2. Moves(r) /\ UNCHANGED D
        BY <2>1, StepMoves, StepFrame DEF D
    <2>3. \A q \in Request \ {r} : req'[q] = req[q]
        BY <2>2 DEF Moves, RequestInv
    <2>4. CASE permits' = permits \ {r}
        <3>1. Cardinality(permits') <= Cardinality(permits) /\ Cardinality(permits') \in Nat
            BY <1>0, <2>4, FS_Subset, FS_CardinalityType
        <3>2. Cardinality(permits') <= max
            BY <1>0, <3>1 DEF PermitInv
        <3> QED
            BY <2>2, <2>3, <2>4, <3>2 DEF PermitInv
    <2>5. CASE UNCHANGED permits /\ r \notin permits
        BY <2>2, <2>3, <2>5 DEF PermitInv
    <2>6. CASE Admit(r) /\ permits' # permits
        <3>1. permits' = permits \cup {r} /\ Cardinality(permits) < max /\ Advance(r, "handle")
            BY <2>6 DEF Admit
        <3>2. Cardinality(permits') <= Cardinality(permits) + 1 /\ Cardinality(permits') \in Nat
            <4>1. Cardinality(permits \cup {r}) \in {Cardinality(permits), Cardinality(permits) + 1}
                BY <1>0, FS_AddElement
            <4> QED
                BY <1>0, <3>1, <4>1
        <3>3. req'[r].pc = "handle"
            BY <3>1 DEF Advance, RequestInv, Fields
        <3>4. Cardinality(permits') <= max
            BY <1>0, <3>1, <3>2
        <3> QED
            BY <2>2, <2>3, <3>1, <3>3, <3>4 DEF PermitInv, InService
    <2>7. CASE UNCHANGED permits /\ r \in permits
        <3>1. req[r].pc \in InService
            BY <2>7 DEF PermitInv
        <3>2. req'[r] # NoRequest
            <4>1. permits # permits \ {r}
                BY <2>7
            <4> QED
                BY <2>1, <2>7, <3>1, <4>1, EndReturnsPermit
        <3>3. req'[r].pc \in InService
            BY <2>2, <3>1, <3>2 DEF Moves, Flow, InService
        <3> QED
            BY <2>2, <2>3, <2>7, <3>3 DEF PermitInv
    <2> QED
        BY <2>1, <2>4, <2>5, <2>6, <2>7, StepFrame
<1>3. CASE ~Arrival /\ \A r \in Request : ~Step(r)
    BY <1>3, OtherFrame DEF PermitInv, D
<1> QED
    BY <1>1, <1>2, <1>3

LEMMA HeldStep ==
    ASSUME HeldInv, [Next]_vars
    PROVE  HeldInv' /\ Rarely
BY RequestInvStep, KeysStep, PermitStep DEF HeldInv

THEOREM IngressHeldInvariant == IngressSpec => []HeldInv
<1>1. Init => HeldInv
    BY HeldInit
<1>2. HeldInv /\ [Next]_vars => HeldInv'
    BY HeldStep
<1> QED
    BY <1>1, <1>2, PTL DEF IngressSpec

\* Nothing a request holds outlives it: each permit, the refill permit and the
\* places in its queue are those of requests at work, however they end.
THEOREM IngressPermitsAreReturned == IngressSpec => []PermitsAreReturned
<1>1. ASSUME HeldInv
      PROVE  PermitsAreReturned
    <2>1. \A r \in permits : req[r].pc \in InService
        BY <1>1 DEF HeldInv, PermitInv
    <2>2. CASE refill = None
        <3>1. waiters = << >>
            BY <1>1, <2>2 DEF HeldInv, KeysInv, QueueInv
        <3> QED
            BY <1>1, <2>1, <2>2, <3>1
            DEF HeldInv, KeysInv, QueueInv, PermitInv, PermitsAreReturned, InService
    <2>3. CASE refill # None
        <3>1. refill \in Request /\ task[refill].pc \in Holding
            BY <1>1, <2>3 DEF HeldInv, KeysInv, QueueInv
        <3>2. req[refill].pc = "keys"
            BY <1>1, <3>1 DEF HeldInv, KeysInv, Holding
        <3> QED
            BY <1>1, <2>1, <2>3, <3>1, <3>2
            DEF HeldInv, KeysInv, QueueInv, PermitInv, PermitsAreReturned, InService
    <2> QED
        BY <2>2, <2>3
<1> QED
    BY <1>1, IngressHeldInvariant, PTL

\* The provider is sent at most one forced refetch per MIN_REFRESH_INTERVAL, however
\* many requests meet an unknown kid at once.
THEOREM IngressForcedRefetchIsRare == IngressSpec => ForcedRefetchIsRare
<1>1. HeldInv /\ [Next]_vars => [Rarely]_vars
    BY HeldStep
<1> QED
    BY <1>1, IngressHeldInvariant, PTL DEF IngressSpec, ForcedRefetchIsRare, Rarely

-----------------------------------------------------------------------------
(* The lockout. *)

\* The requests of a peer that have passed the check and are not judged yet.
Checked(p) == {r \in Request : req[r].pc = "authenticate" /\ peer_key(req[r].in) = p}

max_failures == D.lockout.max_failures
lifetime == bucket_lifetime(D.lockout)

\* Until its budget is spent the failures of a peer are counted to the last; from
\* then on those that had passed the check are all that may still fail.
Counted(p) ==
    /\ buckets[p].started_at \in Nat /\ buckets[p].started_at <= now
    /\ buckets[p].consumed \in 0..max_failures
    /\ buckets[p].consumed < max_failures => guesses[p] = buckets[p].consumed
    /\ buckets[p].consumed = max_failures =>
           guesses[p] + Cardinality(Checked(p)) <= max_failures + Cardinality(Request) - 1

LockoutInv ==
    /\ now \in Nat
    /\ DOMAIN guesses = D.addresses /\ \A p \in D.addresses : guesses[p] \in Nat
    /\ DOMAIN buckets \subseteq D.addresses
    /\ D.runtime # "server" => DOMAIN buckets = {}
    /\ \A p \in DOMAIN buckets : Counted(p)

LEMMA LockoutNumbers ==
    ASSUME RequestInv
    PROVE  /\ max_failures \in Nat \ {0}
           /\ D.lockout.failure_window \in Nat \ {0}
           /\ lifetime \in Nat \ {0}
           /\ IsFiniteSet(Request) /\ Cardinality(Request) \in Nat
           /\ \A p : Checked(p) \subseteq Request /\ Cardinality(Checked(p)) \in Nat
                     /\ IsFiniteSet(Checked(p))
<1>1. Accepted(D) /\ IsFiniteSet(Request)
    BY IngressAssumption DEF RequestInv, D
<1>2. \A p : Checked(p) \subseteq Request
    BY DEF Checked
<1>3. \A p : IsFiniteSet(Checked(p)) /\ Cardinality(Checked(p)) \in Nat
    BY <1>1, <1>2, FS_Subset, FS_CardinalityType
<1>4. Cardinality(Request) \in Nat
    BY <1>1, FS_CardinalityType
<1>5. {D.lockout.max_failures, D.lockout.failure_window, D.lockout.lockout} \subseteq Nat \ {0}
    BY <1>1 DEF Accepted
<1>6. max_failures \in Nat \ {0} /\ D.lockout.failure_window \in Nat \ {0} /\ D.lockout.lockout \in Nat \ {0}
    BY <1>5 DEF max_failures
<1>7. lifetime \in Nat \ {0}
    BY <1>6 DEF max_failures, lifetime, bucket_lifetime
<1> QED
    BY <1>1, <1>2, <1>3, <1>4, <1>6, <1>7

\* The table with the peer's bucket: each is one that lives on, or the peer's new one.
LEMMA LiveBuckets ==
    ASSUME NEW table, NEW peer, NEW at, NEW cfg, NEW t \in live_bucket(table, peer, at, cfg)
    PROVE  /\ peer \in DOMAIN t
           /\ DOMAIN t \subseteq DOMAIN table \cup {peer}
           /\ \A p \in DOMAIN t :
                  \/ p \in DOMAIN table /\ t[p] = table[p] /\ at - table[p].started_at < bucket_lifetime(cfg)
                  \/ /\ p = peer /\ t[p] = Bucket(at, 0)
                     /\ p \in DOMAIN table => ~(at - table[p].started_at < bucket_lifetime(cfg))
<1> DEFINE kept == Retain(table, bucket_lifetime(cfg), at)
           grown == Put(kept, peer, Bucket(at, 0))
<1>1. /\ DOMAIN kept = {k \in DOMAIN table : at - table[k].started_at < bucket_lifetime(cfg)}
      /\ \A k \in DOMAIN kept : kept[k] = table[k]
    BY DEF Retain, Restrict
<1>2. /\ DOMAIN grown = DOMAIN kept \cup {peer} /\ grown[peer] = Bucket(at, 0)
      /\ \A k \in DOMAIN kept \ {peer} : grown[k] = kept[k]
    BY DEF Put
<1>3. \/ peer \in DOMAIN kept /\ t = kept
      \/ peer \notin DOMAIN kept /\ t = grown
      \/ /\ peer \notin DOMAIN kept
         /\ \E k \in DOMAIN kept : t = Restrict(grown, DOMAIN grown \ {k})
    BY DEF live_bucket, Oldest
<1> HIDE DEF kept, grown
<1>4. CASE peer \in DOMAIN kept /\ t = kept
    BY <1>1, <1>4
<1>5. CASE peer \notin DOMAIN kept /\ t = grown
    BY <1>1, <1>2, <1>5
<1>6. CASE /\ peer \notin DOMAIN kept
           /\ \E k \in DOMAIN kept : t = Restrict(grown, DOMAIN grown \ {k})
    <2>1. PICK k \in DOMAIN kept : t = Restrict(grown, DOMAIN grown \ {k})
        BY <1>6
    <2>2. DOMAIN t = DOMAIN grown \ {k} /\ \A p \in DOMAIN t : t[p] = grown[p]
        BY <2>1 DEF Restrict
    <2> QED
        BY <1>1, <1>2, <1>6, <2>2
<1> QED
    BY <1>3, <1>4, <1>5, <1>6

\* Only the check lets a request through to the gate.
LEMMA OnlyCheckAdmits ==
    ASSUME RequestInv, NEW r \in Request, Step(r), ~CheckLockout(r)
    PROVE  \A p : Checked(p)' \subseteq Checked(p)
<1>1. Moves(r)
    BY StepMoves
<1>2. req[r].pc = "check" => Drop(r)
    BY DEF Step, Throttle, Deny, Admit, Respond, HandleToken, ExchangeCode, LookUpKey, Validate, KeyNotFound,
           Mint, Record, HandleRevoke, RevokeFamily, HandleOther, Authenticate, RecordRefusal, Operate,
           RecordMutation, Notify
<1>3. Drop(r) => req'[r] = NoRequest
    BY DEF Drop, Ends, RequestInv
<1>4. req'[r].pc # "authenticate"
    BY <1>1, <1>2, <1>3 DEF Moves, Flow, NoRequest
<1>5. \A q \in Request \ {r} : req'[q] = req[q]
    BY <1>1 DEF Moves, RequestInv
<1> QED
    BY <1>4, <1>5 DEF Checked

\* While the buckets stay and nobody is let through, the counts hold.
LEMMA CountsHold ==
    ASSUME RequestInv, RequestInv', LockoutInv, UNCHANGED <<deployment, buckets, guesses>>,
           now' \in Nat, now <= now', \A p \in D.addresses : Checked(p)' \subseteq Checked(p)
    PROVE  LockoutInv'
<1>1. UNCHANGED D /\ UNCHANGED max_failures
    BY DEF D, max_failures
<1>2. \A p \in D.addresses : Cardinality(Checked(p)') <= Cardinality(Checked(p)) /\ Cardinality(Checked(p)') \in Nat
    BY LockoutNumbers, FS_Subset, FS_CardinalityType
<1>3. ASSUME NEW p \in DOMAIN buckets
      PROVE  Counted(p)'
    <2>1. Counted(p) /\ guesses[p] \in Nat /\ p \in D.addresses
        BY DEF LockoutInv
    <2> QED
        BY <1>1, <1>2, <2>1, LockoutNumbers DEF Counted, LockoutInv
<1> QED
    BY <1>1, <1>3 DEF LockoutInv

\* The check resets what is counted with the bucket it is counted in, and lets a
\* request through only while the budget is not spent.
LEMMA CheckCounts ==
    ASSUME RequestInv, RequestInv', LockoutInv, NEW r \in Request, CheckLockout(r), peer_key(req[r].in) # None
    PROVE  LockoutInv'
<1> DEFINE peer == peer_key(req[r].in)
<1>1. PICK o \in admin_check_at(buckets, peer, now, D.lockout) :
          /\ buckets' = o.table
          /\ guesses' = [p \in DOMAIN guesses |-> IF p \in DOMAIN o.table /\ p \in DOMAIN buckets
                                                  THEN IF o.table[p] = buckets[p] THEN guesses[p] ELSE 0 ELSE 0]
          /\ Advance(r, IF o.allow THEN "authenticate" ELSE "lockedOut")
    BY DEF CheckLockout
<1>2. PICK t \in live_bucket(buckets, peer, now, D.lockout) :
          o = [table |-> t, allow |-> decision_at(t[peer], now, D.lockout)]
    BY <1>1 DEF admin_check_at
<1>3. buckets' = t /\ o.table = t /\ (o.allow <=> decision_at(t[peer], now, D.lockout))
    BY <1>1, <1>2 DEF decision_at
<1>4. /\ UNCHANGED <<now, deployment>>
      /\ UNCHANGED D /\ UNCHANGED max_failures
    BY DEF CheckLockout, D, max_failures
<1>5. /\ req[r].pc = "check" /\ peer \in D.addresses /\ D.runtime = "server"
    BY DEF CheckLockout, RequestInv
<1>6. /\ DOMAIN guesses' = D.addresses /\ \A p \in D.addresses : guesses'[p] \in Nat
    BY <1>1 DEF LockoutInv
<1>7. /\ req'[r].in = req[r].in /\ req'[r].pc = IF o.allow THEN "authenticate" ELSE "lockedOut"
      /\ \A q \in Request \ {r} : req'[q] = req[q]
    BY <1>1 DEF Advance, RequestInv, Fields
<1> HIDE DEF peer
<1>8. peer = peer_key(req[r].in)
    BY DEF peer
<1>9. ASSUME NEW p \in DOMAIN t
      PROVE  Counted(p)'
    <2>1. CASE p \in DOMAIN buckets /\ t[p] = buckets[p] /\ now - buckets[p].started_at < lifetime
        <3>1. guesses'[p] = guesses[p] /\ buckets'[p] = buckets[p]
            BY <1>1, <1>3, <2>1 DEF LockoutInv
        <3>2. Counted(p)
            BY <2>1 DEF LockoutInv
        <3>3. buckets[p].consumed = max_failures => Checked(p)' \subseteq Checked(p)
            <4>1. SUFFICES ASSUME buckets[p].consumed = max_failures
                           PROVE  Checked(p)' \subseteq Checked(p)
                OBVIOUS
            <4>2. CASE p = peer
                <5>1. ~decision_at(t[peer], now, D.lockout)
                    BY <2>1, <3>2, <4>1, <4>2, LockoutNumbers
                    DEF decision_at, max_failures, lifetime, LockoutInv, Counted
                <5>2. req'[r].pc = "lockedOut"
                    BY <1>3, <1>7, <5>1
                <5> QED
                    BY <1>7, <5>2 DEF Checked
            <4>3. CASE p # peer
                BY <1>7, <1>8, <4>3 DEF Checked
            <4> QED
                BY <4>2, <4>3
        <3>4. buckets[p].consumed = max_failures =>
                  Cardinality(Checked(p)') <= Cardinality(Checked(p)) /\ Cardinality(Checked(p)') \in Nat
            BY <3>3, LockoutNumbers, FS_Subset, FS_CardinalityType
        <3>5. guesses[p] \in Nat
            BY <2>1 DEF LockoutInv
        <3> QED
            BY <1>4, <3>1, <3>2, <3>4, <3>5, LockoutNumbers DEF Counted
    <2>2. CASE /\ p = peer /\ t[p] = Bucket(now, 0)
               /\ p \in DOMAIN buckets => ~(now - buckets[p].started_at < lifetime)
        <3>1. p \in DOMAIN buckets => t[p] # buckets[p]
            <4>1. SUFFICES ASSUME p \in DOMAIN buckets, t[p] = buckets[p]
                           PROVE  FALSE
                OBVIOUS
            <4>2. buckets[p].started_at = now /\ now \in Nat
                BY <2>2, <4>1 DEF Bucket, LockoutInv
            <4> QED
                BY <2>2, <4>1, <4>2, LockoutNumbers
        <3>2. guesses'[p] = 0
            BY <1>1, <1>3, <1>5, <2>2, <3>1 DEF LockoutInv
        <3>3. buckets'[p].started_at = now /\ buckets'[p].consumed = 0 /\ now \in Nat
            BY <1>3, <2>2 DEF Bucket, LockoutInv
        <3> QED
            BY <1>4, <3>2, <3>3, LockoutNumbers DEF Counted
    <2> QED
        BY <2>1, <2>2, LiveBuckets DEF lifetime
<1>10. DOMAIN t \subseteq D.addresses
    BY <1>5, LiveBuckets DEF LockoutInv
<1> QED
    BY <1>3, <1>4, <1>5, <1>6, <1>9, <1>10 DEF LockoutInv

\* A failure counts one more, in the bucket that is judged.
LEMMA FailureCounts ==
    ASSUME RequestInv, RequestInv', LockoutInv, NEW r \in Request, req[r].pc = "authenticate",
           UNCHANGED <<now, deployment>>, Advance(r, "refused"), peer_key(req[r].in) # None,
           NEW o \in admin_consume_at(buckets, peer_key(req[r].in), now, D.lockout),
           buckets' = o.table,
           guesses' = [q \in DOMAIN guesses |->
                  LET kept == q \in DOMAIN o.table /\ q \in DOMAIN buckets
                      n == IF kept THEN IF o.table[q].started_at = buckets[q].started_at
                                        THEN guesses[q] ELSE 0 ELSE 0
                  IN  IF q = peer_key(req[r].in) THEN n + 1 ELSE n]
    PROVE  LockoutInv'
<1>0. PICK peer : peer = peer_key(req[r].in)
    OBVIOUS
<1> DEFINE b(t) == Renewed(t[peer], now, D.lockout)
           n(t) == IF b(t).consumed < max_failures THEN b(t).consumed + 1 ELSE b(t).consumed
           g(q) == IF q \in DOMAIN o.table /\ q \in DOMAIN buckets
                   THEN IF o.table[q].started_at = buckets[q].started_at THEN guesses[q] ELSE 0 ELSE 0
<1>1. PICK t \in live_bucket(buckets, peer, now, D.lockout) :
          o.table = Put(t, peer, Bucket(b(t).started_at, n(t)))
    BY <1>0 DEF admin_consume_at, max_failures
<1>2. /\ UNCHANGED D /\ UNCHANGED max_failures
    BY DEF D, max_failures
<1>3. peer \in D.addresses /\ D.runtime = "server"
    BY <1>0 DEF RequestInv
<1>4. /\ DOMAIN guesses' = D.addresses
      /\ \A q \in D.addresses : guesses'[q] = IF q = peer THEN g(q) + 1 ELSE g(q)
    BY <1>0 DEF LockoutInv
<1>5. /\ req'[r].pc = "refused" /\ \A q \in Request \ {r} : req'[q] = req[q]
    BY DEF Advance, RequestInv, Fields
<1>6. r \in Checked(peer)
    BY <1>0 DEF Checked
<1>7. /\ \A p : Checked(p)' \subseteq Checked(p)
      /\ Checked(peer)' = Checked(peer) \ {r}
    BY <1>5 DEF Checked
<1> DEFINE bt == b(t)
           nt == n(t)
<1>8. /\ DOMAIN buckets' = DOMAIN t \cup {peer}
      /\ buckets'[peer] = Bucket(bt.started_at, nt)
      /\ \A q \in DOMAIN t \ {peer} : buckets'[q] = t[q]
      /\ o.table = buckets'
    BY <1>1 DEF Put
<1>9. bt = Renewed(t[peer], now, D.lockout) /\ nt = IF bt.consumed < max_failures THEN bt.consumed + 1 ELSE bt.consumed
    OBVIOUS
<1>10. \A q : g(q) = IF q \in DOMAIN buckets' /\ q \in DOMAIN buckets
                     THEN IF buckets'[q].started_at = buckets[q].started_at THEN guesses[q] ELSE 0 ELSE 0
    BY <1>8
<1> HIDE DEF b, n, bt, nt, g
<1>11. \A q \in D.addresses : g(q) \in Nat
    BY <1>10 DEF LockoutInv
<1>12. /\ peer \in DOMAIN t /\ DOMAIN t \subseteq DOMAIN buckets \cup {peer}
       /\ \A p \in DOMAIN t :
              \/ p \in DOMAIN buckets /\ t[p] = buckets[p] /\ now - buckets[p].started_at < lifetime
              \/ /\ p = peer /\ t[p] = Bucket(now, 0)
                 /\ p \in DOMAIN buckets => ~(now - buckets[p].started_at < lifetime)
    BY <1>0, LiveBuckets DEF lifetime
<1>13. /\ Cardinality(Checked(peer)') = Cardinality(Checked(peer)) - 1
       /\ Cardinality(Checked(peer)') <= Cardinality(Request) - 1
       /\ Cardinality(Checked(peer)') \in Nat
       /\ \A p : Cardinality(Checked(p)') <= Cardinality(Checked(p)) /\ Cardinality(Checked(p)') \in Nat
    <2>1. \A p : Cardinality(Checked(p)') <= Cardinality(Checked(p)) /\ Cardinality(Checked(p)') \in Nat
        BY <1>7, LockoutNumbers, FS_Subset, FS_CardinalityType
    <2>2. Cardinality(Checked(peer) \ {r}) = Cardinality(Checked(peer)) - 1
        BY <1>6, LockoutNumbers, FS_RemoveElement
    <2>3. Cardinality(Checked(peer)) <= Cardinality(Request)
        BY LockoutNumbers, FS_Subset
    <2>4. Cardinality(Checked(peer)') = Cardinality(Checked(peer)) - 1
        BY <1>7, <2>2
    <2>5. Cardinality(Checked(peer)) \in Nat /\ Cardinality(Request) \in Nat
        BY LockoutNumbers
    <2>6. Cardinality(Checked(peer)') <= Cardinality(Request) - 1
        BY <2>3, <2>4, <2>5
    <2> QED
        BY <2>1, <2>4, <2>6
<1>14. ASSUME NEW p \in DOMAIN buckets', p # peer
       PROVE  Counted(p)'
    <2>1. /\ p \in DOMAIN buckets /\ t[p] = buckets[p] /\ buckets'[p] = buckets[p]
        BY <1>8, <1>12, <1>14
    <2>2. Counted(p) /\ guesses[p] \in Nat /\ p \in D.addresses
        BY <2>1 DEF LockoutInv
    <2>3. guesses'[p] = guesses[p]
        BY <1>4, <1>10, <1>14, <2>1, <2>2
    <2> QED
        BY <1>2, <1>13, <2>1, <2>2, <2>3, LockoutNumbers DEF Counted
<1>15. Counted(peer)'
    <2>0. now \in Nat /\ bucket_lifetime(D.lockout) = lifetime /\ D.lockout.max_failures = max_failures
        BY DEF LockoutInv, lifetime, max_failures
    <2>1. CASE bt = Bucket(now, 0) /\ (peer \in DOMAIN buckets => buckets[peer].started_at # now)
        <3>1. nt = 1 /\ buckets'[peer].started_at = now /\ buckets'[peer].consumed = 1
            BY <1>8, <1>9, <2>1, LockoutNumbers DEF Bucket
        <3>2. g(peer) = 0
            BY <1>10, <2>1, <3>1
        <3>3. guesses'[peer] = 1
            BY <1>3, <1>4, <3>2
        <3> QED
            BY <1>2, <1>13, <2>0, <3>1, <3>3, LockoutNumbers DEF Counted
    <2>2. CASE bt = buckets[peer] /\ peer \in DOMAIN buckets
        <3>1. /\ Counted(peer) /\ guesses[peer] \in Nat
            BY <1>3, <2>2 DEF LockoutInv
        <3>2. /\ buckets'[peer].started_at = buckets[peer].started_at
              /\ buckets'[peer].consumed = nt
              /\ nt = IF buckets[peer].consumed < max_failures THEN buckets[peer].consumed + 1
                                                              ELSE buckets[peer].consumed
            BY <1>8, <1>9, <2>2 DEF Bucket
        <3>3. guesses'[peer] = guesses[peer] + 1
            <4>1. g(peer) = guesses[peer]
                BY <1>8, <1>10, <2>2, <3>2
            <4> QED
                BY <1>3, <1>4, <4>1
        <3> QED
            BY <1>2, <1>13, <2>0, <3>1, <3>2, <3>3, LockoutNumbers DEF Counted
    <2>3. CASE peer \in DOMAIN buckets /\ t[peer] = buckets[peer] /\ now - buckets[peer].started_at < lifetime
        <3>1. Counted(peer)
            BY <2>3 DEF LockoutInv
        <3>2. \/ bt = t[peer]
              \/ bt = Bucket(now, 0) /\ now - t[peer].started_at >= D.lockout.failure_window
            BY <1>9, <2>0, <2>3, <3>1, LockoutNumbers DEF Renewed, Counted
        <3>3. bt = Bucket(now, 0) /\ now - t[peer].started_at >= D.lockout.failure_window =>
                  buckets[peer].started_at # now
            BY <2>0, <2>3, <3>1, LockoutNumbers
        <3> QED
            BY <2>1, <2>2, <2>3, <3>2, <3>3
    <2>4. CASE /\ t[peer] = Bucket(now, 0)
               /\ peer \in DOMAIN buckets => ~(now - buckets[peer].started_at < lifetime)
        <3>1. bt = Bucket(now, 0)
            BY <1>9, <2>0, <2>4, LockoutNumbers DEF Renewed, Bucket
        <3>2. peer \in DOMAIN buckets => buckets[peer].started_at # now
            BY <2>0, <2>4, LockoutNumbers
        <3> QED
            BY <2>1, <3>1, <3>2
    <2> QED
        BY <1>12, <2>3, <2>4
<1>16. DOMAIN buckets' \subseteq D.addresses
    BY <1>3, <1>8, <1>12 DEF LockoutInv
<1>17. \A q \in D.addresses : guesses'[q] \in Nat
    BY <1>4, <1>11
<1> QED
    BY <1>2, <1>3, <1>4, <1>14, <1>15, <1>16, <1>17 DEF LockoutInv

\* Without a key a request is let through, and counted against nobody.
LEMMA UnkeyedCounts ==
    ASSUME RequestInv, RequestInv', LockoutInv, NEW r \in Request, CheckLockout(r), peer_key(req[r].in) = None
    PROVE  LockoutInv'
<1>1. /\ UNCHANGED <<now, deployment, buckets, guesses>> /\ Advance(r, "authenticate")
    BY DEF CheckLockout
<1>2. /\ req'[r].in = req[r].in
      /\ \A q \in Request \ {r} : req'[q] = req[q]
    BY <1>1 DEF Advance, RequestInv, Fields
<1>3. None \notin D.addresses
    BY IngressAssumption DEF RequestInv, D
<1>4. \A p \in D.addresses : Checked(p)' \subseteq Checked(p)
    BY <1>2, <1>3 DEF Checked
<1>5. now \in Nat /\ now' \in Nat /\ now <= now'
    BY <1>1 DEF LockoutInv
<1> QED
    BY <1>1, <1>4, <1>5, CountsHold

LEMMA LockoutStep ==
    ASSUME RequestInv, RequestInv', LockoutInv, [Next]_vars
    PROVE  LockoutInv'
<1>0. now \in Nat
    BY DEF LockoutInv
<1>1. CASE Arrival
    <2>0. PICK r \in Request : \E in : Arrivable(in) /\ Arrive(r, in)
        BY <1>1, Arrivals
    <2>1. PICK in : Arrivable(in) /\ Arrive(r, in)
        BY <2>0
    <2>2. \A p : Checked(p)' \subseteq Checked(p)
        BY <2>1, ArriveTakesASlot DEF Checked, NoRequest, RequestInv
    <2>3. UNCHANGED <<now, deployment, buckets, guesses>>
        BY <2>1 DEF Arrive, layerVars
    <2> QED
        BY <1>0, <2>2, <2>3, CountsHold
<1>2. CASE \E r \in Request : Step(r)
    <2>1. PICK r \in Request : Step(r)
        BY <1>2
    <2>2. UNCHANGED <<now, deployment>>
        BY <2>1, StepFrame
    <2>3. CASE CheckLockout(r)
        BY <2>3, CheckCounts, UnkeyedCounts
    <2>4. CASE ~CheckLockout(r) /\ UNCHANGED <<buckets, guesses>>
        BY <1>0, <2>1, <2>2, <2>4, OnlyCheckAdmits, CountsHold
    <2>5. CASE Authenticate(r) /\ ~UNCHANGED <<buckets, guesses>>
        <3>1. /\ req[r].pc = "authenticate" /\ Advance(r, "refused") /\ peer_key(req[r].in) # None
              /\ \E o \in admin_consume_at(buckets, peer_key(req[r].in), now, D.lockout) :
                     /\ buckets' = o.table
                     /\ guesses' = [q \in DOMAIN guesses |->
                            LET kept == q \in DOMAIN o.table /\ q \in DOMAIN buckets
                                n == IF kept THEN IF o.table[q].started_at = buckets[q].started_at
                                                  THEN guesses[q] ELSE 0 ELSE 0
                            IN  IF q = peer_key(req[r].in) THEN n + 1 ELSE n]
            BY <2>5 DEF Authenticate
        <3> QED
            BY <2>2, <3>1, FailureCounts
    <2> QED
        BY <2>1, <2>3, <2>4, <2>5, StepFrame
<1>3. CASE ~Arrival /\ \A r \in Request : ~Step(r)
    <2>1. UNCHANGED <<deployment, req, buckets, guesses>> /\ (UNCHANGED now \/ now' = now + 1)
        BY <1>3, OtherFrame
    <2>2. \A p : Checked(p)' \subseteq Checked(p)
        BY <2>1 DEF Checked
    <2> QED
        BY <1>0, <2>1, <2>2, CountsHold
<1> QED
    BY <1>1, <1>2, <1>3

\* Where the listener knows its peers, a peer gets within one bucket its budget of
\* failures and at most one more for each other request that had passed the check before
\* the budget was spent; where it does not, nothing is ever counted.
THEOREM IngressLockoutHolds == IngressSpec => []LockoutHolds
<1>1. Init => LockoutInv
    BY DEF Init, LockoutInv
<1>2. RequestInv /\ RequestInv' /\ LockoutInv /\ [Next]_vars => LockoutInv'
    BY LockoutStep
<1>3. HeldInv => RequestInv
    BY DEF HeldInv
<1>4. RequestInv /\ LockoutInv => LockoutHolds
    <2> SUFFICES ASSUME RequestInv, LockoutInv, NEW p \in DOMAIN buckets
                 PROVE  guesses[p] <= max_failures + Cardinality(Request) - 1
        BY DEF LockoutHolds, LockoutInv, max_failures
    <2>1. Counted(p) /\ guesses[p] \in Nat
        BY DEF LockoutInv
    <2> QED
        BY <2>1, LockoutNumbers DEF Counted
<1> QED
    BY <1>1, <1>2, <1>3, <1>4, IngressHeldInvariant, PTL DEF IngressSpec

-----------------------------------------------------------------------------
(* The budgets of the public windows. *)

AddrKey(a) == <<"ClientAddr", a>>

\* The requests of an address the throttle has not seen yet.
Waiting(a) == {r \in Request : req[r].pc = "throttle" /\ req[r].addr = a}

SpentIn(table, key) == IF key \in DOMAIN table THEN table[key].consumed ELSE 0

\* What was counted and what will be came from the address.
BudgetInv ==
    /\ DOMAIN sent = D.addresses
    /\ DOMAIN windows \subseteq {"ClientAddr", "ClientAddrFailure"} \X D.addresses
    /\ \A k \in DOMAIN windows : windows[k].consumed \in Nat
    /\ \A a \in D.addresses :
           sent[a] \in Nat /\ SpentIn(windows, AddrKey(a)) + Cardinality(Waiting(a)) <= sent[a]

LEMMA WaitingIsFinite ==
    ASSUME NEW a
    PROVE  IsFiniteSet(Waiting(a)) /\ Cardinality(Waiting(a)) \in Nat
<1>1. Waiting(a) \subseteq Request
    BY DEF Waiting
<1> QED
    BY <1>1, IngressAssumption, FS_Subset, FS_CardinalityType

\* A call of the limiter counts one more against its key at most, and nothing more
\* against another.
LEMMA WindowCounts ==
    ASSUME NEW table, \A k \in DOMAIN table : table[k].consumed \in Nat,
           NEW key, NEW at, NEW window, NEW budgets, NEW max_entries,
           NEW o \in window_check_at(table, key, at, window, budgets, max_entries)
    PROVE  /\ DOMAIN o.table \subseteq DOMAIN table \cup {key}
           /\ \A k \in DOMAIN o.table : o.table[k].consumed \in Nat
           /\ \A k : SpentIn(o.table, k) \in Nat
           /\ SpentIn(o.table, key) <= SpentIn(table, key) + 1
           /\ \A k : k # key => SpentIn(o.table, k) <= SpentIn(table, k)
<1>1. CASE o = [table |-> table, allow |-> TRUE]
    BY <1>1 DEF SpentIn
<1>2. CASE for_key(budgets, key) # 0
    <2> DEFINE kept == Retain(table, window, at)
               bucket(t) == IF key \in DOMAIN t THEN t[key] ELSE Bucket(at, 0)
               allow(t) == bucket(t).consumed < for_key(budgets, key)
    <2>1. PICK t \in Roomy(kept, key, max_entries) :
              o.table = Put(t, key, Bucket(bucket(t).started_at,
                                           bucket(t).consumed + IF allow(t) THEN 1 ELSE 0))
        BY <1>2 DEF window_check_at
    <2>2. DOMAIN kept \subseteq DOMAIN table /\ \A k \in DOMAIN kept : kept[k] = table[k]
        BY DEF Retain, Restrict
    <2> HIDE DEF kept
    <2>3. DOMAIN t \subseteq DOMAIN table /\ \A k \in DOMAIN t : t[k] = table[k]
        <3>1. t = kept \/ \E k : t = Restrict(kept, DOMAIN kept \ {k})
            BY <2>1 DEF Roomy
        <3> QED
            BY <2>2, <3>1 DEF Restrict
    <2>4. bucket(t).consumed \in Nat /\ bucket(t).consumed <= SpentIn(table, key)
        <3>1. CASE key \in DOMAIN t
            BY <2>3, <3>1 DEF SpentIn
        <3>2. CASE key \notin DOMAIN t
            BY <3>2 DEF SpentIn, Bucket
        <3> QED
            BY <3>1, <3>2
    <2> DEFINE n == bucket(t).consumed + IF allow(t) THEN 1 ELSE 0
    <2>5. n \in Nat /\ n <= bucket(t).consumed + 1
        BY <2>4
    <2>6. /\ DOMAIN o.table = DOMAIN t \cup {key}
          /\ o.table[key].consumed = n
          /\ \A k \in DOMAIN t \ {key} : o.table[k] = t[k]
        BY <2>1 DEF Put, Bucket
    <2> HIDE DEF n, bucket, allow
    <2>7. \A k : SpentIn(table, k) \in Nat
        BY DEF SpentIn
    <2>8. SpentIn(o.table, key) = n
        BY <2>6 DEF SpentIn
    <2>9. ASSUME NEW k, k # key
          PROVE  SpentIn(o.table, k) \in Nat /\ SpentIn(o.table, k) <= SpentIn(table, k)
        BY <2>3, <2>6, <2>9 DEF SpentIn
    <2>10. SpentIn(o.table, key) <= SpentIn(table, key) + 1
        BY <2>4, <2>5, <2>7, <2>8
    <2>11. \A k \in DOMAIN o.table : o.table[k].consumed \in Nat
        BY <2>3, <2>5, <2>6
    <2> QED
        BY <2>3, <2>5, <2>6, <2>8, <2>9, <2>10, <2>11
<1> QED
    BY <1>1, <1>2 DEF window_check_at

\* While no more is counted and nobody joins, the budgets hold.
LEMMA BudgetsHold ==
    ASSUME RequestInv, BudgetInv, UNCHANGED <<deployment, sent, windows>>,
           \A a : Waiting(a)' \subseteq Waiting(a)
    PROVE  BudgetInv'
<1>1. UNCHANGED D
    BY DEF D
<1>2. ASSUME NEW a \in D.addresses
      PROVE  SpentIn(windows, AddrKey(a)) + Cardinality(Waiting(a)') <= sent[a]
    <2>1. Cardinality(Waiting(a)') <= Cardinality(Waiting(a)) /\ Cardinality(Waiting(a)') \in Nat
        BY WaitingIsFinite, FS_Subset, FS_CardinalityType
    <2>2. SpentIn(windows, AddrKey(a)) \in Nat
        BY DEF SpentIn, BudgetInv
    <2> QED
        BY <2>1, <2>2, WaitingIsFinite DEF BudgetInv
<1> QED
    BY <1>1, <1>2 DEF BudgetInv

\* A request that arrives waits at an address that sent one more.
LEMMA ArrivalIsSent ==
    ASSUME RequestInv, BudgetInv, NEW r \in Request, NEW in, Arrivable(in), Arrive(r, in)
    PROVE  BudgetInv'
<1>1. UNCHANGED D /\ UNCHANGED windows
    BY DEF D, Arrive, layerVars
<1>2. /\ DOMAIN sent' = D.addresses
      /\ \A a \in D.addresses : sent'[a] = sent[a] + IF a \in {in.origin, in.via, in.platform} THEN 1 ELSE 0
    BY DEF Arrive, BudgetInv
<1>3. ASSUME NEW a \in D.addresses
      PROVE  sent'[a] \in Nat /\ SpentIn(windows, AddrKey(a)) + Cardinality(Waiting(a)') <= sent'[a]
    <2>1. SpentIn(windows, AddrKey(a)) \in Nat /\ sent[a] \in Nat
        BY DEF SpentIn, BudgetInv
    <2>2. Waiting(a)' \subseteq Waiting(a) \cup {r}
        BY ArriveTakesASlot DEF Waiting, RequestInv
    <2>3. CASE a \in {in.origin, in.via, in.platform}
        <3>1. Cardinality(Waiting(a) \cup {r}) <= Cardinality(Waiting(a)) + 1
              /\ Cardinality(Waiting(a) \cup {r}) \in Nat /\ IsFiniteSet(Waiting(a) \cup {r})
            <4> DEFINE W == Waiting(a)
            <4>1. IsFiniteSet(W) /\ Cardinality(W) \in Nat
                BY WaitingIsFinite
            <4> HIDE DEF W
            <4>2. /\ IsFiniteSet(W \cup {r})
                  /\ Cardinality(W \cup {r}) \in {Cardinality(W), Cardinality(W) + 1}
                BY <4>1, FS_AddElement
            <4>3. Cardinality(W \cup {r}) <= Cardinality(W) + 1 /\ Cardinality(W \cup {r}) \in Nat
                BY <4>1, <4>2
            <4> QED
                BY <4>2, <4>3 DEF W
        <3>2. Cardinality(Waiting(a)') <= Cardinality(Waiting(a) \cup {r}) /\ Cardinality(Waiting(a)') \in Nat
            BY <2>2, <3>1, FS_Subset, FS_CardinalityType
        <3>3. sent'[a] = sent[a] + 1
            BY <1>2, <2>3
        <3> QED
            BY <2>1, <3>1, <3>2, <3>3, WaitingIsFinite DEF BudgetInv
    <2>4. CASE a \notin {in.origin, in.via, in.platform}
        <3>1. Waiting(a)' \subseteq Waiting(a)
            <4>1. r \notin Waiting(a)'
                <5>1. SUFFICES ASSUME req'[r].pc = "throttle", req'[r].addr = a
                               PROVE  FALSE
                    BY DEF Waiting
                <5>2. req'[r] # NoRequest
                    BY <5>1 DEF NoRequest
                <5>3. a = rate_limit_key(audit_context(in))
                    BY <5>1, <5>2, ArriveTakesASlot
                <5>4. a = None
                    BY <2>4, <5>3 DEF Arrivable
                <5> QED
                    BY <5>4, IngressAssumption DEF RequestInv, D
            <4> QED
                BY <2>2, <4>1
        <3>2. Cardinality(Waiting(a)') <= Cardinality(Waiting(a)) /\ Cardinality(Waiting(a)') \in Nat
            BY <3>1, WaitingIsFinite, FS_Subset, FS_CardinalityType
        <3>3. sent'[a] = sent[a]
            BY <1>2, <2>1, <2>4
        <3> QED
            BY <2>1, <3>2, <3>3, WaitingIsFinite DEF BudgetInv
    <2> QED
        BY <2>3, <2>4
<1> QED
    BY <1>1, <1>2, <1>3 DEF BudgetInv

\* The throttle counts a request against the address it waited at.
LEMMA ThrottleCounts ==
    ASSUME RequestInv, BudgetInv, NEW r \in Request, Throttle(r)
    PROVE  BudgetInv'
<1>1. UNCHANGED D /\ UNCHANGED sent
    BY DEF D, Throttle, Same, historyVars
<1>2. /\ req[r].pc = "throttle" /\ req'[r].pc \in {"admit", "denied"}
      /\ \A q \in Request \ {r} : req'[q] = req[q]
    BY DEF Throttle, Advance, RequestInv, Fields
<1>3. \A a : Waiting(a)' = Waiting(a) \ {r}
    BY <1>2 DEF Waiting
<1>4. CASE UNCHANGED windows
    BY <1>1, <1>3, <1>4, BudgetsHold DEF Throttle, Same
<1>5. CASE windows' # windows
    <2>1. PICK a \in D.addresses : req[r].addr = a
        BY <1>5 DEF Throttle, RequestInv
    <2>2. PICK o \in window_check_at(windows, AddrKey(a), now, D.window, D.budgets, D.max_entries) :
              windows' = o.table
        BY <1>5, <2>1 DEF Throttle, AddrKey
    <2>3. /\ DOMAIN windows' \subseteq DOMAIN windows \cup {AddrKey(a)}
          /\ \A k \in DOMAIN windows' : windows'[k].consumed \in Nat
          /\ \A k : SpentIn(windows', k) \in Nat
          /\ SpentIn(windows', AddrKey(a)) <= SpentIn(windows, AddrKey(a)) + 1
          /\ \A k : k # AddrKey(a) => SpentIn(windows', k) <= SpentIn(windows, k)
        BY <2>2, WindowCounts DEF BudgetInv
    <2>4. \A k : SpentIn(windows, k) \in Nat
        BY DEF SpentIn, BudgetInv
    <2>5. ASSUME NEW b \in D.addresses
          PROVE  SpentIn(windows', AddrKey(b)) + Cardinality(Waiting(b)') <= sent[b]
        <3>1. CASE b = a
            <4>1. r \in Waiting(a)
                BY <1>2, <2>1 DEF Waiting
            <4>2. Cardinality(Waiting(a) \ {r}) = Cardinality(Waiting(a)) - 1
                BY <4>1, WaitingIsFinite, FS_RemoveElement
            <4>3. SpentIn(windows, AddrKey(a)) + Cardinality(Waiting(a)) <= sent[a] /\ sent[a] \in Nat
                BY DEF BudgetInv
            <4> QED
                BY <1>3, <2>3, <2>4, <3>1, <4>2, <4>3, WaitingIsFinite
        <3>2. CASE b # a
            <4>1. SpentIn(windows', AddrKey(b)) <= SpentIn(windows, AddrKey(b))
                BY <2>3, <3>2 DEF AddrKey
            <4>2. Waiting(b)' \subseteq Waiting(b)
                BY <1>3
            <4>3. Cardinality(Waiting(b)') <= Cardinality(Waiting(b)) /\ Cardinality(Waiting(b)') \in Nat
                BY <4>2, WaitingIsFinite, FS_Subset, FS_CardinalityType
            <4>4. SpentIn(windows, AddrKey(b)) + Cardinality(Waiting(b)) <= sent[b] /\ sent[b] \in Nat
                BY DEF BudgetInv
            <4> QED
                BY <2>3, <2>4, <4>1, <4>3, <4>4, WaitingIsFinite
        <3> QED
            BY <3>1, <3>2
    <2>6. AddrKey(a) \in {"ClientAddr", "ClientAddrFailure"} \X D.addresses
        BY DEF AddrKey
    <2> QED
        BY <1>1, <2>3, <2>5, <2>6 DEF BudgetInv
<1> QED
    BY <1>4, <1>5

\* The failure budget of a response is another than the one requests are counted in.
LEMMA FailureIsApart ==
    ASSUME RequestInv, BudgetInv, NEW r \in Request, Respond(r), windows' # windows,
           \A a : Waiting(a)' \subseteq Waiting(a)
    PROVE  BudgetInv'
<1>1. UNCHANGED D /\ UNCHANGED sent
    BY DEF D, Respond, Same, historyVars
<1>2. PICK key \in {"ClientAddrFailure"} \X D.addresses :
          \E o \in window_check_at(windows, key, now, D.window, D.budgets, D.max_entries) :
              windows' = o.table
    <2>1. PICK a \in D.addresses : req[r].addr = a
        BY DEF Respond, RequestInv
    <2> QED
        BY <2>1 DEF Respond
<1>3. PICK o \in window_check_at(windows, key, now, D.window, D.budgets, D.max_entries) : windows' = o.table
    BY <1>2
<1>4. /\ DOMAIN windows' \subseteq DOMAIN windows \cup {key}
      /\ \A k \in DOMAIN windows' : windows'[k].consumed \in Nat
      /\ \A k : SpentIn(windows', k) \in Nat
      /\ \A k : k # key => SpentIn(windows', k) <= SpentIn(windows, k)
    BY <1>3, WindowCounts DEF BudgetInv
<1>5. \A k : SpentIn(windows, k) \in Nat
    BY DEF SpentIn, BudgetInv
<1>6. ASSUME NEW b \in D.addresses
      PROVE  SpentIn(windows', AddrKey(b)) + Cardinality(Waiting(b)') <= sent[b]
    <2>1. SpentIn(windows', AddrKey(b)) <= SpentIn(windows, AddrKey(b))
        <3>1. AddrKey(b) # key
            BY DEF AddrKey
        <3> QED
            BY <1>4, <3>1
    <2>2. Cardinality(Waiting(b)') <= Cardinality(Waiting(b)) /\ Cardinality(Waiting(b)') \in Nat
        BY WaitingIsFinite, FS_Subset, FS_CardinalityType
    <2>3. SpentIn(windows, AddrKey(b)) + Cardinality(Waiting(b)) <= sent[b] /\ sent[b] \in Nat
        BY DEF BudgetInv
    <2> QED
        BY <1>4, <1>5, <2>1, <2>2, <2>3, WaitingIsFinite
<1> QED
    BY <1>1, <1>4, <1>6 DEF BudgetInv

LEMMA BudgetStep ==
    ASSUME RequestInv, BudgetInv, [Next]_vars
    PROVE  BudgetInv'
<1>1. CASE Arrival
    <2>0. PICK r \in Request : \E in : Arrivable(in) /\ Arrive(r, in)
        BY <1>1, Arrivals
    <2>1. PICK in : Arrivable(in) /\ Arrive(r, in)
        BY <2>0
    <2> QED
        BY <2>1, ArrivalIsSent
<1>2. CASE \E r \in Request : Step(r)
    <2>1. PICK r \in Request : Step(r)
        BY <1>2
    <2>2. \A a : Waiting(a)' \subseteq Waiting(a)
        BY <2>1, StepMoves DEF Moves, Flow, Waiting, RequestInv, NoRequest
    <2>3. CASE Throttle(r)
        BY <2>3, ThrottleCounts
    <2>4. CASE UNCHANGED windows
        BY <2>1, <2>2, <2>4, StepFrame, BudgetsHold
    <2>5. CASE Respond(r) /\ windows' # windows
        BY <2>2, <2>5, FailureIsApart
    <2> QED
        BY <2>1, <2>3, <2>4, <2>5, StepFrame
<1>3. CASE ~Arrival /\ \A r \in Request : ~Step(r)
    <2>1. UNCHANGED <<deployment, req, windows, sent>>
        BY <1>3, OtherFrame
    <2> QED
        BY <2>1, BudgetsHold DEF Waiting
<1> QED
    BY <1>1, <1>2, <1>3

\* What is counted against an address came from it or through it, whatever its
\* clients write into their headers.
THEOREM IngressBudgetIsSpentByItsOwner == IngressSpec => []BudgetIsSpentByItsOwner
<1>1. Init => BudgetInv
    <2> SUFFICES ASSUME Init
                 PROVE  BudgetInv
        OBVIOUS
    <2>1. \A a : Waiting(a) = {}
        BY DEF Init, Waiting, NoRequest
    <2>2. \A a : Cardinality(Waiting(a)) = 0
        BY <2>1, FS_EmptySet
    <2>3. \A k : SpentIn(windows, k) = 0
        BY DEF Init, SpentIn
    <2> QED
        BY <2>2, <2>3 DEF Init, BudgetInv
<1>2. RequestInv /\ BudgetInv /\ [Next]_vars => BudgetInv'
    BY BudgetStep
<1>3. BudgetInv => BudgetIsSpentByItsOwner
    <2> SUFFICES ASSUME BudgetInv, NEW k \in DOMAIN windows, k[1] = "ClientAddr"
                 PROVE  windows[k].consumed <= sent[k[2]]
        BY DEF BudgetIsSpentByItsOwner
    <2>1. k = AddrKey(k[2]) /\ k[2] \in D.addresses
        BY DEF BudgetInv, AddrKey
    <2>2. SpentIn(windows, AddrKey(k[2])) + Cardinality(Waiting(k[2])) <= sent[k[2]] /\ sent[k[2]] \in Nat
        BY <2>1 DEF BudgetInv
    <2>3. SpentIn(windows, AddrKey(k[2])) = windows[k].consumed /\ windows[k].consumed \in Nat
        BY <2>1 DEF SpentIn, BudgetInv
    <2> QED
        BY <2>2, <2>3, WaitingIsFinite
<1> QED
    BY <1>1, <1>2, <1>3, IngressHeldInvariant, PTL DEF IngressSpec, HeldInv

-----------------------------------------------------------------------------
(* The tokens of the two listeners. *)

\* Each token handed out or about to be is for the API's audience; the form of a
\* request is not of the service's making unless it is one of these or an
\* operator's; what passes as an operator's is for the operators' audience.
PlaneInv ==
    /\ \A t \in issued : Claim(t, "aud") = {D.audience}
    /\ \A r \in Request : req[r].token # None => Claim(req[r].token, "aud") = {D.audience}
    /\ \A r \in Request :
           req[r].pc # "idle" /\ split_jws_segments(req[r].in.form) =>
               \/ req[r].in.form.sig.by # D.keys.material
               \/ req[r].in.form \in issued \cup OperatorTokens
    /\ \A r \in Request : req[r].pc = "revoke" => req[r].in.form \in issued
    /\ \A r \in Request :
           req[r].pc \in {"operate", "record", "notify"} /\ req[r].answer = "OperatorToken" =>
               /\ D.token_audience \in Claim(req[r].in.bearer, "aud")
               /\ D.token_audience # D.audience

\* Whatever claims a user carries, the token is for the API's audience.
LEMMA MintedForTheApi ==
    ASSUME NEW k, NEW cfg, NEW user, NEW family, NEW at
    PROVE  Claim(build_access_token(k, cfg, user, family, at), "aud") = {cfg.audience}
<1> DEFINE custom == resolve_custom_claims(cfg.templates, user)
           registered == [sub |-> user.id, iss |-> cfg.issuer, aud |-> {cfg.audience}, sid |-> family,
                          iat |-> at, exp |-> at + cfg.ttl]
<1>1. "aud" \notin DOMAIN custom
    BY DEF resolve_custom_claims, is_reserved_claim, RESERVED_CLAIMS
<1>2. build_access_token(k, cfg, user, family, at).claims =
          [n \in DOMAIN custom \cup DOMAIN registered |->
               IF n \in DOMAIN custom THEN custom[n] ELSE registered[n]]
    BY DEF build_access_token
<1>3. "aud" \in DOMAIN registered /\ registered["aud"] = {cfg.audience}
    OBVIOUS
<1> HIDE DEF custom, registered
<1> QED
    BY <1>1, <1>2, <1>3 DEF Claim

\* A principal of the token mechanism showed a token for the operators' audience.
LEMMA OperatorsAudience ==
    ASSUME NEW k, NEW public_key_, NEW cfg, NEW in, NEW at, NEW leeway, NEW max_ttl,
           cfg.methods \in Seq({"shared_secret", "operator_token", "mtls"}),
           GateAnswer(k, public_key_, cfg, in, at, leeway, max_ttl).mechanism = "OperatorToken"
    PROVE  "operator_token" \in Range(cfg.methods) /\ cfg.token_audience \in Claim(in.bearer, "aud")
<1> DEFINE answer(m) == CASE m = "shared_secret" -> SharedSecret(cfg, in)
                          [] m = "operator_token" -> OperatorToken(k, public_key_, cfg, in, at, leeway, max_ttl)
                          [] m = "mtls" -> MtlsSubject(in)
           first == SelectInSeq(cfg.methods, LAMBDA m : answer(m) = "principal")
           I == {i \in 1..Len(cfg.methods) : answer(cfg.methods[i]) = "principal"}
<1>1. first # 0 /\ PrincipalOf(cfg.methods[first], in).mechanism = "OperatorToken"
    BY DEF GateAnswer, Principal
<1>2. first = IF I # {} THEN Min(I) ELSE 0
    BY DEF SelectInSeq
<1> HIDE DEF first
<1>3. first \in I
    <2>1. Len(cfg.methods) \in Nat /\ I \in SUBSET (1..Len(cfg.methods))
        BY LenProperties
    <2> HIDE DEF I
    <2> QED
        BY <1>1, <1>2, <2>1, FirstPosition
<1>4. /\ cfg.methods[first] \in {"shared_secret", "operator_token", "mtls"}
      /\ cfg.methods[first] \in Range(cfg.methods)
      /\ answer(cfg.methods[first]) = "principal"
    BY <1>3, LenProperties, ElementOfSeq DEF Range
<1>5. cfg.methods[first] = "operator_token"
    BY <1>1, <1>4 DEF PrincipalOf, Principal
<1>6. OperatorToken(k, public_key_, cfg, in, at, leeway, max_ttl) = "principal"
    BY <1>4, <1>5
<1>7. AudienceMatches(cfg, in.bearer)
    BY <1>6 DEF OperatorToken
<1> QED
    BY <1>4, <1>5, <1>7 DEF AudienceMatches

\* A valid access token was made with the service's key for the API's audience.
LEMMA ValidIsOwn ==
    ASSUME NEW k, NEW public_key_, NEW cfg, NEW token, NEW at, NEW skew,
           validate_access_token(k, public_key_, cfg, token, at, skew)
    PROVE  /\ split_jws_segments(token)
           /\ token.sig.by = k.material
           /\ Claim(token, "aud") = {cfg.audience}
BY DEF validate_access_token, verify, local_verify, verify_locally, check_claims

\* A request keeps its form and its bearer from step to step; what it may reach by
\* one that was judged is decided there.
LEMMA PlaneKept ==
    ASSUME RequestInv, PlaneInv, NEW r \in Request, Moves(r), UNCHANGED deployment,
           issued \subseteq issued', \A t \in issued' : Claim(t, "aud") = {D.audience},
           req'[r].pc = "revoke" => req[r].in.form \in issued,
           req'[r].pc = "operate" /\ req'[r].answer = "OperatorToken" =>
               /\ D.token_audience \in Claim(req[r].in.bearer, "aud")
               /\ D.token_audience # D.audience
    PROVE  PlaneInv'
<1>1. UNCHANGED D
    BY DEF D
<1>2. \A q \in Request \ {r} : req'[q] = req[q]
    BY DEF Moves, RequestInv
<1>3. CASE req'[r] = NoRequest
    BY <1>1, <1>2, <1>3 DEF PlaneInv, NoRequest
<1>4. CASE /\ req'[r].in = req[r].in
           /\ <<req[r].pc, req'[r].pc>> \in Flow
           /\ req'[r].token \in {req[r].token, build_access_token(D.keys, D, User, "family", now)}
           /\ req'[r].pc \in {"record", "notify"} => req'[r].answer = req[r].answer
    <2>1. req[r].pc # "idle"
        BY <1>4 DEF Flow
    <2>2. req'[r].token # None => Claim(req'[r].token, "aud") = {D.audience}
        BY <1>4, MintedForTheApi DEF PlaneInv
    <2>3. split_jws_segments(req[r].in.form) =>
              req[r].in.form.sig.by # D.keys.material \/ req[r].in.form \in issued \cup OperatorTokens
        BY <2>1 DEF PlaneInv
    <2>4. req'[r].pc \in {"record", "notify"} => req[r].pc \in {"operate", "record", "notify"}
        BY <1>4 DEF Flow
    <2>5. req'[r].pc \in {"operate", "record", "notify"} /\ req'[r].answer = "OperatorToken" =>
              /\ D.token_audience \in Claim(req[r].in.bearer, "aud")
              /\ D.token_audience # D.audience
        BY <1>4, <2>4 DEF PlaneInv
    <2> QED
        BY <1>1, <1>2, <1>4, <2>2, <2>3, <2>5 DEF PlaneInv
<1> QED
    BY <1>3, <1>4 DEF Moves

\* A request that arrives has reached nothing yet; its form is one that may arrive.
LEMMA ArrivalReachesNothing ==
    ASSUME RequestInv, PlaneInv, NEW r \in Request, NEW in, Arrivable(in), Arrive(r, in)
    PROVE  PlaneInv'
<1>1. UNCHANGED <<D, issued>>
    BY DEF Arrive, D
<1>2. CASE UNCHANGED req
    BY <1>1, <1>2 DEF PlaneInv
<1>3. CASE /\ req' = [req EXCEPT ![r] = req'[r]]
           /\ req'[r].in = in
           /\ req'[r].pc \in {"check", "throttle", "health"}
           /\ req'[r].token = None
    <2>1. \A q \in Request \ {r} : req'[q] = req[q]
        BY <1>3 DEF RequestInv
    <2>2. split_jws_segments(in.form) =>
              in.form.sig.by # D.keys.material \/ in.form \in issued \cup OperatorTokens
        BY DEF Arrivable
    <2> QED
        BY <1>1, <1>3, <2>1, <2>2 DEF PlaneInv
<1> QED
    BY <1>2, <1>3, ArriveTakesASlot

\* What the revocation handler takes for an access token was handed out.
LEMMA RevokesAnIssuedToken ==
    ASSUME RequestInv, PlaneInv, NEW r \in Request, HandleRevoke(r), req'[r].pc = "revoke"
    PROVE  req[r].in.form \in issued
<1>1. PICK p : validate_access_token(D.keys, p, D, req[r].in.form, now, D.leeway)
    BY DEF HandleRevoke, Terminal, RequestInv, Fields
<1>2. /\ split_jws_segments(req[r].in.form)
      /\ req[r].in.form.sig.by = D.keys.material
      /\ Claim(req[r].in.form, "aud") = {D.audience}
    BY <1>1, ValidIsOwn
<1>3. req[r].pc # "idle"
    BY DEF HandleRevoke
<1>4. req[r].in.form \notin OperatorTokens
    BY <1>2, IngressAssumption DEF RequestInv, D
<1> QED
    BY <1>2, <1>3, <1>4 DEF PlaneInv

\* Who operates by a token showed one for the operators' audience, not the API's.
LEMMA OperatesByAnOperatorsToken ==
    ASSUME RequestInv, NEW r \in Request, Authenticate(r),
           req'[r].pc = "operate", req'[r].answer = "OperatorToken"
    PROVE  /\ D.token_audience \in Claim(req[r].in.bearer, "aud")
           /\ D.token_audience # D.audience
<1>1. PICK p : GateAnswer(D.keys, p, D, req[r].in, now, D.leeway, D.max_operator_ttl).mechanism = "OperatorToken"
    BY DEF Authenticate, Advance, RequestInv, Fields
<1>2. /\ D.methods \in Seq({"shared_secret", "operator_token", "mtls"})
      /\ "operator_token" \in Range(D.methods) => D.token_audience # D.audience
    BY IngressAssumption DEF RequestInv, D, Accepted
<1> QED
    BY <1>1, <1>2, OperatorsAudience

\* Only the revocation handler leads to a revocation.
LEMMA BecomesRevoke ==
    ASSUME RequestInv, NEW r \in Request, Step(r), req'[r].pc = "revoke"
    PROVE  HandleRevoke(r)
<1> USE DEF RequestInv, Fields, Advance, Ends, Answer, Terminal, NoRequest
<1>1. Moves(r)
    BY StepMoves
<1>2. req[r].pc = "handle"
    BY <1>1 DEF Moves, Flow
<1>3. ~HandleToken(r)
    <2>1. HandleToken(r) => \/ \E e : Answer(r, e) \/ Terminal(r, e)
                            \/ Advance(r, "assertion") \/ Advance(r, "code")
        BY DEF HandleToken
    <2> QED
        BY <2>1
<1>4. ~HandleOther(r) /\ ~Drop(r)
    BY DEF HandleOther, Drop
<1> QED
    BY <1>2, <1>3, <1>4 DEF Step, Throttle, Deny, Admit, Respond, ExchangeCode, LookUpKey, Validate, KeyNotFound,
        Mint, Record, RevokeFamily, CheckLockout, Authenticate, RecordRefusal, Operate, RecordMutation, Notify

\* Only the gate leads to an operator's call.
LEMMA BecomesOperate ==
    ASSUME RequestInv, NEW r \in Request, Step(r), req'[r].pc = "operate"
    PROVE  Authenticate(r)
<1>1. Moves(r)
    BY StepMoves
<1>2. req[r].pc = "authenticate"
    BY <1>1 DEF Moves, Flow, NoRequest
<1>3. ~Drop(r)
    BY DEF Drop, Ends, NoRequest, RequestInv, Fields
<1> QED
    BY <1>2, <1>3 DEF Step, Throttle, Deny, Admit, Respond, HandleToken, ExchangeCode, LookUpKey, Validate,
        KeyNotFound, Mint, Record, HandleRevoke, RevokeFamily, HandleOther, CheckLockout, RecordRefusal,
        Operate, RecordMutation, Notify

LEMMA PlaneStep ==
    ASSUME RequestInv, PlaneInv, [Next]_vars
    PROVE  PlaneInv'
<1>1. CASE Arrival
    <2>0. PICK r \in Request : \E in : Arrivable(in) /\ Arrive(r, in)
        BY <1>1, Arrivals
    <2>1. PICK in : Arrivable(in) /\ Arrive(r, in)
        BY <2>0
    <2> QED
        BY <2>1, ArrivalReachesNothing
<1>2. CASE \E r \in Request : Step(r)
    <2>1. PICK r \in Request : Step(r)
        BY <1>2
    <2>2. Moves(r) /\ UNCHANGED deployment
        BY <2>1, StepMoves, StepFrame
    <2>3. issued \subseteq issued' /\ \A t \in issued' : Claim(t, "aud") = {D.audience}
        <3>1. CASE UNCHANGED issued
            BY <3>1 DEF PlaneInv
        <3>2. CASE Record(r)
            <4>1. issued' \in {issued, issued \cup ({req[r].token} \ {None})}
                BY <3>2 DEF Record
            <4> QED
                BY <4>1 DEF PlaneInv
        <3> QED
            BY <2>1, <3>1, <3>2, StepFrame
    <2>4. req'[r].pc = "revoke" => req[r].in.form \in issued
        <3> SUFFICES ASSUME req'[r].pc = "revoke"
                     PROVE  req[r].in.form \in issued
            OBVIOUS
        <3>1. HandleRevoke(r)
            BY <2>1, BecomesRevoke
        <3> QED
            BY <3>1, RevokesAnIssuedToken
    <2>5. req'[r].pc = "operate" /\ req'[r].answer = "OperatorToken" =>
              /\ D.token_audience \in Claim(req[r].in.bearer, "aud")
              /\ D.token_audience # D.audience
        <3> SUFFICES ASSUME req'[r].pc = "operate", req'[r].answer = "OperatorToken"
                     PROVE  /\ D.token_audience \in Claim(req[r].in.bearer, "aud")
                            /\ D.token_audience # D.audience
            OBVIOUS
        <3>1. Authenticate(r)
            BY <2>1, BecomesOperate
        <3> QED
            BY <3>1, OperatesByAnOperatorsToken
    <2> QED
        BY <2>2, <2>3, <2>4, <2>5, PlaneKept
<1>3. CASE ~Arrival /\ \A r \in Request : ~Step(r)
    BY <1>3, OtherFrame DEF PlaneInv, D
<1> QED
    BY <1>1, <1>2, <1>3

\* Tokens do not cross the listeners, though one key signs them all.
THEOREM IngressTokensKeepTheirPlane == IngressSpec => []TokensKeepTheirPlane
<1>1. Init => PlaneInv
    BY DEF Init, PlaneInv, NoRequest
<1>2. RequestInv /\ PlaneInv /\ [Next]_vars => PlaneInv'
    BY PlaneStep
<1>3. PlaneInv => TokensKeepTheirPlane
    BY DEF PlaneInv, TokensKeepTheirPlane
<1> QED
    BY <1>1, <1>2, <1>3, IngressHeldInvariant, PTL DEF IngressSpec, HeldInv

-----------------------------------------------------------------------------
(* The boot: the tree the server runs with. *)

\* What the sources hold until they are merged.
SourcesFit(src) ==
    /\ DOMAIN src.file = DOMAIN Defaults
    /\ DOMAIN src.env \subseteq DOMAIN Defaults
    /\ ListsMethods(src.file.internal_api)
    /\ "internal_api" \in DOMAIN src.env => ListsMethods(src.env.internal_api)

\* The sections of a merge are those of the tree below.
LEMMA Merged ==
    ASSUME NEW below, NEW above
    PROVE  /\ DOMAIN merge_raw_defaults(below, above) = DOMAIN below
           /\ \A sec \in DOMAIN below \ DOMAIN above : merge_raw_defaults(below, above)[sec] = below[sec]
           /\ \A sec \in DOMAIN below \cap DOMAIN above :
                  merge_raw_defaults(below, above)[sec] = overlaid(above[sec], below[sec])
BY DEF merge_raw_defaults

\* A leaf of the merged tree holds free text, or is what the environment wrote, or what
\* the file wrote, or the default.
LEMMA Layered ==
    ASSUME NEW src, SourcesFit(src)
    PROVE  /\ DOMAIN resolve_builder(src) = DOMAIN Defaults
           /\ \A sec \in DOMAIN src.env : \A k \in DOMAIN src.env[sec] :
                  /\ k \in DOMAIN resolve_builder(src)[sec]
                  /\ <<sec, k>> \notin TextLeaves => resolve_builder(src)[sec][k] = src.env[sec][k]
           /\ \A sec \in DOMAIN Defaults : \A k \in DOMAIN src.file[sec] :
                  /\ k \in DOMAIN resolve_builder(src)[sec]
                  /\ \/ <<sec, k>> \in TextLeaves
                     \/ sec \in DOMAIN src.env /\ k \in DOMAIN src.env[sec]
                     \/ resolve_builder(src)[sec][k] = src.file[sec][k]
           /\ \A sec \in DOMAIN Defaults : \A k \in DOMAIN Defaults[sec] :
                  /\ k \in DOMAIN resolve_builder(src)[sec]
                  /\ \/ sec \in DOMAIN src.env /\ k \in DOMAIN src.env[sec]
                     \/ k \in DOMAIN src.file[sec]
                     \/ resolve_builder(src)[sec][k] = Defaults[sec][k]
<1> DEFINE m == merged(src)
           e == resolve_placeholders(m)
           raw == resolve_builder(src)
<1>1. /\ DOMAIN m = DOMAIN Defaults
      /\ \A sec \in DOMAIN src.env : m[sec] = overlaid(src.env[sec], src.file[sec])
      /\ \A sec \in DOMAIN Defaults \ DOMAIN src.env : m[sec] = src.file[sec]
    BY Merged DEF merged, SourcesFit
<1>2. /\ DOMAIN e = DOMAIN m
      /\ \A sec \in DOMAIN m : /\ DOMAIN e[sec] = DOMAIN m[sec]
                               /\ \A k \in DOMAIN m[sec] :
                                      <<sec, k>> \notin TextLeaves => e[sec][k] = m[sec][k]
    BY DEF resolve_placeholders
<1>3. /\ DOMAIN raw = DOMAIN Defaults
      /\ \A sec \in DOMAIN Defaults : raw[sec] = overlaid(e[sec], Defaults[sec])
    BY <1>1, <1>2, Merged DEF resolve_builder
<1> HIDE DEF m, e, raw
<1>4. DOMAIN src.env \subseteq DOMAIN Defaults
    BY DEF SourcesFit
<1>5. ASSUME NEW sec \in DOMAIN Defaults
      PROVE  /\ DOMAIN raw[sec] = DOMAIN m[sec] \cup DOMAIN Defaults[sec]
             /\ \A k \in DOMAIN m[sec] : <<sec, k>> \notin TextLeaves => raw[sec][k] = m[sec][k]
             /\ \A k \in DOMAIN Defaults[sec] \ DOMAIN m[sec] : raw[sec][k] = Defaults[sec][k]
    <2>1. /\ raw[sec] = overlaid(e[sec], Defaults[sec])
          /\ DOMAIN e[sec] = DOMAIN m[sec]
          /\ \A k \in DOMAIN m[sec] : <<sec, k>> \notin TextLeaves => e[sec][k] = m[sec][k]
        BY <1>1, <1>2, <1>3
    <2> QED
        BY <2>1 DEF overlaid
<1>7. ASSUME NEW sec \in DOMAIN src.env
      PROVE  /\ DOMAIN m[sec] = DOMAIN src.env[sec] \cup DOMAIN src.file[sec]
             /\ \A k \in DOMAIN src.env[sec] : m[sec][k] = src.env[sec][k]
             /\ \A k \in DOMAIN src.file[sec] \ DOMAIN src.env[sec] : m[sec][k] = src.file[sec][k]
    <2>1. m[sec] = overlaid(src.env[sec], src.file[sec])
        BY <1>1
    <2> QED
        BY <2>1 DEF overlaid
<1>8. \A sec \in DOMAIN src.env : \A k \in DOMAIN src.env[sec] :
          /\ k \in DOMAIN raw[sec]
          /\ <<sec, k>> \notin TextLeaves => raw[sec][k] = src.env[sec][k]
    BY <1>4, <1>5, <1>7
<1>9. ASSUME NEW sec \in DOMAIN Defaults, NEW k \in DOMAIN src.file[sec]
      PROVE  /\ k \in DOMAIN raw[sec]
             /\ \/ <<sec, k>> \in TextLeaves
                \/ sec \in DOMAIN src.env /\ k \in DOMAIN src.env[sec]
                \/ raw[sec][k] = src.file[sec][k]
    <2>1. CASE sec \in DOMAIN src.env
        BY <1>5, <1>7, <2>1
    <2>2. CASE sec \notin DOMAIN src.env
        BY <1>1, <1>5, <2>2
    <2> QED
        BY <2>1, <2>2
<1>10. ASSUME NEW sec \in DOMAIN Defaults, NEW k \in DOMAIN Defaults[sec]
       PROVE  /\ k \in DOMAIN raw[sec]
              /\ \/ sec \in DOMAIN src.env /\ k \in DOMAIN src.env[sec]
                 \/ k \in DOMAIN src.file[sec]
                 \/ raw[sec][k] = Defaults[sec][k]
    <2>1. CASE sec \in DOMAIN src.env
        BY <1>5, <1>7, <2>1
    <2>2. CASE sec \notin DOMAIN src.env
        BY <1>1, <1>5, <2>2
    <2> QED
        BY <2>1, <2>2
<1> QED
    BY <1>3, <1>8, <1>9, <1>10 DEF raw

\* A free text that was accepted is no placeholder any more.
LEMMA NoPlaceholderIsLeft ==
    ASSUME NEW text, Expands(text)
    PROVE  resolve_placeholders_in_str(text) \notin {"${UNSET}", "${EMPTY}"}
<1>1. CASE text \in {"${UNSET}", "${EMPTY}"}
    <2>1. PICK name \in {"UNSET", "EMPTY"} : scan_placeholder_name(text) = <<name>>
        BY <1>1 DEF scan_placeholder_name, PlaceholderOf, Some
    <2>2. name \in DOMAIN SetVars \ EmptyVars
        BY <2>1 DEF Expands, Range1
    <2> QED
        BY <1>1, <2>2, ConfigAssumption
<1>2. CASE text \notin {"${UNSET}", "${EMPTY}"}
    BY <1>2, ConfigAssumption DEF resolve_placeholders_in_str
<1> QED
    BY <1>1, <1>2

\* The three free texts of the tree.
LEMMA TextsAreExpanded ==
    ASSUME NEW src, SourcesFit(src), LoadAccepts(src), NEW leaf \in TextLeaves
    PROVE  resolve_builder(src)[leaf[1]][leaf[2]] \notin {"${UNSET}", "${EMPTY}"}
<1> DEFINE m == merged(src)
           e == resolve_placeholders(m)
<1>0. PICK sec \in DOMAIN Defaults : \E k \in DOMAIN Defaults[sec] :
          leaf = <<sec, k>> /\ Defaults[sec][k] \notin {"${UNSET}", "${EMPTY}"}
    <2>1. CASE leaf = <<"internal_api", "shared_secret">>
        <3>1. "internal_api" \in DOMAIN Defaults /\ Defaults["internal_api"] = InternalApiDefaults
            BY DEF Defaults
        <3>2. "shared_secret" \in DOMAIN InternalApiDefaults /\ InternalApiDefaults["shared_secret"] = "absent"
            BY DEF InternalApiDefaults
        <3> QED
            BY <2>1, <3>1, <3>2
    <2>2. CASE leaf = <<"token", "audience">>
        <3>1. "token" \in DOMAIN Defaults /\ Defaults["token"] = TokenDefaults
            BY DEF Defaults
        <3>2. "audience" \in DOMAIN TokenDefaults /\ TokenDefaults["audience"] = "api"
            BY DEF TokenDefaults
        <3> QED
            BY <2>2, <3>1, <3>2
    <2>3. CASE leaf = <<"user_sync", "webhook_secret">>
        <3>1. "user_sync" \in DOMAIN Defaults /\ Defaults["user_sync"] = UserSyncDefaults
            BY DEF Defaults
        <3>2. "webhook_secret" \in DOMAIN UserSyncDefaults /\ UserSyncDefaults["webhook_secret"] = ""
            BY DEF UserSyncDefaults
        <3> QED
            BY <2>3, <3>1, <3>2
    <2> QED
        BY <2>1, <2>2, <2>3 DEF TextLeaves
<1>1. PICK k \in DOMAIN Defaults[sec] :
          leaf = <<sec, k>> /\ Defaults[sec][k] \notin {"${UNSET}", "${EMPTY}"}
    BY <1>0
<1>2. DOMAIN m = DOMAIN Defaults
    BY Merged DEF merged, SourcesFit
<1>3. /\ DOMAIN e = DOMAIN Defaults /\ DOMAIN e[sec] = DOMAIN m[sec]
      /\ k \in DOMAIN m[sec] => e[sec][k] = resolve_placeholders_in_str(m[sec][k])
    BY <1>1, <1>2 DEF resolve_placeholders
<1>4. resolve_builder(src)[sec] = overlaid(e[sec], Defaults[sec])
    BY <1>3 DEF resolve_builder, merge_raw_defaults
<1>5. k \in DOMAIN m[sec] => Expands(m[sec][k])
    <2>1. leaf[1] = sec /\ leaf[2] = k /\ PlaceholdersResolve(m)
        BY <1>1 DEF LoadAccepts
    <2> HIDE DEF m
    <2> QED
        BY <1>2, <2>1 DEF PlaceholdersResolve
<1> HIDE DEF m, e
<1>6. CASE k \in DOMAIN m[sec]
    <2>1. resolve_builder(src)[sec][k] = resolve_placeholders_in_str(m[sec][k])
        BY <1>3, <1>4, <1>6 DEF overlaid
    <2> QED
        BY <1>1, <1>5, <1>6, <2>1, NoPlaceholderIsLeft
<1>7. CASE k \notin DOMAIN m[sec]
    <2>1. resolve_builder(src)[sec][k] = Defaults[sec][k]
        BY <1>3, <1>4, <1>7 DEF overlaid
    <2> QED
        BY <1>1, <2>1
<1> QED
    BY <1>6, <1>7

\* Of the merged tree the resolver rewrites two leaves of the server's section.
LEMMA ResolvedKeeps ==
    ASSUME NEW raw, DOMAIN raw = DOMAIN Defaults
    PROVE  /\ \A sec \in DOMAIN Defaults \ {"server"} : Resolved(raw)[sec] = raw[sec]
           /\ \A k \in DOMAIN raw["server"] \ {"role", "base_path"} :
                  Resolved(raw)["server"][k] = raw["server"][k]
<1>1. "server" \in DOMAIN Defaults
    BY DEF Defaults
<1>2. /\ \A sec \in DOMAIN Defaults \ {"server"} : Resolved(raw)[sec] = raw[sec]
      /\ Resolved(raw)["server"] = ResolvedServer(raw["server"])
    BY <1>1 DEF Resolved
<1> QED
    BY <1>2 DEF ResolvedServer

\* An accepted duration is as long as it was written.
LEMMA AcceptedDurations ==
    ASSUME NEW raw, DOMAIN raw = DOMAIN Defaults, SectionsResolve(raw),
           NEW dur \in Durations(Resolved(raw))
    PROVE  parse_duration_secs(dur) = dur.n * SecondsPer[dur.unit]
<1>1. {"token", "grants", "internal_api", "session_repository"} \subseteq DOMAIN Defaults \ {"server"}
    BY DEF Defaults
<1>2. /\ Resolved(raw).token = raw.token /\ Resolved(raw).grants = raw.grants
      /\ Resolved(raw).internal_api = raw.internal_api
      /\ Resolved(raw).session_repository = raw.session_repository
    BY <1>1, ResolvedKeeps
<1>3. dur \in {raw.token.access_token_ttl, raw.token.refresh_token_ttl, raw.token.refresh_reuse_retention,
               raw.grants.nonce_ttl, raw.internal_api.auth_lockout, raw.session_repository.cleanup_interval}
    BY <1>2 DEF Durations
<1>4. parse_duration_field(dur) \/ parse_positive_duration_field(dur)
    BY <1>3 DEF SectionsResolve, TokenResolves, GrantsResolves, InternalApiResolves, SessionRepositoryResolves
<1>5. parse_duration_secs(dur) # Invalid
    BY <1>4 DEF parse_duration_field, parse_positive_duration_field, Invalid
<1> QED
    BY <1>5 DEF parse_duration_secs

-----------------------------------------------------------------------------
(* The boot: what the process holds at each stage. *)

Booting == {"loaded", "hosting", "built", "routed", "serving"}

\* An embedding host spawns its reaper before it builds its router, a binary after.
HasPlanes == stage \in {"routed", "serving"} \/ (stage = "hosting" /\ entry # "ffi")

\* The settings, the service and the planes were built from one another.
BootInv ==
    /\ stage = "start" => SourcesFit(sources)
    /\ stage \in Booting => validate(conf) /\ conf.internal_api.auth_methods \in Seq(STRING)
    /\ stage \in Booting \ {"loaded"} => service = Service(conf)
    /\ HasPlanes =>
           /\ planes \in {PlanesOf(conf), single_plane(PlanesOf(conf))}
           /\ internal_api_served(conf) => GateBuilds(conf)

\* The methods of the gate that was resolved are a list, wherever they were written.
LEMMA MethodsAreListed ==
    ASSUME NEW src, SourcesFit(src)
    PROVE  Resolved(resolve_builder(src)).internal_api.auth_methods \in Seq(STRING)
<1> DEFINE raw == resolve_builder(src)
           api == "internal_api"
           k == "auth_methods"
<1>1. /\ api \in DOMAIN Defaults \ {"server"} /\ Defaults[api] = InternalApiDefaults
      /\ k \in DOMAIN InternalApiDefaults /\ InternalApiDefaults[k] = << >>
    BY DEF Defaults, InternalApiDefaults
<1>2. DOMAIN raw = DOMAIN Defaults
    BY Layered
<1>3. Resolved(raw)[api] = raw[api]
    BY <1>1, <1>2, ResolvedKeeps
<1>4. <<api, k>> \notin TextLeaves
    BY DEF TextLeaves
<1>5. raw[api][k] \in Seq(STRING)
    <2>1. CASE api \in DOMAIN src.env /\ k \in DOMAIN src.env[api]
        <3>1. raw[api][k] = src.env[api][k]
            BY <1>4, <2>1, Layered
        <3> QED
            BY <2>1, <3>1 DEF SourcesFit, ListsMethods
    <2>2. CASE ~(api \in DOMAIN src.env /\ k \in DOMAIN src.env[api]) /\ k \in DOMAIN src.file[api]
        <3>1. raw[api][k] = src.file[api][k]
            BY <1>1, <1>4, <2>2, Layered
        <3> QED
            BY <2>2, <3>1 DEF SourcesFit, ListsMethods
    <2>3. CASE ~(api \in DOMAIN src.env /\ k \in DOMAIN src.env[api]) /\ k \notin DOMAIN src.file[api]
        <3>1. raw[api][k] = << >>
            BY <1>1, <2>3, Layered
        <3> QED
            BY <3>1
    <2> QED
        BY <2>1, <2>2, <2>3
<1> QED
    BY <1>3, <1>5

LEMMA BootInitFits == ASSUME BootInit PROVE BootInv
<1>1. PICK d \in Configurations, s1 \in DOMAIN Alternatives, s2 \in DOMAIN Alternatives :
          \E k1 \in DOMAIN Alternatives[s1], k2 \in DOMAIN Alternatives[s2] :
          \E v1 \in Alternatives[s1][k1], v2 \in Alternatives[s2][k2] :
              sources = [file |-> [d EXCEPT ![s1] = overlaid([l \in {k1} |-> v1], d[s1])],
                         env  |-> Leaf(s2, k2, v2)]
    BY DEF BootInit
<1>2. PICK k1 \in DOMAIN Alternatives[s1], k2 \in DOMAIN Alternatives[s2] :
          \E v1 \in Alternatives[s1][k1], v2 \in Alternatives[s2][k2] :
              sources = [file |-> [d EXCEPT ![s1] = overlaid([l \in {k1} |-> v1], d[s1])],
                         env  |-> Leaf(s2, k2, v2)]
    BY <1>1
<1>3. PICK v1 \in Alternatives[s1][k1], v2 \in Alternatives[s2][k2] :
          sources = [file |-> [d EXCEPT ![s1] = overlaid([l \in {k1} |-> v1], d[s1])],
                     env  |-> Leaf(s2, k2, v2)]
    BY <1>2
<1> DEFINE api == "internal_api"
           k == "auth_methods"
<1>4. /\ DOMAIN d = DOMAIN Defaults /\ s1 \in DOMAIN Defaults /\ s2 \in DOMAIN Defaults
      /\ k \in DOMAIN d[api] => d[api][k] \in Seq(STRING)
    BY BootAssumption DEF ListsMethods
<1>5. ASSUME s1 = api, k1 = k
      PROVE  v1 \in Seq(STRING)
    BY <1>5, BootAssumption
<1>6. ASSUME s2 = api, k2 = k
      PROVE  v2 \in Seq(STRING)
    BY <1>6, BootAssumption
<1>7. /\ DOMAIN sources.file = DOMAIN Defaults
      /\ sources.file[api] = d[api] \/ (s1 = api /\ sources.file[api] = overlaid([l \in {k1} |-> v1], d[api]))
    <2>1. api \in DOMAIN d
        BY <1>4 DEF Defaults
    <2>2. sources.file = [d EXCEPT ![s1] = overlaid([l \in {k1} |-> v1], d[s1])]
        BY <1>3
    <2> QED
        BY <1>4, <2>1, <2>2
<1>8. ListsMethods(sources.file[api])
    <2>1. CASE sources.file[api] = d[api]
        BY <1>4, <2>1 DEF ListsMethods
    <2>2. CASE s1 = api /\ sources.file[api] = overlaid([l \in {k1} |-> v1], d[api])
        BY <1>4, <1>5, <2>2 DEF ListsMethods, overlaid
    <2> QED
        BY <1>7, <2>1, <2>2
<1>9. DOMAIN sources.env = {s2} /\ DOMAIN sources.env[s2] = {k2} /\ sources.env[s2][k2] = v2
    BY <1>3 DEF Leaf
<1>10. SourcesFit(sources)
    BY <1>4, <1>6, <1>7, <1>8, <1>9 DEF SourcesFit, ListsMethods
<1> QED
    BY <1>10 DEF BootInit, BootInv, Booting, HasPlanes

\* A process that has ended or is refused needs nothing.
LEMMA EndFits == ASSUME stage' \in Over PROVE BootInv'
BY DEF Over, BootInv, Booting, HasPlanes

LEMMA BootStep == ASSUME BootInv, [BootNext]_bootVars PROVE BootInv'
<1> DEFINE Held == UNCHANGED <<entry, sources, stage, conf, service, planes>>
<1>1. CASE load_config
    <2>1. CASE LoadAccepts(sources)
        <3>1. conf' = Resolved(resolve_builder(sources)) /\ stage' = "loaded"
            BY <1>1, <2>1 DEF load_config
        <3>2. SourcesFit(sources)
            BY <1>1 DEF load_config, BootInv
        <3>3. validate(conf')
            BY <2>1, <3>1 DEF LoadAccepts, Resolves
        <3>4. conf'.internal_api.auth_methods \in Seq(STRING)
            BY <3>1, <3>2, MethodsAreListed
        <3> QED
            BY <3>1, <3>3, <3>4 DEF BootInv, Booting, HasPlanes
    <2>2. CASE ~LoadAccepts(sources)
        BY <1>1, <2>2, EndFits DEF load_config, Refuse, Over
    <2> QED
        BY <2>1, <2>2
<1>2. CASE run_config_command
    BY <1>2, EndFits DEF run_config_command, Refuse, Over
<1>3. CASE build_service
    <2>1. CASE Refuse("refused")
        BY <2>1, EndFits DEF Refuse, Over
    <2>2. CASE /\ service' = Service(conf)
               /\ stage' = IF entry = "ffi" THEN "hosting" ELSE "built"
               /\ UNCHANGED <<entry, conf>>
        BY <1>3, <2>2 DEF build_service, BootInv, Booting, HasPlanes
    <2> QED
        BY <1>3, <2>1, <2>2 DEF build_service
<1>4. CASE build_routers
    <2>1. CASE Refuse("refused") \/ Refuse("panicked")
        BY <2>1, EndFits DEF Refuse, Over
    <2>2. CASE /\ internal_api_served(conf) => GateBuilds(conf)
               /\ planes' \in {PlanesOf(conf), single_plane(PlanesOf(conf))}
               /\ stage' \in {"serving", "routed"}
               /\ UNCHANGED <<entry, conf, service>>
        BY <1>4, <2>2 DEF build_routers, BootInv, Booting, HasPlanes
    <2> QED
        BY <1>4, <2>1, <2>2 DEF build_routers
<1>5. CASE bind_listeners
    BY <1>5, EndFits DEF bind_listeners, Refuse, Over, BootInv, Booting, HasPlanes
<1>6. CASE spawn_session_reaper
    BY <1>6, EndFits DEF spawn_session_reaper, Refuse, Over, BootInv, Booting, HasPlanes
<1>7. CASE run_with_drain_deadline \/ drop_host
    BY <1>7, EndFits DEF run_with_drain_deadline, drop_host, Stop, Over
<1>8. CASE (\E r \in Call : accept(r) \/ respond(r)) \/ shutdown_signal \/ DrainTick \/ reaper_loop \/ reap_once
           \/ Ended \/ UNCHANGED bootVars
    <2>1. Held
        BY <1>8 DEF accept, respond, shutdown_signal, DrainTick, reaper_loop, reap_once, ReaperStep, Ended, bootVars
    <2> QED
        BY <2>1 DEF BootInv, HasPlanes
<1> QED
    BY <1>1, <1>2, <1>3, <1>4, <1>5, <1>6, <1>7, <1>8 DEF BootNext

\* Whatever the process serves was built from settings that were validated.
THEOREM BootInvariant == BootSpec => []BootInv
<1>1. BootInit => BootInv
    BY BootInitFits
<1>2. BootInv /\ [BootNext]_bootVars => BootInv'
    BY BootStep
<1> QED
    BY <1>1, <1>2, PTL DEF BootSpec

\* A process with one entry binds nothing, any other every plane it serves.
BoundInv ==
    /\ stage \in Booting => entry \in {"main", "ffi"}
    /\ stage = "routed" => ~SinglePlane
    /\ SinglePlane => bound = {}
    /\ HasPlanes /\ stage # "routed" /\ ~SinglePlane => bound = {Address(conf, p) : p \in DOMAIN planes}

LEMMA BoundStep == ASSUME BoundInv, [BootNext]_bootVars PROVE BoundInv'
<1>0. UNCHANGED <<entry, lambda>> /\ (SinglePlane' <=> SinglePlane)
    BY DEF BootNext, load_config, run_config_command, build_service, build_routers, bind_listeners, Refuse,
           spawn_session_reaper, accept, respond, shutdown_signal, DrainTick, run_with_drain_deadline, drop_host,
           reaper_loop, reap_once, ReaperStep, Stop, Ended, bootVars, SinglePlane
<1>1. CASE stage' \in Over /\ bound' \in {bound, {}}
    BY <1>0, <1>1 DEF BoundInv, Over, Booting, HasPlanes
<1>2. CASE load_config /\ stage' \notin Over
    BY <1>0, <1>2 DEF load_config, Refuse, Over, BoundInv, Booting, HasPlanes
<1>3. CASE build_service /\ stage' \notin Over
    BY <1>0, <1>3 DEF build_service, Refuse, Over, BoundInv, Booting, HasPlanes, SinglePlane
<1>4. CASE build_routers /\ stage' \notin Over
    BY <1>0, <1>4 DEF build_routers, Refuse, Over, BoundInv, Booting, HasPlanes
<1>5. CASE bind_listeners /\ stage' \notin Over
    BY <1>0, <1>5 DEF bind_listeners, Refuse, Over, BoundInv, Booting, HasPlanes
<1>6. CASE spawn_session_reaper /\ stage' \notin Over
    BY <1>0, <1>6 DEF spawn_session_reaper, Refuse, Over, BoundInv, Booting, HasPlanes, SinglePlane
<1>7. CASE UNCHANGED <<stage, conf, planes, bound>>
    BY <1>0, <1>7 DEF BoundInv, HasPlanes
<1>8. stage' \in Over => bound' \in {bound, {}}
    BY DEF BootNext, load_config, run_config_command, build_service, build_routers, bind_listeners, Refuse, Over,
           spawn_session_reaper, accept, respond, shutdown_signal, DrainTick, run_with_drain_deadline, drop_host,
           reaper_loop, reap_once, ReaperStep, Stop, Ended, bootVars
<1>9. \/ load_config \/ run_config_command \/ build_service \/ build_routers \/ bind_listeners
      \/ spawn_session_reaper \/ run_with_drain_deadline \/ drop_host \/ UNCHANGED <<stage, conf, planes, bound>>
    BY DEF BootNext, accept, respond, shutdown_signal, DrainTick, reaper_loop, reap_once, ReaperStep, Ended, bootVars
<1>10. run_config_command \/ run_with_drain_deadline \/ drop_host => stage' \in Over
    BY DEF run_config_command, run_with_drain_deadline, drop_host, Refuse, Stop, Over
<1> QED
    BY <1>1, <1>2, <1>3, <1>4, <1>5, <1>6, <1>7, <1>8, <1>9, <1>10

LEMMA BoundInvariant == BootSpec => []BoundInv
<1>1. BootInit => BoundInv
    BY DEF BootInit, BoundInv, Booting, HasPlanes
<1>2. BoundInv /\ [BootNext]_bootVars => BoundInv'
    BY BoundStep
<1> QED
    BY <1>1, <1>2, PTL DEF BootSpec

\* Wherever /internal is mounted it is apart from the exchange and behind a gate that was
\* validated, whichever settings the sources hold; and it is known where its failures
\* count towards a lockout.
THEOREM BootInternalApiIsGuarded == BootSpec => []InternalApiIsGuarded
<1>1. BootInv /\ BoundInv => InternalApiIsGuarded
    <2> SUFFICES ASSUME BootInv, BoundInv, stage = "serving",
                        NEW p \in DOMAIN planes, "/internal" \in planes[p].routes
                 PROVE  LET gate == planes[p].gate
                        IN  /\ "/token" \notin planes[p].routes
                            /\ gate # {} /\ gate \subseteq OperatorMechanisms
                            /\ "shared_secret" \in gate =>
                                  SecretBytes[conf.internal_api.shared_secret] >= MIN_SHARED_SECRET_BYTES
                            /\ "operator_token" \in gate =>
                                  /\ service.keys \in {"local", "kms"}
                                  /\ conf.internal_api.token_audience # conf.token.audience
                            /\ lockout_is_active(p) <=> entry = "main" /\ ~lambda
        BY DEF InternalApiIsGuarded
    <2> DEFINE api == conf.internal_api
    <2>1. /\ validate(conf) /\ api.auth_methods \in Seq(STRING)
          /\ service = Service(conf)
          /\ planes \in {PlanesOf(conf), single_plane(PlanesOf(conf))}
          /\ internal_api_served(conf) => GateBuilds(conf)
        BY DEF BootInv, Booting, HasPlanes
    <2>2. planes[p] = build_admin_router(conf) /\ conf.server.role \in {"admin", "all"}
        <3>1. p \in DOMAIN PlanesOf(conf) /\ planes[p] = PlanesOf(conf)[p]
            BY <2>1 DEF single_plane
        <3>2. \/ p = "public" /\ planes[p] = build_public_router(conf)
              \/ /\ p = "admin" /\ planes[p] = build_admin_router(conf)
                 /\ conf.server.role \in {"admin", "all"}
            BY <3>1 DEF PlanesOf
        <3>3. "/internal" \notin build_public_router(conf).routes
            BY DEF build_public_router, exchange_routes
        <3> QED
            BY <3>2, <3>3
    <2>3. internal_api_served(conf)
        BY <2>2 DEF build_admin_router, internal_api_served
    <2>4. validate_internal_api(conf) /\ GateBuilds(conf)
        BY <2>1, <2>3 DEF validate
    <2>5. /\ planes[p].gate = {api.auth_methods[i] : i \in DOMAIN api.auth_methods}
          /\ "/token" \notin planes[p].routes
        BY <2>2, <2>3 DEF build_admin_router, build_operator_auth_gate
    <2>6. planes[p].gate # {}
        <3>1. api.auth_methods # << >>
            BY <2>4 DEF validate_internal_api
        <3>2. 1 \in DOMAIN api.auth_methods
            BY <2>1, <3>1
        <3> QED
            BY <2>5, <3>2
    <2>7. planes[p].gate \subseteq OperatorMechanisms
        BY <2>4, <2>5 DEF GateBuilds
    <2>8. ASSUME "shared_secret" \in planes[p].gate
          PROVE  SecretBytes[api.shared_secret] >= MIN_SHARED_SECRET_BYTES
        <3>1. Uses(conf, "shared_secret")
            BY <2>5, <2>8 DEF Uses
        <3> QED
            BY <2>4, <3>1 DEF validate_internal_api
    <2>9. ASSUME "operator_token" \in planes[p].gate
          PROVE  service.keys \in {"local", "kms"} /\ api.token_audience # conf.token.audience
        <3>1. Uses(conf, "operator_token")
            BY <2>5, <2>9 DEF Uses
        <3>2. conf.key_manager.adapter \in {"local", "kms"} /\ conf.token.audience # api.token_audience
            BY <2>4, <3>1 DEF validate_internal_api
        <3>3. service.keys = conf.key_manager.adapter
            BY <2>1, <3>1 DEF Service, NeedsKeys
        <3> QED
            BY <3>2, <3>3
    <2>10. lockout_is_active(p) <=> entry = "main" /\ ~lambda
        <3>1. service.admin_limiter = "lockout"
            BY <2>1, <2>3 DEF Service
        <3> QED
            BY <3>1 DEF BoundInv, Booting, HasPlanes, SinglePlane, lockout_is_active
    <2> QED
        BY <2>5, <2>6, <2>7, <2>8, <2>9, <2>10
<1> QED
    BY <1>1, BootInvariant, BoundInvariant, PTL

\* The server runs with what its operator wrote.
THEOREM BootTopmostWins == BootSpec => TopmostWins
<1> DEFINE Live ==
        (conf = NoTree /\ conf' # NoTree) =>
          /\ \A sec \in DOMAIN sources.env : \A k \in DOMAIN sources.env[sec] :
                <<sec, k>> \in Rewritten \/ conf'[sec][k] = sources.env[sec][k]
          /\ \A sec \in DOMAIN sources.file : \A k \in DOMAIN sources.file[sec] :
                \/ <<sec, k>> \in Rewritten
                \/ sec \in DOMAIN sources.env /\ k \in DOMAIN sources.env[sec]
                \/ conf'[sec][k] = sources.file[sec][k]
          /\ \A leaf \in TextLeaves : conf'[leaf[1]][leaf[2]] \notin {"${UNSET}", "${EMPTY}"}
          /\ \A dur \in Durations(conf') :
                parse_duration_secs(dur) = dur.n * SecondsPer[dur.unit]
<1>1. BootInv /\ [BootNext]_bootVars => [Live]_bootVars
    <2> SUFFICES ASSUME BootInv, BootNext, conf = NoTree, conf' # NoTree
                 PROVE  Live
        OBVIOUS
    <2>1. load_config /\ LoadAccepts(sources)
        BY DEF BootNext, load_config, run_config_command, build_service, build_routers, bind_listeners,
            spawn_session_reaper, accept, respond, shutdown_signal, DrainTick, run_with_drain_deadline, drop_host,
            reaper_loop, reap_once, ReaperStep, Stop, Refuse, Ended, bootVars
    <2> DEFINE raw == resolve_builder(sources)
    <2>2. SourcesFit(sources) /\ conf' = Resolved(raw) /\ SectionsResolve(raw)
        BY <2>1 DEF load_config, BootInv, LoadAccepts, Resolves
    <2>3. DOMAIN raw = DOMAIN Defaults
        BY <2>2, Layered
    <2>4. \A sec \in DOMAIN Defaults : \A k \in DOMAIN raw[sec] :
              <<sec, k>> \in Rewritten \/ conf'[sec][k] = raw[sec][k]
        <3> SUFFICES ASSUME NEW sec \in DOMAIN Defaults, NEW k \in DOMAIN raw[sec],
                            <<sec, k>> \notin Rewritten
                     PROVE  conf'[sec][k] = raw[sec][k]
            OBVIOUS
        <3>1. sec # "server" \/ k \notin {"role", "base_path"}
            BY DEF Rewritten
        <3> QED
            BY <2>2, <2>3, <3>1, ResolvedKeeps
    <2>5. TextLeaves \subseteq Rewritten
        BY DEF Rewritten
    <2>6. ASSUME NEW sec \in DOMAIN sources.env, NEW k \in DOMAIN sources.env[sec]
          PROVE  <<sec, k>> \in Rewritten \/ conf'[sec][k] = sources.env[sec][k]
        BY <2>2, <2>4, <2>5, Layered DEF SourcesFit
    <2>7. ASSUME NEW sec \in DOMAIN sources.file, NEW k \in DOMAIN sources.file[sec]
          PROVE  \/ <<sec, k>> \in Rewritten
                 \/ sec \in DOMAIN sources.env /\ k \in DOMAIN sources.env[sec]
                 \/ conf'[sec][k] = sources.file[sec][k]
        BY <2>2, <2>4, <2>5, Layered DEF SourcesFit
    <2>8. ASSUME NEW leaf \in TextLeaves
          PROVE  conf'[leaf[1]][leaf[2]] \notin {"${UNSET}", "${EMPTY}"}
        <3>1. leaf[1] \in DOMAIN Defaults \ {"server"}
            BY DEF TextLeaves, Defaults
        <3>2. conf'[leaf[1]] = raw[leaf[1]]
            BY <2>2, <2>3, <3>1, ResolvedKeeps
        <3> QED
            BY <2>1, <2>2, <3>2, TextsAreExpanded
    <2>9. ASSUME NEW dur \in Durations(conf')
          PROVE  parse_duration_secs(dur) = dur.n * SecondsPer[dur.unit]
        BY <2>2, <2>3, <2>9, AcceptedDurations
    <2> QED
        BY <2>6, <2>7, <2>8, <2>9
<1> QED
    BY <1>1, BootInvariant, PTL DEF BootSpec, TopmostWins

=============================================================================
