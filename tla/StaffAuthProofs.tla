-------------------------- MODULE StaffAuthProofs --------------------------
(***************************************************************************)
(* Proofs about StaffAuth: for any keys, calls, people, mappings, times    *)
(* and interleaving, a withdrawn key dies in time, a new one is honoured   *)
(* in time, and an admitted role is the mapping's.                         *)
(*                                                                         *)
(* The inductive invariant relates what is cached to what was published:   *)
(* a fetch sees the keys of a moment between its start and its end, and    *)
(* only the call at the head of the queue fetches.                         *)
(***************************************************************************)
EXTENDS StaffAuth, TLAPS

Role == {mapping[p] : mapping \in Mappings, p \in Person} \cup {NoRole}
Token == [kid : Key \cup {OtherKey}, person : {NoToken} \cup Person, mapped : Role, role : Role]
Fetching == {"fetching", "returning"}
Request == [pc : {"idle", "queued"} \cup Fetching, token : {NoToken} \cup Token,
            retried : BOOLEAN, forced : BOOLEAN, since : Nat, response : {NoCerts} \cup SUBSET Key]

\* A token is the one of another issuer, or says what the mapping said.
Genuine(token) == token = OtherToken \/ (token \in Token /\ token.role = token.mapped)

TypeOK ==
  /\ clock \in 0..MaxClock
  /\ keys \in [Key -> [since : Nat, until : Nat]]
  /\ deadline \in Nat /\ forced_ok_after \in Nat
  /\ certs = NoCerts \/ certs \subseteq Key
  /\ queue \in Seq(Call)
  /\ calls \in [Call -> Request]

\* Tokens and what remains of them.
TokensInv ==
  /\ persistent \in [Person -> {NoRole}]
  /\ tokens \in [Person -> {NoToken} \cup Token]
  /\ \A p \in Person : tokens[p] = NoToken \/ Genuine(tokens[p])
  /\ \A c \in Call : calls[c].pc # "idle" => Genuine(calls[c].token)

\* Deadlines are in reach of the clock.
DeadlinesInv == deadline <= clock + CertsTtl /\ forced_ok_after <= clock + Cooldown

\* What is cached was published, and outlives its withdrawal by the TTL and a
\* fetch; what is published and not cached will be asked for soon.
CachedInv ==
  /\ certs = NoCerts => forced_ok_after = 0
  /\ certs # NoCerts =>
       /\ \A k \in certs : keys[k].since <= clock /\ deadline <= keys[k].until + CertsTtl + FetchTime
       /\ \A k \in Key \ certs : keys[k].until = Never =>
            forced_ok_after <= keys[k].since + Cooldown + FetchTime

\* One fetch at a time, and none longer than its timeout.
FetchOf(c) ==
  calls[c].pc \in Fetching => /\ queue # <<>> /\ c = Head(queue)
                              /\ calls[c].since <= clock /\ clock <= calls[c].since + FetchTime
FetchInv == \A c \in Call : FetchOf(c)

\* A response on its way holds the keys of a moment of the fetch.
ResponseOf(c) ==
  calls[c].pc = "returning" =>
    /\ calls[c].response \in SUBSET Key
    /\ \A k \in calls[c].response : keys[k].since <= clock /\ calls[c].since <= keys[k].until
    /\ \A k \in Key \ calls[c].response : keys[k].until = Never => calls[c].since <= keys[k].since
    /\ certs # NoCerts => \A k \in certs : keys[k].until = Never => k \in calls[c].response
ResponseInv == \A c \in Call : ResponseOf(c)

AnswerInv == WithdrawnKeyDies /\ NewKeyIsHonoured /\ RoleIsTheMappings

IInv == /\ TypeOK /\ TokensInv /\ DeadlinesInv /\ CachedInv /\ FetchInv /\ ResponseInv
        /\ AnswerInv

-----------------------------------------------------------------------------
\* No answer claims nothing.
LEMMA NoAnswerHolds ==
  ASSUME answer' = NoAnswer
  PROVE  AnswerInv'
BY DEF AnswerInv, WithdrawnKeyDies, NewKeyIsHonoured, RoleIsTheMappings, Admitted, NoAnswer

\* Nor does an answer given before, or without, a look at the keys.
LEMMA RefusalHolds ==
  ASSUME answer'.code # 200, answer'.reason # "unknown_key"
  PROVE  AnswerInv'
BY DEF AnswerInv, WithdrawnKeyDies, NewKeyIsHonoured, RoleIsTheMappings, Admitted

\* An answer given with certificates that are recent enough is right.
LEMMA ProceedHolds ==
  ASSUME TypeOK, NEW c \in Call, NEW known, known \subseteq Key, Genuine(calls[c].token),
         Proceed(c, known), UNCHANGED <<clock, keys>>,
         \A k \in known : clock <= keys[k].until + CertsTtl + FetchTime,
         calls[c].retried => \A k \in Key \ known : keys[k].until = Never =>
           clock < keys[k].since + Cooldown + FetchTime
  PROVE  AnswerInv'
<1> DEFINE token == calls[c].token
<1>1. CASE token.kid \notin known /\ ~calls[c].retried
  BY <1>1, NoAnswerHolds DEF Proceed
<1>2. CASE ~(token.kid \notin known /\ ~calls[c].retried)
  <2>1. PICK in_date \in BOOLEAN : Answered(c, AnswerTo(token, known, in_date))
    BY <1>2 DEF Proceed
  <2> DEFINE verdict == AnswerTo(token, known, in_date)
  <2>2. answer' = [code |-> verdict.code, reason |-> verdict.reason, token |-> token]
    BY <2>1 DEF Answered
  <2>3. CASE token.kid \notin known
    <3>1. verdict = Refused(401, "unknown_key")
      BY <2>3 DEF AnswerTo
    <3>2. answer'.code = 401 /\ answer'.token = token
      BY <2>2, <3>1 DEF Refused
    <3>3. NewKeyIsHonoured'
      BY <1>2, <2>3, <3>2 DEF NewKeyIsHonoured
    <3> QED BY <3>2, <3>3 DEF AnswerInv, WithdrawnKeyDies, RoleIsTheMappings, Admitted
  <2>4. CASE token.kid \in known
    <3>1. verdict.reason # "unknown_key"
      BY <2>4 DEF AnswerTo, Refused
    <3>2. CASE verdict.code = 200
      <4>1. /\ token.person \in InDomain /\ token.role \in ManagerRoles
        BY <2>4, <3>2 DEF AnswerTo, Refused
      <4>2. token # OtherToken
        BY <2>4, AuthAssumption DEF OtherToken
      <4>3. token.role = token.mapped
        BY <4>2 DEF Genuine
      <4> QED
        BY <2>2, <2>4, <3>1, <4>1, <4>3
           DEF AnswerInv, WithdrawnKeyDies, NewKeyIsHonoured, RoleIsTheMappings, Admitted
    <3>3. CASE verdict.code # 200
      BY <2>2, <3>1, <3>3, RefusalHolds
    <3> QED BY <3>2, <3>3
  <2> QED BY <2>3, <2>4
<1> QED BY <1>1, <1>2

\* The first state.
LEMMA InitHolds == Init => IInv
<1> SUFFICES ASSUME Init PROVE IInv
  OBVIOUS
<1> USE AuthAssumption
<1>1. TypeOK
  BY DEF Init, TypeOK, NoCall, Handling, Request, Never, Fetching
<1>2. TokensInv
  BY DEF Init, TokensInv, NoCall, Handling
<1>3. DeadlinesInv /\ CachedInv /\ FetchInv /\ ResponseInv
  BY DEF Init, DeadlinesInv, CachedInv, FetchInv, FetchOf, ResponseInv, ResponseOf, NoCall, Handling, Fetching
<1>4. AnswerInv
  BY DEF Init, AnswerInv, WithdrawnKeyDies, NewKeyIsHonoured, RoleIsTheMappings, Admitted, NoAnswer
<1> QED BY <1>1, <1>2, <1>3, <1>4 DEF IInv

\* Steps of the platform.
LEMMA PublishKeeps == IInv /\ Publish => IInv'
<1> SUFFICES ASSUME IInv, Publish PROVE IInv'
  OBVIOUS
<1> USE AuthAssumption DEF IInv
<1>1. PICK k \in Key : keys[k].since = Never /\ keys' = [keys EXCEPT ![k].since = clock]
  BY DEF Publish
<1>2. UNCHANGED <<clock, persistent, tokens, installed, certs, deadline, forced_ok_after, queue, calls>>
  BY DEF Publish, cache
<1>3. TypeOK'
  BY <1>1, <1>2 DEF TypeOK
<1>4. TokensInv' /\ DeadlinesInv' /\ FetchInv'
  BY <1>2 DEF TokensInv, DeadlinesInv, FetchInv, FetchOf
<1>5. \A l \in Key : /\ keys'[l].until = keys[l].until
                     /\ keys'[l].since = IF l = k THEN clock ELSE keys[l].since
  BY <1>1 DEF TypeOK
<1>6. CachedInv'
  <2>1. ASSUME certs # NoCerts, NEW l \in certs
        PROVE  keys'[l].since <= clock /\ deadline <= keys'[l].until + CertsTtl + FetchTime
    BY <1>1, <1>2, <1>5, <2>1 DEF CachedInv, TypeOK, DeadlinesInv, Never
  <2>2. ASSUME certs # NoCerts, NEW l \in Key \ certs, keys'[l].until = Never
        PROVE  forced_ok_after <= keys'[l].since + Cooldown + FetchTime
    BY <1>1, <1>2, <1>5, <2>2 DEF CachedInv, TypeOK, DeadlinesInv, Never
  <2> QED BY <1>2, <2>1, <2>2 DEF CachedInv, Never
<1>7. ASSUME NEW c \in Call PROVE ResponseOf(c)'
  <2>1. ResponseOf(c) /\ FetchOf(c)
    BY DEF ResponseInv, FetchInv
  <2> QED BY <1>1, <1>2, <1>5, <2>1 DEF ResponseOf, FetchOf, Fetching, TypeOK, Never
<1>8. AnswerInv'
  BY NoAnswerHolds DEF Publish
<1> QED BY <1>3, <1>4, <1>6, <1>7, <1>8 DEF ResponseInv

LEMMA WithdrawKeeps == IInv /\ Withdraw => IInv'
<1> SUFFICES ASSUME IInv, Withdraw PROVE IInv'
  OBVIOUS
<1> USE AuthAssumption DEF IInv
<1>1. PICK k \in Key : Published(k) /\ keys' = [keys EXCEPT ![k].until = clock]
  BY DEF Withdraw
<1>2. UNCHANGED <<clock, persistent, tokens, installed, certs, deadline, forced_ok_after, queue, calls>>
  BY DEF Withdraw, cache
<1>3. TypeOK'
  BY <1>1, <1>2 DEF TypeOK
<1>4. TokensInv' /\ DeadlinesInv' /\ FetchInv'
  BY <1>2 DEF TokensInv, DeadlinesInv, FetchInv, FetchOf
<1>5. \A l \in Key : /\ keys'[l].since = keys[l].since
                     /\ keys'[l].until = IF l = k THEN clock ELSE keys[l].until
  BY <1>1 DEF TypeOK
<1>6. clock # Never
  BY DEF TypeOK, Never
<1>7. CachedInv'
  <2>1. ASSUME certs # NoCerts, NEW l \in certs
        PROVE  keys'[l].since <= clock /\ deadline <= keys'[l].until + CertsTtl + FetchTime
    <3>1. /\ l \in Key /\ keys[l].since <= clock
          /\ deadline <= keys[l].until + CertsTtl + FetchTime
      BY <2>1 DEF CachedInv, TypeOK
    <3>2. CASE l = k
      BY <1>5, <3>1, <3>2 DEF DeadlinesInv, TypeOK
    <3>3. CASE l # k
      BY <1>5, <3>1, <3>3
    <3> QED BY <3>2, <3>3
  <2>2. ASSUME certs # NoCerts, NEW l \in Key \ certs, keys'[l].until = Never
        PROVE  forced_ok_after <= keys'[l].since + Cooldown + FetchTime
    BY <1>2, <1>5, <1>6, <2>2 DEF CachedInv, TypeOK, DeadlinesInv, Never
  <2> QED BY <1>2, <2>1, <2>2 DEF CachedInv, Never
<1>8. ASSUME NEW c \in Call PROVE ResponseOf(c)'
  <2>1. ResponseOf(c) /\ FetchOf(c)
    BY DEF ResponseInv, FetchInv
  <2> QED BY <1>2, <1>5, <1>6, <2>1 DEF ResponseOf, FetchOf, Fetching, TypeOK
<1>9. AnswerInv'
  BY NoAnswerHolds DEF Withdraw
<1> QED BY <1>3, <1>4, <1>7, <1>8, <1>9 DEF ResponseInv

LEMMA SignInKeeps == ASSUME NEW p \in Person, IInv, SignIn(p) PROVE IInv'
<1> USE DEF IInv
<1>1. PICK mapping \in Mappings, k \in Key :
        LET kept == IF tokens[p] = NoToken THEN before_created(p, mapping) ELSE persistent[p]
            session == decide(p, mapping).role
        IN  /\ tokens' = [tokens EXCEPT ![p] =
                 [kid |-> k, person |-> p, mapped |-> mapping[p],
                  role |-> IF session # NoRole THEN session ELSE kept]]
            /\ persistent' = [persistent EXCEPT ![p] = kept]
  BY DEF SignIn
<1>2. UNCHANGED <<clock, keys, installed, certs, deadline, forced_ok_after, queue, calls>>
  BY DEF SignIn, cache
<1>3. persistent[p] = NoRole
  BY DEF TokensInv
<1> DEFINE token == [kid |-> k, person |-> p, mapped |-> mapping[p], role |-> mapping[p]]
<1>4. tokens' = [tokens EXCEPT ![p] = token] /\ persistent' = [persistent EXCEPT ![p] = NoRole]
  BY <1>1, <1>3 DEF before_created, decide
<1>5. token \in Token /\ Genuine(token)
  BY DEF Token, Role, Genuine
<1> HIDE DEF token
<1>6. TokensInv'
  BY <1>2, <1>4, <1>5 DEF TokensInv
<1>7. TypeOK' /\ DeadlinesInv' /\ CachedInv' /\ FetchInv' /\ ResponseInv'
  BY <1>2 DEF TypeOK, DeadlinesInv, CachedInv, FetchInv, FetchOf, ResponseInv, ResponseOf
<1>8. AnswerInv'
  BY NoAnswerHolds DEF SignIn
<1> QED BY <1>6, <1>7, <1>8

\* A request comes in.
LEMMA ArriveKeeps == ASSUME NEW c \in Call, IInv, Arrive(c) PROVE IInv'
<1> USE DEF IInv
<1>1. calls[c].pc = "idle" /\ UNCHANGED <<clock, keys, persistent, tokens, certs, deadline, forced_ok_after>>
  BY DEF Arrive, platform, cache
<1>2. PICK token \in {tokens[p] : p \in Person} \cup {OtherToken} :
        \/ TurnedAway(token, 404, "dark") \/ TurnedAway(token, 401, "disabled")
        \/ TurnedAway(token, 401, "missing")
        \/ /\ token # NoToken /\ queue' = Append(queue, c) /\ answer' = NoAnswer
           /\ calls' = [calls EXCEPT ![c] = Handling("queued", token, FALSE)]
  BY DEF Arrive
<1>3. CASE \/ TurnedAway(token, 404, "dark") \/ TurnedAway(token, 401, "disabled")
           \/ TurnedAway(token, 401, "missing")
  <2>1. UNCHANGED <<queue, calls>> /\ answer'.code # 200 /\ answer'.reason # "unknown_key"
    BY <1>3 DEF TurnedAway
  <2>2. TypeOK' /\ TokensInv' /\ DeadlinesInv' /\ CachedInv' /\ FetchInv' /\ ResponseInv'
    BY <1>1, <2>1
       DEF TypeOK, TokensInv, DeadlinesInv, CachedInv, FetchInv, FetchOf, ResponseInv, ResponseOf
  <2> QED BY <2>1, <2>2, RefusalHolds
<1>4. CASE /\ token # NoToken /\ queue' = Append(queue, c) /\ answer' = NoAnswer
           /\ calls' = [calls EXCEPT ![c] = Handling("queued", token, FALSE)]
  <2>1. Genuine(token) /\ token \in {NoToken} \cup Token
    <3>1. OtherToken \in Token
      BY DEF OtherToken, Token, Role
    <3> QED BY <1>4, <3>1 DEF TokensInv, Genuine
  <2> DEFINE new == Handling("queued", token, FALSE)
  <2>2. new \in Request /\ new.pc = "queued" /\ new.token = token
    BY <2>1 DEF Handling, Request
  <2>8. calls' = [calls EXCEPT ![c] = new]
    BY <1>4
  <2> HIDE DEF new
  <2>3. \A d \in Call : calls'[d] = IF d = c THEN new ELSE calls[d]
    BY <2>8 DEF TypeOK
  <2>4. TypeOK'
    <3>1. queue' \in Seq(Call)
      BY <1>4 DEF TypeOK
    <3>2. calls' \in [Call -> Request]
      BY <2>2, <2>8 DEF TypeOK
    <3> QED BY <1>1, <3>1, <3>2 DEF TypeOK
  <2>5. TokensInv' /\ DeadlinesInv' /\ CachedInv'
    BY <1>1, <2>1, <2>2, <2>3 DEF TokensInv, DeadlinesInv, CachedInv
  <2>6. ASSUME NEW d \in Call PROVE FetchOf(d)'
    <3>1. CASE d = c
      BY <2>2, <2>3, <3>1 DEF FetchOf, Fetching
    <3>2. CASE d # c
      <4>1. FetchOf(d) /\ calls'[d] = calls[d]
        BY <2>3, <3>2 DEF FetchInv
      <4>2. queue # <<>> => queue' # <<>> /\ Head(queue') = Head(queue)
        BY <1>4 DEF TypeOK
      <4> QED BY <1>1, <4>1, <4>2 DEF FetchOf
    <3> QED BY <3>1, <3>2
  <2>7. ResponseInv'
    BY <1>1, <2>2, <2>3 DEF ResponseInv, ResponseOf
  <2> QED BY <1>4, <2>4, <2>5, <2>6, <2>7, NoAnswerHolds DEF FetchInv
<1> QED BY <1>2, <1>3, <1>4

-----------------------------------------------------------------------------
\* Where nobody fetches, fetches and responses are in order.
LEMMA NobodyFetches ==
  ASSUME \A d \in Call : calls'[d].pc \notin Fetching
  PROVE  FetchInv' /\ ResponseInv'
BY DEF FetchInv, FetchOf, ResponseInv, ResponseOf, Fetching

\* The call at the head of the queue is the only one that may be fetching.
LEMMA OnlyTheHeadFetches ==
  ASSUME FetchInv, NEW c \in Call, c = Head(queue), NEW d \in Call, d # c
  PROVE  calls[d].pc \notin Fetching
BY DEF FetchInv, FetchOf

\* A call that is done with its certificates leaves the head of the queue.
LEMMA ProceedLeaves ==
  ASSUME TypeOK, TokensInv, FetchInv, NEW c \in Call, queue # <<>>, c = Head(queue),
         calls[c].pc # "idle", NEW known, Proceed(c, known), UNCHANGED <<persistent, tokens>>
  PROVE  /\ queue' \in Seq(Call) /\ calls' \in [Call -> Request]
         /\ TokensInv' /\ FetchInv' /\ ResponseInv'
<1> DEFINE next == Handling("queued", calls[c].token, TRUE)
<1>1. /\ next \in Request /\ NoCall \in Request
      /\ next.pc = "queued" /\ next.token = calls[c].token /\ NoCall.pc = "idle"
  BY DEF TypeOK, Request, NoCall, Handling
<1>2. \/ queue' = Append(Tail(queue), c) /\ calls' = [calls EXCEPT ![c] = next]
      \/ queue' = Tail(queue) /\ calls' = [calls EXCEPT ![c] = NoCall]
  BY DEF Proceed, Answered
<1> HIDE DEF next
<1>3. queue' \in Seq(Call)
  <2>1. Tail(queue) \in Seq(Call)
    BY DEF TypeOK
  <2> QED BY <1>2, <2>1
<1>4. calls' \in [Call -> Request]
  BY <1>1, <1>2 DEF TypeOK
<1>5. \A d \in Call : d # c => calls'[d] = calls[d]
  BY <1>2 DEF TypeOK
<1>6. calls'[c] = next \/ calls'[c] = NoCall
  BY <1>2 DEF TypeOK
<1>7. TokensInv'
  BY <1>1, <1>5, <1>6 DEF TokensInv
<1>8. ASSUME NEW d \in Call PROVE calls'[d].pc \notin Fetching
  BY <1>1, <1>5, <1>6, OnlyTheHeadFetches DEF Fetching
<1> QED BY <1>3, <1>4, <1>7, <1>8, NobodyFetches

\* The request at the head of the queue finds its certificates cached.
LEMMA UseCacheKeeps == ASSUME NEW c \in Call, IInv, UseCache(c) PROVE IInv'
<1> USE AuthAssumption DEF IInv
<1>1. /\ queue # <<>> /\ c = Head(queue) /\ calls[c].pc = "queued" /\ ~Refetches(c)
      /\ Proceed(c, certs)
      /\ UNCHANGED <<clock, keys, persistent, tokens, certs, deadline, forced_ok_after>>
  BY DEF UseCache, Served, platform, cache
<1>2. TypeOK' /\ TokensInv' /\ FetchInv' /\ ResponseInv'
  BY <1>1, ProceedLeaves DEF TypeOK
<1>3. DeadlinesInv' /\ CachedInv'
  BY <1>1 DEF DeadlinesInv, CachedInv, Never
<1>4. AnswerInv'
  <2>1. /\ certs # NoCerts /\ clock < deadline
        /\ calls[c].retried => clock < forced_ok_after
    BY <1>1 DEF Refetches, AsksAgain, TypeOK
  <2>2. ASSUME NEW k \in certs
        PROVE  clock <= keys[k].until + CertsTtl + FetchTime
    BY <2>1 DEF CachedInv, TypeOK
  <2>3. ASSUME calls[c].retried, NEW k \in Key \ certs, keys[k].until = Never
        PROVE  clock < keys[k].since + Cooldown + FetchTime
    BY <2>1, <2>3 DEF CachedInv, TypeOK
  <2>4. certs \subseteq Key /\ Genuine(calls[c].token)
    BY <1>1, <2>1 DEF TypeOK, TokensInv
  <2> QED BY <1>1, <2>2, <2>3, <2>4, ProceedHolds
<1> QED BY <1>2, <1>3, <1>4

\* It asks the platform for them.
LEMMA StartFetchKeeps == ASSUME NEW c \in Call, IInv, StartFetch(c) PROVE IInv'
<1> USE AuthAssumption DEF IInv
<1>1. /\ queue # <<>> /\ c = Head(queue) /\ calls[c].pc = "queued"
      /\ UNCHANGED <<clock, keys, persistent, tokens, certs, deadline, forced_ok_after, queue>>
  BY DEF StartFetch, Served, platform, cache
<1> DEFINE next == [calls[c] EXCEPT !.pc = "fetching", !.forced = AsksAgain(c), !.since = clock]
<1>2. /\ calls' = [calls EXCEPT ![c] = next] /\ next \in Request
      /\ next.pc = "fetching" /\ next.since = clock /\ next.token = calls[c].token
  <2>1. AsksAgain(c) \in BOOLEAN /\ calls[c] \in Request /\ clock \in Nat
    BY DEF AsksAgain, TypeOK, Request
  <2>2. /\ next.pc = "fetching" /\ next.since = clock /\ next.token = calls[c].token
        /\ next \in Request
    BY <2>1 DEF Request, Fetching
  <2> QED BY <2>2 DEF StartFetch
<1> HIDE DEF next
<1>3. /\ calls' \in [Call -> Request] /\ calls'[c] = next
      /\ \A d \in Call : d # c => calls'[d] = calls[d] /\ calls[d].pc \notin Fetching
  BY <1>1, <1>2, OnlyTheHeadFetches DEF TypeOK
<1>4. TypeOK'
  BY <1>1, <1>3 DEF TypeOK
<1>5. TokensInv' /\ DeadlinesInv' /\ CachedInv'
  BY <1>1, <1>2, <1>3 DEF TokensInv, DeadlinesInv, CachedInv, Never
<1>6. FetchInv'
  BY <1>1, <1>2, <1>3 DEF FetchInv, FetchOf, TypeOK
<1>7. ResponseInv'
  BY <1>2, <1>3 DEF ResponseInv, ResponseOf, Fetching
<1>8. AnswerInv'
  BY NoAnswerHolds DEF StartFetch
<1> QED BY <1>4, <1>5, <1>6, <1>7, <1>8

\* The platform responds with the keys of this moment.
LEMMA PlatformRespondsKeeps == ASSUME NEW c \in Call, IInv, PlatformResponds(c) PROVE IInv'
<1> USE AuthAssumption DEF IInv
<1>1. /\ calls[c].pc = "fetching"
      /\ UNCHANGED <<clock, keys, persistent, tokens, certs, deadline, forced_ok_after, queue>>
  BY DEF PlatformResponds, platform, cache
<1> DEFINE now == {k \in Key : Published(k)}
<1> DEFINE next == [calls[c] EXCEPT !.pc = "returning", !.response = now]
<1>2. /\ calls' = [calls EXCEPT ![c] = next] /\ next \in Request
      /\ next.pc = "returning" /\ next.response = now
      /\ next.since = calls[c].since /\ next.token = calls[c].token
  BY DEF PlatformResponds, TypeOK, Request, Fetching
<1> HIDE DEF next
<1>3. /\ calls' \in [Call -> Request] /\ calls'[c] = next
      /\ \A d \in Call : d # c => calls'[d] = calls[d]
  BY <1>2 DEF TypeOK
<1>4. TypeOK'
  BY <1>1, <1>3 DEF TypeOK
<1>5. TokensInv' /\ DeadlinesInv' /\ CachedInv'
  BY <1>1, <1>2, <1>3 DEF TokensInv, DeadlinesInv, CachedInv, Never
<1>6. FetchInv'
  BY <1>1, <1>2, <1>3 DEF FetchInv, FetchOf, Fetching
<1>7. ASSUME NEW d \in Call PROVE ResponseOf(d)'
  <2>1. CASE d # c
    <3>1. ResponseOf(d)
      BY DEF ResponseInv
    <3> QED BY <1>1, <1>3, <2>1, <3>1 DEF ResponseOf, Never
  <2>2. CASE d = c
    <3>1. calls[c].since <= clock /\ calls[c].since \in Nat /\ clock \in 0..MaxClock
      BY <1>1 DEF FetchInv, FetchOf, Fetching, TypeOK, Request
    <3>2. \A k \in now : keys[k].since <= clock /\ calls[c].since <= keys[k].until
      BY <3>1 DEF Published, Never
    <3>3. ASSUME NEW k \in Key \ now, keys[k].until = Never PROVE calls[c].since <= keys[k].since
      BY <3>1, <3>3 DEF Published, TypeOK
    <3>4. ASSUME certs # NoCerts, NEW k \in certs, keys[k].until = Never PROVE k \in now
      BY <3>4 DEF CachedInv, Published, TypeOK
    <3> HIDE DEF now
    <3>5. now \in SUBSET Key
      BY DEF now
    <3> QED BY <1>1, <1>2, <1>3, <2>2, <3>2, <3>3, <3>4, <3>5 DEF ResponseOf, Never
  <2> QED BY <2>1, <2>2
<1>8. AnswerInv'
  BY NoAnswerHolds DEF PlatformResponds
<1> QED BY <1>4, <1>5, <1>6, <1>7, <1>8 DEF ResponseInv

\* The response is cached and used.
LEMMA EndFetchKeeps == ASSUME NEW c \in Call, IInv, EndFetch(c) PROVE IInv'
<1> USE AuthAssumption DEF IInv
<1> DEFINE got == calls[c].response
<1>1. /\ calls[c].pc = "returning" /\ certs' = got /\ deadline' = clock + CertsTtl
      /\ forced_ok_after' = IF calls[c].forced THEN clock + Cooldown ELSE forced_ok_after
      /\ Proceed(c, got) /\ UNCHANGED <<clock, keys, persistent, tokens>>
  BY DEF EndFetch, platform
<1>2. /\ queue # <<>> /\ c = Head(queue) /\ calls[c].since \in Nat
      /\ calls[c].since <= clock /\ clock <= calls[c].since + FetchTime
  BY <1>1 DEF FetchInv, FetchOf, Fetching, TypeOK, Request
<1>3. /\ got \in SUBSET Key /\ got # NoCerts
      /\ \A k \in got : keys[k].since <= clock /\ calls[c].since <= keys[k].until
      /\ \A k \in Key \ got : keys[k].until = Never => calls[c].since <= keys[k].since
      /\ certs # NoCerts => \A k \in certs : keys[k].until = Never => k \in got
  BY <1>1 DEF ResponseInv, ResponseOf
<1>4. /\ queue' \in Seq(Call) /\ calls' \in [Call -> Request]
      /\ TokensInv' /\ FetchInv' /\ ResponseInv'
  BY <1>1, <1>2, ProceedLeaves
<1> HIDE DEF got
<1>5. TypeOK' /\ DeadlinesInv'
  BY <1>1, <1>3, <1>4 DEF TypeOK, DeadlinesInv
<1>6. CachedInv'
  <2>1. ASSUME NEW k \in got
        PROVE  keys[k].since <= clock /\ deadline' <= keys[k].until + CertsTtl + FetchTime
    BY <1>1, <1>2, <1>3 DEF TypeOK
  <2>2. ASSUME NEW k \in Key \ got, keys[k].until = Never
        PROVE  forced_ok_after' <= keys[k].since + Cooldown + FetchTime
    <3>1. keys[k].since \in Nat /\ calls[c].since <= keys[k].since /\ clock \in Nat
      BY <1>3, <2>2 DEF TypeOK
    <3>2. CASE calls[c].forced
      BY <1>1, <1>2, <3>1, <3>2
    <3>3. CASE ~calls[c].forced
      <4>1. CASE certs = NoCerts
        BY <1>1, <3>1, <3>3, <4>1 DEF CachedInv
      <4>2. CASE certs # NoCerts
        BY <1>1, <1>3, <2>2, <3>3, <4>2 DEF CachedInv
      <4> QED BY <4>1, <4>2
    <3> QED BY <3>2, <3>3
  <2> QED BY <1>1, <1>3, <2>1, <2>2 DEF CachedInv, Never
<1>7. AnswerInv'
  <2>1. ASSUME NEW k \in got PROVE clock <= keys[k].until + CertsTtl + FetchTime
    BY <1>2, <1>3 DEF TypeOK
  <2>2. ASSUME NEW k \in Key \ got, keys[k].until = Never
        PROVE  clock < keys[k].since + Cooldown + FetchTime
    BY <1>2, <1>3, <2>2 DEF TypeOK
  <2>3. Genuine(calls[c].token)
    BY <1>1 DEF TokensInv
  <2> QED BY <1>1, <1>3, <2>1, <2>2, <2>3, ProceedHolds
<1> QED BY <1>4, <1>5, <1>6, <1>7

\* The fetch fails.
LEMMA FetchFailsKeeps == ASSUME NEW c \in Call, IInv, FetchFails(c) PROVE IInv'
<1> USE AuthAssumption DEF IInv
<1>1. /\ calls[c].pc \in Fetching /\ queue' = Tail(queue) /\ Answered(c, Refused(500, "fetch"))
      /\ UNCHANGED <<clock, keys, persistent, tokens, certs, deadline, forced_ok_after>>
  BY DEF FetchFails, Fetching, platform, cache
<1>2. calls' = [calls EXCEPT ![c] = NoCall] /\ NoCall \in Request /\ NoCall.pc = "idle"
  BY <1>1 DEF Answered, NoCall, Handling, Request
<1>3. /\ calls' \in [Call -> Request] /\ calls'[c] = NoCall
      /\ \A d \in Call : d # c => calls'[d] = calls[d]
  BY <1>2 DEF TypeOK
<1>4. queue # <<>> /\ c = Head(queue)
  BY <1>1 DEF FetchInv, FetchOf
<1>5. queue' \in Seq(Call)
  BY <1>1, <1>4 DEF TypeOK
<1>6. TypeOK'
  BY <1>1, <1>3, <1>5 DEF TypeOK
<1>7. TokensInv' /\ DeadlinesInv' /\ CachedInv'
  BY <1>1, <1>2, <1>3 DEF TokensInv, DeadlinesInv, CachedInv, Never
<1>8. FetchInv' /\ ResponseInv'
  <2>1. ASSUME NEW d \in Call PROVE calls'[d].pc \notin Fetching
    BY <1>2, <1>3, <1>4, OnlyTheHeadFetches DEF Fetching
  <2> QED BY <2>1, NobodyFetches
<1>9. AnswerInv'
  BY <1>1, RefusalHolds DEF Answered, Refused
<1> QED BY <1>6, <1>7, <1>8, <1>9

\* The process restarts, or time passes.
LEMMA RestartKeeps == IInv /\ Restart => IInv'
<1> SUFFICES ASSUME IInv, Restart PROVE IInv'
  OBVIOUS
<1> USE AuthAssumption DEF IInv
<1>1. /\ certs' = NoCerts /\ deadline' = 0 /\ forced_ok_after' = 0
      /\ queue' = <<>> /\ calls' = [c \in Call |-> NoCall]
      /\ UNCHANGED <<clock, keys, persistent, tokens>>
  BY DEF Restart, platform
<1>2. NoCall \in Request /\ NoCall.pc = "idle"
  BY DEF NoCall, Handling, Request
<1>3. TypeOK' /\ TokensInv' /\ DeadlinesInv' /\ CachedInv'
  BY <1>1, <1>2 DEF TypeOK, TokensInv, DeadlinesInv, CachedInv
<1>4. FetchInv' /\ ResponseInv'
  BY <1>1, <1>2, NobodyFetches DEF Fetching
<1>5. AnswerInv'
  BY NoAnswerHolds DEF Restart
<1> QED BY <1>3, <1>4, <1>5

LEMMA TickKeeps == IInv /\ Tick => IInv'
<1> SUFFICES ASSUME IInv, Tick PROVE IInv'
  OBVIOUS
<1> USE AuthAssumption DEF IInv
<1>1. /\ clock < MaxClock /\ clock' = clock + 1 /\ clock \in Nat
      /\ UNCHANGED <<keys, persistent, tokens, certs, deadline, forced_ok_after, queue, calls>>
  BY DEF Tick, platform, cache, TypeOK
<1>2. TypeOK'
  BY <1>1 DEF TypeOK
<1>3. TokensInv' /\ DeadlinesInv'
  BY <1>1 DEF TokensInv, DeadlinesInv, TypeOK
<1>4. CachedInv'
  BY <1>1 DEF CachedInv, TypeOK, Never
<1>5. ASSUME NEW c \in Call PROVE FetchOf(c)' /\ ResponseOf(c)'
  <2>1. FetchOf(c) /\ ResponseOf(c) /\ calls[c].since \in Nat
    BY DEF FetchInv, ResponseInv, TypeOK, Request
  <2>2. calls[c].pc \in Fetching => clock < calls[c].since + FetchTime
    BY DEF Tick, Fetching
  <2>3. FetchOf(c)'
    BY <1>1, <2>1, <2>2 DEF FetchOf
  <2>4. ResponseOf(c)'
    BY <1>1, <2>1 DEF ResponseOf, TypeOK, Never
  <2> QED BY <2>3, <2>4
<1>6. AnswerInv'
  BY NoAnswerHolds DEF Tick
<1> QED BY <1>2, <1>3, <1>4, <1>5, <1>6 DEF FetchInv, ResponseInv

LEMMA StutterKeeps == IInv /\ UNCHANGED vars => IInv'
BY DEF IInv, vars, platform, cache, TypeOK, TokensInv, DeadlinesInv, CachedInv, FetchInv, FetchOf,
       ResponseInv, ResponseOf, AnswerInv, WithdrawnKeyDies, NewKeyIsHonoured, RoleIsTheMappings,
       Admitted, Never

\* The invariant holds throughout.
THEOREM Invariant == Spec => []IInv
<1>1. IInv /\ [Next]_vars => IInv'
  <2> SUFFICES ASSUME IInv, [Next]_vars PROVE IInv'
    OBVIOUS
  <2>1. CASE Publish \/ Withdraw
    BY <2>1, PublishKeeps, WithdrawKeeps
  <2>2. CASE Restart \/ Tick
    BY <2>2, RestartKeeps, TickKeeps
  <2>3. ASSUME NEW p \in Person, SignIn(p) PROVE IInv'
    BY <2>3, SignInKeeps
  <2>4. ASSUME NEW c \in Call, Arrive(c) \/ UseCache(c) \/ StartFetch(c) PROVE IInv'
    BY <2>4, ArriveKeeps, UseCacheKeeps, StartFetchKeeps
  <2>5. ASSUME NEW c \in Call, PlatformResponds(c) \/ EndFetch(c) \/ FetchFails(c) PROVE IInv'
    BY <2>5, PlatformRespondsKeeps, EndFetchKeeps, FetchFailsKeeps
  <2>6. CASE UNCHANGED vars
    BY <2>6, StutterKeeps
  <2> QED BY <2>1, <2>2, <2>3, <2>4, <2>5, <2>6 DEF Next
<1> QED BY <1>1, InitHolds, PTL DEF Spec

-----------------------------------------------------------------------------
\* No request is admitted with a key withdrawn longer ago than the TTL and a
\* fetch (_get_certs, auth.py).
THEOREM WithdrawnKeysDie == Spec => []WithdrawnKeyDies
<1>1. IInv => WithdrawnKeyDies
  BY DEF IInv, AnswerInv
<1> QED BY <1>1, Invariant, PTL

\* No request is refused for a key published longer ago than the cooldown and
\* a fetch (forced_refresh_cooldown_seconds, auth.py).
THEOREM NewKeysAreHonoured == Spec => []NewKeyIsHonoured
<1>1. IInv => NewKeyIsHonoured
  BY DEF IInv, AnswerInv
<1> QED BY <1>1, Invariant, PTL

\* The role that admits a request is the one the mapping gave at the sign-in
\* (before_signed_in, auth_claims/main.py, and require_roles, deps.py).
THEOREM RolesAreTheMappings == Spec => []RoleIsTheMappings
<1>1. IInv => RoleIsTheMappings
  BY DEF IInv, AnswerInv
<1> QED BY <1>1, Invariant, PTL
=============================================================================
