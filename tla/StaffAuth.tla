----------------------------- MODULE StaffAuth -----------------------------
(***************************************************************************)
(* A member of staff from the sign-in to an endpoint: the blocking         *)
(* functions that put the role of configs/auth-roles.yaml into a token     *)
(* (infra/functions/auth_claims), the verifier with its cached signing     *)
(* certificates (app/backend/services/auth.py) and the dependencies that   *)
(* admit a request (app/backend/api/deps.py).                              *)
(*                                                                         *)
(* External: the identity platform, which signs tokens and rotates its     *)
(* keys, and the check of signature, audience and dates, of which only the *)
(* key counts here: any token may be out of date.  What verify does        *)
(* between two awaits is one step.  A suffix in capitals marks a mutated   *)
(* form.                                                                   *)
(***************************************************************************)
EXTENDS Naturals, Sequences, FiniteSets

CONSTANTS
  Key,           \* signing keys of the platform
  OtherKey,      \* the key of a token of another issuer
  Person,
  InDomain, Verified,  \* those of the hosted domain; with a verified address
  NoRole,
  Mappings,      \* contents configs/auth-roles.yaml may be deployed with
  Call,          \* requests that may be in progress together
  ManagerRoles,  \* roles an endpoint admits
  NoToken, NoCerts,
  CertsTtl,      \* certs_ttl_seconds
  Cooldown,      \* forced_refresh_cooldown_seconds
  FetchTime,     \* longest fetch: its timeout
  MaxClock       \* bound on the clock

STAFF_ROLES == {"admin", "recruiter", "reviewer"}

ASSUME AuthAssumption ==
  /\ CertsTtl \in Nat /\ Cooldown \in Nat \ {0} /\ FetchTime \in Nat /\ MaxClock \in Nat
  /\ OtherKey \notin Key /\ \A known \in SUBSET Key : known # NoCerts
  /\ InDomain \subseteq Person /\ Verified \subseteq Person /\ NoRole \notin STAFF_ROLES

VARIABLES
  clock,
  keys,       \* Key -> when it was published and withdrawn
  persistent, \* Person -> the role in its persistent claims
  tokens,     \* Person -> the token of its last sign-in
  installed,  \* whether AUTH_MODE installed a verifier
  certs,      \* _certs: the keys cached
  deadline,   \* _certs_deadline
  forced_ok_after,
  queue,      \* calls in _get_certs, in the order the lock serves them
  calls,      \* Call -> the request it handles
  answer      \* what the last step answered, if it did

platform == <<keys, persistent, tokens>>
cache == <<certs, deadline, forced_ok_after>>
vars == <<clock, platform, installed, cache, queue, calls, answer>>

Never == MaxClock + 1
Handling(pc, token, retried) ==
  [pc |-> pc, token |-> token, retried |-> retried, forced |-> FALSE, since |-> 0,
   response |-> NoCerts]
NoCall == Handling("idle", NoToken, FALSE)
NoAnswer == [code |-> 0, reason |-> "none", token |-> NoToken]
Published(k) == keys[k].since <= clock /\ keys[k].until = Never

Init ==
  /\ clock = 0
  /\ \E k \in Key : keys = [l \in Key |-> [since |-> IF l = k THEN 0 ELSE Never, until |-> Never]]
  /\ persistent = [p \in Person |-> NoRole] /\ tokens = [p \in Person |-> NoToken]
  /\ installed \in BOOLEAN /\ certs = NoCerts /\ deadline = 0 /\ forced_ok_after = 0
  /\ queue = <<>> /\ calls = [c \in Call |-> NoCall] /\ answer = NoAnswer

-----------------------------------------------------------------------------
\* The platform: rotation, deployments, sign-ins.

Publish ==
  /\ \E k \in Key :
       /\ keys[k].since = Never
       /\ keys' = [keys EXCEPT ![k].since = clock]
  /\ answer' = NoAnswer
  /\ UNCHANGED <<clock, persistent, tokens, installed, cache, queue, calls>>
Withdraw ==
  /\ \E k, other \in Key :
       /\ k # other /\ Published(k) /\ Published(other)
       /\ keys' = [keys EXCEPT ![k].until = clock]
  /\ answer' = NoAnswer
  /\ UNCHANGED <<clock, persistent, tokens, installed, cache, queue, calls>>

\* load_mapping runs when the function starts: a file it rejects serves nobody.
load_mapping(file) == \A p \in Person : file[p] \in STAFF_ROLES \cup {NoRole}

\* decide: blocked, or let in with hd and, where the mapping has one, a role.
decide(p, mapping) == [allowed |-> p \in Verified /\ p \in InDomain, role |-> mapping[p]]

\* before_created sets no persistent claims.
before_created_PERSISTS(p, mapping) == decide(p, mapping).role
before_created(p, mapping) == NoRole

\* The session claims of before_signed_in go over the persistent ones.  The
\* mapping is the one deployed at the time, another one at every sign-in if
\* need be; mapped is the history of what it said.
SignIn(p) ==
  \E mapping \in Mappings, k \in Key :
    LET kept == IF tokens[p] = NoToken THEN before_created(p, mapping) ELSE persistent[p]
        session == decide(p, mapping).role
    IN  /\ load_mapping(mapping) /\ decide(p, mapping).allowed /\ Published(k)
        /\ tokens' = [tokens EXCEPT ![p] =
             [kid |-> k, person |-> p, mapped |-> mapping[p],
              role |-> IF session # NoRole THEN session ELSE kept]]
        /\ persistent' = [persistent EXCEPT ![p] = kept]
        /\ answer' = NoAnswer
        /\ UNCHANGED <<clock, keys, installed, cache, queue, calls>>

-----------------------------------------------------------------------------
\* verify, once it has certificates.

OtherToken == [kid |-> OtherKey, person |-> NoToken, mapped |-> NoRole, role |-> NoRole]

Refused(code, reason) == [code |-> code, reason |-> reason]
AnswerTo(token, known, in_date) ==
  IF token.kid \notin known THEN Refused(401, "unknown_key")
  ELSE IF ~in_date THEN Refused(401, "expired")
  ELSE IF token.person \notin InDomain \cap Verified THEN Refused(401, "outside")
  ELSE IF token.role \notin STAFF_ROLES THEN Refused(403, "no_role")
  ELSE IF token.role \notin ManagerRoles THEN Refused(403, "other_role")
  ELSE [code |-> 200, reason |-> "none"]

Answered(c, verdict) ==
  /\ answer' = [code |-> verdict.code, reason |-> verdict.reason, token |-> calls[c].token]
  /\ calls' = [calls EXCEPT ![c] = NoCall]

\* With the certificates at hand: an unknown key asks for them once more,
\* behind those who wait for the lock; any other token gets its answer.
Proceed(c, known) ==
  IF calls[c].token.kid \notin known /\ ~calls[c].retried
  THEN /\ queue' = Append(Tail(queue), c)
       /\ calls' = [calls EXCEPT ![c] = Handling("queued", calls[c].token, TRUE)]
       /\ answer' = NoAnswer
  ELSE /\ queue' = Tail(queue)
       /\ \E in_date \in BOOLEAN : Answered(c, AnswerTo(calls[c].token, known, in_date))

-----------------------------------------------------------------------------
\* A request: require_crud_enabled, then get_current_user.
TurnedAway(token, code, reason) ==
  /\ answer' = [code |-> code, reason |-> reason, token |-> token]
  /\ UNCHANGED <<queue, calls>>
Arrive(c) ==
  /\ calls[c].pc = "idle"
  /\ \E token \in {tokens[p] : p \in Person} \cup {OtherToken}, enabled \in BOOLEAN :
       IF ~enabled THEN TurnedAway(token, 404, "dark")
       ELSE IF ~installed THEN TurnedAway(token, 401, "disabled")
       ELSE IF token = NoToken THEN TurnedAway(token, 401, "missing")
       ELSE /\ queue' = Append(queue, c)
            /\ calls' = [calls EXCEPT ![c] = Handling("queued", token, FALSE)]
            /\ answer' = NoAnswer
  /\ UNCHANGED <<clock, platform, installed, cache>>

\* _get_certs, the lock held.
AsksAgain_NEVER(c) == FALSE
AsksAgain(c) == calls[c].retried /\ clock >= forced_ok_after
Refetches_NO_TTL(c) == AsksAgain(c) \/ certs = NoCerts
Refetches(c) == AsksAgain(c) \/ certs = NoCerts \/ clock >= deadline

Served(c) == queue # <<>> /\ c = Head(queue) /\ calls[c].pc = "queued"

UseCache(c) ==
  /\ Served(c) /\ ~Refetches(c) /\ Proceed(c, certs)
  /\ UNCHANGED <<clock, platform, installed, cache>>

StartFetch(c) ==
  /\ Served(c) /\ Refetches(c)
  /\ calls' = [calls EXCEPT ![c].pc = "fetching", ![c].forced = AsksAgain(c), ![c].since = clock]
  /\ answer' = NoAnswer
  /\ UNCHANGED <<clock, platform, installed, cache, queue>>

\* The platform answers with the keys of this moment; the answer travels.
PlatformResponds(c) ==
  /\ calls[c].pc = "fetching"
  /\ calls' = [calls EXCEPT ![c].pc = "returning", ![c].response = {k \in Key : Published(k)}]
  /\ answer' = NoAnswer
  /\ UNCHANGED <<clock, platform, installed, cache, queue>>

EndFetch(c) ==
  LET got == calls[c].response
  IN  /\ calls[c].pc = "returning"
      /\ certs' = got /\ deadline' = clock + CertsTtl
      /\ forced_ok_after' = IF calls[c].forced THEN clock + Cooldown ELSE forced_ok_after
      /\ Proceed(c, got)
      /\ UNCHANGED <<clock, platform, installed>>

\* Nothing is cached, the lock is left, and nobody catches the exception.
FetchFails(c) ==
  /\ calls[c].pc \in {"fetching", "returning"}
  /\ queue' = Tail(queue)
  /\ Answered(c, Refused(500, "fetch"))
  /\ UNCHANGED <<clock, platform, installed, cache>>

\* A new process.
Restart ==
  /\ installed' \in BOOLEAN
  /\ certs' = NoCerts /\ deadline' = 0 /\ forced_ok_after' = 0
  /\ queue' = <<>> /\ calls' = [c \in Call |-> NoCall]
  /\ answer' = NoAnswer
  /\ UNCHANGED <<clock, platform>>

\* No fetch outlasts its timeout.
Tick ==
  /\ clock < MaxClock
  /\ \A c \in Call : calls[c].pc \in {"fetching", "returning"} => clock < calls[c].since + FetchTime
  /\ clock' = clock + 1
  /\ answer' = NoAnswer
  /\ UNCHANGED <<platform, installed, cache, queue, calls>>

Next == \/ Publish \/ Withdraw \/ Restart \/ Tick
        \/ \E p \in Person : SignIn(p)
        \/ \E c \in Call : Arrive(c) \/ UseCache(c) \/ StartFetch(c) \/ PlatformResponds(c)
                       \/ EndFetch(c) \/ FetchFails(c)

Spec == Init /\ [][Next]_vars

-----------------------------------------------------------------------------
Admitted == answer.code = 200

\* A key that has been withdrawn is trusted for the rest of the TTL and no
\* longer than that after the fetch that still saw it.
WithdrawnKeyDies ==
  Admitted => clock <= keys[answer.token.kid].until + CertsTtl + FetchTime

\* A key in use is honoured as soon as it has been published for longer than
\* the cooldown and a fetch: a cache that lacks it, and a forced refresh that
\* comes too early, hide it no longer.
NewKeyIsHonoured ==
  answer.reason = "unknown_key" /\ answer.token.kid \in Key /\ keys[answer.token.kid].until = Never =>
    clock < keys[answer.token.kid].since + Cooldown + FetchTime

\* Whoever is admitted had, when signing in, the role in the mapping that the
\* endpoint asks for: a role taken away is gone with the next sign-in.
RoleIsTheMappings ==
  Admitted => LET token == answer.token
              IN  /\ token.person \in InDomain /\ token.role = token.mapped
                  /\ token.mapped \in ManagerRoles
=============================================================================
