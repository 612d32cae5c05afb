----------------------------- MODULE TeamAccess -----------------------------
(***************************************************************************)
(* Who may act for an account of tools/sparkpipe_pay.py: sign-in codes,    *)
(* accounts, invitations and members, sessions and API keys.               *)
(*                                                                         *)
(* `team' is what the ledger's lines say of accounts, invitations, members *)
(* and keys.  A handler first finds out who asks (principal), without a    *)
(* lock, and then does its work under Book.lock: between the two another   *)
(* handler may have run, and calls[t] is what thread t still goes by.  A   *)
(* handler that writes several lines may stop between two of them, with the*)
(* service: CutShort.  Sessions live in a file of their own, which a stop  *)
(* leaves as it is; the codes live in memory.                              *)
(*                                                                         *)
(* The owner's subject is the account itself, a member's its number; ids,  *)
(* codes, tokens and keys are drawn at random by the code and are told     *)
(* apart here by being numbered.  A scope is "basic" (one every role has)  *)
(* or "full" (one a member has not).  The addresses a key may be used from,*)
(* its expiry and its Fleet, notes, throttles, mail and audit lines are    *)
(* left out.                                                               *)
(***************************************************************************)
EXTENDS Integers, Sequences, SequencesExt, FiniteSets

CONSTANTS
  TeamAccounts,      \* the accounts
  Emails,            \* the addresses
  Clients,           \* the threads that serve a request
  CodeTries,         \* CODE_TRIES
  InviteDays,        \* how long an invitation is valid
  SessionDays,       \* how long a session is valid
  RetireDays,        \* how long a rotated key is still good
  MembersPerAccount, \* MEMBERS_PER_ACCOUNT
  Teams              \* see AccessInit

ASSUME AccessAssumption ==
  /\ CodeTries \in Nat \ {0} /\ MembersPerAccount \in Nat
  /\ InviteDays \in Nat /\ SessionDays \in Nat /\ RetireDays \in Nat
  /\ TeamAccounts \cap Nat = {}

VARIABLES
  team,      \* the replay of the ledger: accounts, invites, members, keys
  sessions,  \* sessions.json: the bearer sessions, FALSE once dropped
  cookies,   \* the cookies signed so far
  codes,     \* App.codes
  calls,     \* what each thread is doing
  day,       \* the clock
  mailed,    \* the codes sent to each address, the sign-ins made with them
  scope      \* the scenario

accessVars == <<team, sessions, cookies, codes, calls, day, mailed, scope>>

NoOwner == "no email"
NoCode == [tries |-> -1]
Waiting == [stage |-> "waiting"]
Nobody == [account |-> "nobody"]
RoleScopes == [owner |-> {"basic", "full"}, admin |-> {"basic", "full"},
               member |-> {"basic"}]

-----------------------------------------------------------------------------
\* Book.apply and State.apply, for the lines of this part.
OnInvite(b, l) ==
  [b EXCEPT !.invites =
     Append([i \in DOMAIN b.invites |->
               IF /\ b.invites[i].email = l.email /\ b.invites[i].account = l.account
                  /\ b.invites[i].state = "invited"
               THEN [b.invites[i] EXCEPT !.state = "replaced"] ELSE b.invites[i]],
            [account |-> l.account, email |-> l.email, role |-> l.role,
             expires |-> l.expires, state |-> "invited"])]

OnMember(b, l) ==
  [b EXCEPT !.members = Append(@, [account |-> l.account, email |-> l.email,
                                   role |-> l.role, removed |-> FALSE]),
            !.invites[l.invite].state = "accepted"]

OnKey(b, l) ==
  [b EXCEPT !.keys = Append(@, [account |-> l.account, subject |-> l.subject,
                                scopes |-> l.scopes, from |-> l.from,
                                revoked |-> FALSE, retires |-> 0, given |-> FALSE])]

Applied(b, l) ==
  CASE l.type = "account" -> [b EXCEPT !.accounts[l.account] = l.email]
    [] l.type = "member_invite" -> OnInvite(b, l)
    [] l.type = "member" -> OnMember(b, l)
    [] l.type = "member_role" -> [b EXCEPT !.members[l.member].role = l.role]
    [] l.type = "member_remove" -> [b EXCEPT !.members[l.member].removed = TRUE]
    [] l.type = "invite_remove" -> [b EXCEPT !.invites[l.invite].state = "cancelled"]
    [] l.type = "api_key" -> OnKey(b, l)
    [] l.type = "api_key_revoke" -> [b EXCEPT !.keys[l.key].revoked = TRUE]
    [] l.type = "api_key_rotate" -> [b EXCEPT !.keys[l.key].retires = l.retires]

Replay(b, lines) == FoldLeft(Applied, b, lines)

-----------------------------------------------------------------------------
\* Who asks.
Opened(b) == {a \in TeamAccounts : b.accounts[a] # NoOwner}
OwnerOf(b, e) == {a \in Opened(b) : b.accounts[a] = e}
MemberOf(b, e) == {m \in DOMAIN b.members : b.members[m].email = e /\ ~b.members[m].removed}

Resolve(b, subject) ==
  IF subject \in TeamAccounts
  THEN IF subject \in Opened(b)
       THEN [account |-> subject, subject |-> subject, role |-> "owner"] ELSE Nobody
  ELSE IF b.members[subject].removed THEN Nobody
       ELSE [account |-> b.members[subject].account, subject |-> subject,
             role |-> b.members[subject].role]

\* A credential is a cookie, a bearer session or a key, by its number.
Credentials ==
  {[via |-> "cookie", no |-> i] : i \in DOMAIN cookies}
    \cup {[via |-> "bearer", no |-> i] : i \in DOMAIN sessions}
    \cup {[via |-> "key", no |-> i] : i \in {k \in DOMAIN team.keys : team.keys[k].given}}

Record(c) ==
  CASE c.via = "cookie" -> cookies[c.no]
    [] c.via = "bearer" -> sessions[c.no]
    [] c.via = "key" -> team.keys[c.no]

BearerActor(s) ==
  LET found == Resolve(team, s.subject) IN
  IF s.dropped \/ s.until <= day \/ found.account # s.account THEN Nobody ELSE found

CookieActor(s) == IF s.until < day THEN Nobody ELSE Resolve(team, s.subject)

\* Market.key_account, authorize, and what principal asks of a key's member.
KeyActor(k, need) ==
  LET found == Resolve(team, k.subject) IN
  IF \/ k.revoked \/ need \notin k.scopes \/ found.account # k.account
     \/ (k.retires # 0 /\ k.retires <= day)
  THEN Nobody ELSE found


Principal(c, need) ==
  LET found == CASE c.via = "cookie" -> CookieActor(Record(c))
                 [] c.via = "bearer" -> BearerActor(Record(c))
                 [] c.via = "key" -> KeyActor(Record(c), need)
  IN  IF found = Nobody THEN Nobody
      ELSE IF need \in RoleScopes[found.role] THEN found ELSE Nobody

-----------------------------------------------------------------------------
\* How the work of a handler under Book.lock ends: it writes its lines and
\* answers, or the service stops after the first n of them.
Idle_(t) == calls[t].stage = "waiting"
Leaves(t) == calls' = [calls EXCEPT ![t] = Waiting]

CutShort(lines) ==
  \E n \in 0 .. Len(lines) :
    /\ scope.crashes > 0
    /\ scope' = [scope EXCEPT !.crashes = @ - 1]
    /\ team' = Replay(team, SubSeq(lines, 1, n))
    /\ calls' = [t \in Clients |-> Waiting]
    /\ codes' = [e \in Emails |-> NoCode]
    /\ UNCHANGED <<sessions, cookies, day, mailed>>

Writes_(t, lines) == team' = Replay(team, lines) /\ Leaves(t)

-----------------------------------------------------------------------------
\* Sign-in: send_code, check_code, verify.
SendCode(e) ==
  /\ mailed[e].sent < scope.codes[e]
  /\ codes' = [codes EXCEPT ![e] = [tries |-> 0]]
  /\ mailed' = [mailed EXCEPT ![e].sent = @ + 1]
  /\ UNCHANGED <<team, sessions, cookies, calls, day, scope>>

\* A code is good for CODE_SECONDS.
CodeLapses(e) ==
  /\ codes[e] # NoCode
  /\ codes' = [codes EXCEPT ![e] = NoCode]
  /\ UNCHANGED <<team, sessions, cookies, calls, day, mailed, scope>>

GoodCode(e, right) == right /\ codes[e].tries < CodeTries

CheckCode(t, e, right) ==
  /\ Idle_(t) /\ codes[e] # NoCode /\ codes[e].tries <= CodeTries
  /\ IF GoodCode(e, right)
     THEN /\ codes' = [codes EXCEPT ![e] = NoCode]
          /\ calls' = [calls EXCEPT ![t] = [stage |-> "verified", email |-> e]]
     ELSE codes' = [codes EXCEPT ![e].tries = @ + 1] /\ UNCHANGED calls
  /\ UNCHANGED <<team, sessions, cookies, day, mailed, scope>>

Pending(b, e) ==
  {i \in DOMAIN b.invites : /\ b.invites[i].email = e /\ b.invites[i].state = "invited"
                            /\ b.invites[i].expires > day}
PendingInvite(b, e) == CHOOSE i \in Pending(b, e) : \A j \in Pending(b, e) : i <= j

\* The member of this email, the invitation it has, or its account, opened now
\* when the person names a company.
JoinLine(e) ==
  LET i == PendingInvite(team, e) IN
  [type |-> "member", account |-> team.invites[i].account, email |-> e,
   role |-> team.invites[i].role, invite |-> i]

SignsIn(t, subject) == calls' = [calls EXCEPT ![t] = [stage |-> "known", subject |-> subject]]

Signing(e) ==
  IF MemberOf(team, e) # {} THEN "member"
  ELSE IF OwnerOf(team, e) # {} THEN "owner"
  ELSE IF Pending(team, e) # {} THEN "invited" ELSE "new"

SignIn(t) ==
  LET e == calls[t].email IN
  /\ calls[t].stage = "verified"
  /\ mailed' = [mailed EXCEPT ![e].used = @ + 1]
  /\ UNCHANGED <<sessions, cookies, codes, day, scope>>
  /\ \/ /\ Signing(e) \in {"member", "owner"}
        /\ \E s \in MemberOf(team, e) \cup OwnerOf(team, e) : SignsIn(t, s)
        /\ UNCHANGED team
     \/ /\ Signing(e) = "invited" /\ Len(team.members) < scope.max.members
        /\ team' = Replay(team, <<JoinLine(e)>>)
        /\ SignsIn(t, Len(team.members) + 1)
     \/ /\ Signing(e) = "new"
        /\ \E a \in TeamAccounts \ Opened(team) :
             /\ team' = Replay(team, <<[type |-> "account", account |-> a, email |-> e]>>)
             /\ SignsIn(t, a)
     \/ Signing(e) = "new" /\ Leaves(t) /\ UNCHANGED team

\* verify resolves the subject again, outside the lock: a member removed
\* meanwhile ends the request with an error.  The bearer session is put later
\* still.
OpenSession(t, bearer) ==
  LET found == Resolve(team, calls[t].subject) IN
  /\ calls[t].stage = "known"
  /\ IF found # Nobody /\ ~bearer
     THEN cookies' = Append(cookies, [subject |-> calls[t].subject,
                                      account |-> found.account,
                                      until |-> day + SessionDays])
     ELSE UNCHANGED cookies
  /\ IF found # Nobody /\ bearer
     THEN calls' = [calls EXCEPT ![t] = [stage |-> "bearer", account |-> found.account,
                                         subject |-> found.subject]]
     ELSE Leaves(t)
  /\ UNCHANGED <<team, sessions, codes, day, mailed, scope>>

OpenBearer(t) ==
  /\ calls[t].stage = "bearer"
  /\ sessions' = Append(sessions, [account |-> calls[t].account, dropped |-> FALSE,
                                   subject |-> calls[t].subject,
                                   until |-> day + SessionDays])
  /\ Leaves(t)
  /\ UNCHANGED <<team, cookies, codes, day, mailed, scope>>

-----------------------------------------------------------------------------
\* account_api: the session of the request is looked at first; the operation
\* goes by what it was then.
Arrives(t, c, op) ==
  /\ Idle_(t) /\ c.via # "key" /\ op \in scope.ops
  /\ Principal(c, "basic") # Nobody
  /\ calls' = [calls EXCEPT ![t] = [stage |-> op, actor |-> Principal(c, "basic")]]
  /\ UNCHANGED <<team, sessions, cookies, codes, day, mailed, scope>>

KeyLine(actor, subject, scopes, from) ==
  [type |-> "api_key", account |-> actor.account, subject |-> subject,
   scopes |-> scopes, from |-> from]

\* The key itself is in the answer and nowhere else.
Answer(t, lines, key) ==
  \/ /\ team' = [Replay(team, lines) EXCEPT !.keys[key].given = TRUE]
     /\ Leaves(t)
     /\ UNCHANGED <<sessions, cookies, codes, day, mailed, scope>>
  \/ CutShort(lines)

CreateKey(t, scopes) ==
  LET actor == calls[t].actor IN
  /\ calls[t].stage = "create"
  /\ Len(team.keys) < scope.max.keys
  /\ scopes \subseteq RoleScopes[actor.role]
  /\ Answer(t, <<KeyLine(actor, actor.subject, scopes, 0)>>, Len(team.keys) + 1)

OwnKey(actor, k) ==
  /\ team.keys[k].account = actor.account /\ ~team.keys[k].revoked
  /\ team.keys[k].retires = 0 \/ team.keys[k].retires > day
  /\ actor.role = "member" => team.keys[k].subject = actor.subject

RevokeKey(t, k) ==
  /\ calls[t].stage = "revoke" /\ OwnKey(calls[t].actor, k)
  /\ Writes_(t, <<[type |-> "api_key_revoke", key |-> k]>>)
  /\ UNCHANGED <<sessions, cookies, codes, day, mailed, scope>>

Rotatable(actor, k) == OwnKey(actor, k) /\ team.keys[k].retires = 0

RotateKey(t, k) ==
  LET old == team.keys[k] IN
  /\ calls[t].stage = "rotate" /\ Rotatable(calls[t].actor, k)
  /\ Len(team.keys) < scope.max.keys
  /\ Answer(t, <<KeyLine(calls[t].actor, old.subject, old.scopes, k),
                 [type |-> "api_key_rotate", key |-> k, retires |-> day + RetireDays]>>,
            Len(team.keys) + 1)

-----------------------------------------------------------------------------
\* member_put and member_delete, the owner's alone.
Listed(b, a) ==
  {<<"member", m>> : m \in {x \in DOMAIN b.members :
                             b.members[x].account = a /\ ~b.members[x].removed}}
    \cup {<<"invited", i>> : i \in {x \in DOMAIN b.invites :
                                   /\ b.invites[x].account = a /\ b.invites[x].expires > day
                                   /\ b.invites[x].state = "invited"}}

HasRoom(a) == Cardinality(Listed(team, a)) + 1 <= MembersPerAccount

Invitable(a, e) ==
  /\ MemberOf(team, e) = {} /\ OwnerOf(team, e) = {}
  /\ IF Pending(team, e) = {} THEN HasRoom(a)
     ELSE team.invites[PendingInvite(team, e)].account = a

InviteLine(a, e, r) ==
  [type |-> "member_invite", account |-> a, email |-> e, role |-> r,
   expires |-> day + InviteDays]

MemberPut(t, e, r) ==
  LET a == calls[t].actor.account
      current == {m \in MemberOf(team, e) : team.members[m].account = a} IN
  /\ calls[t].stage = "put" /\ calls[t].actor.role = "owner"
  /\ \/ \E m \in current :
          /\ team.members[m].role # r
          /\ Writes_(t, <<[type |-> "member_role", member |-> m, role |-> r]>>)
     \/ /\ current = {} /\ Invitable(a, e) /\ Len(team.invites) < scope.max.invites
        /\ Writes_(t, <<InviteLine(a, e, r)>>)
  /\ UNCHANGED <<sessions, cookies, codes, day, mailed, scope>>

RemoveLines(m) ==
  <<[type |-> "member_remove", member |-> m]>> \o
    SetToSeq({[type |-> "api_key_revoke", key |-> k] :
                k \in {x \in DOMAIN team.keys : /\ team.keys[x].subject = m
                                                /\ ~team.keys[x].revoked}})

MemberDelete(t, m) ==
  LET a == calls[t].actor.account IN
  /\ calls[t].stage = "delete" /\ calls[t].actor.role = "owner"
  /\ team.members[m].account = a /\ ~team.members[m].removed
  /\ \/ /\ Writes_(t, RemoveLines(m))
        /\ sessions' = [i \in DOMAIN sessions |->
                          IF sessions[i].subject = m
                          THEN [sessions[i] EXCEPT !.dropped = TRUE] ELSE sessions[i]]
        /\ UNCHANGED <<cookies, codes, day, mailed, scope>>
     \/ CutShort(RemoveLines(m))

InviteCancel(t, i) ==
  /\ calls[t].stage = "delete" /\ calls[t].actor.role = "owner"
  /\ team.invites[i].account = calls[t].actor.account /\ team.invites[i].state = "invited"
  /\ Writes_(t, <<[type |-> "invite_remove", invite |-> i]>>)
  /\ UNCHANGED <<sessions, cookies, codes, day, mailed, scope>>

\* revoke_session: the owner's any, a member's own; sign_out drops the session
\* that asks.
RevokeSession(t, i) ==
  LET actor == calls[t].actor IN
  /\ calls[t].stage = "session"
  /\ sessions[i].account = actor.account /\ ~sessions[i].dropped
  /\ actor.role = "owner" \/ sessions[i].subject = actor.subject
  /\ sessions' = [sessions EXCEPT ![i].dropped = TRUE]
  /\ Leaves(t)
  /\ UNCHANGED <<team, cookies, codes, day, mailed, scope>>

\* A request whose arguments the code refuses.
Refused(t) ==
  /\ calls[t].stage \in scope.ops
  /\ Leaves(t)
  /\ UNCHANGED <<team, sessions, cookies, codes, day, mailed, scope>>

DayPasses ==
  /\ day < scope.max.days
  /\ day' = day + 1
  /\ UNCHANGED <<team, sessions, cookies, codes, calls, mailed, scope>>

\* The service stops and starts again between two requests.
Restart == CutShort(<<>>)

-----------------------------------------------------------------------------
\* A scenario: the accounts that are open and the cookies their owners have,
\* how many codes each address asks for, the operations that are asked for, how
\* often the service stops, and the bounds of the model.
AccessInit ==
  /\ scope \in Teams
  /\ team = [accounts |-> scope.accounts, invites |-> <<>>, members |-> <<>>, keys |-> <<>>]
  /\ sessions = <<>> /\ cookies = scope.cookies
  /\ codes = [e \in Emails |-> NoCode]
  /\ calls = [t \in Clients |-> Waiting]
  /\ day = 1
  /\ mailed = [e \in Emails |-> [sent |-> 0, used |-> 0]]

SignInStep(t) ==
  \/ \E e \in Emails, right \in BOOLEAN : CheckCode(t, e, right)
  \/ SignIn(t)
  \/ OpenBearer(t)
  \/ \E bearer \in BOOLEAN : OpenSession(t, bearer)

KeyStep(t) ==
  \/ \E scopes \in {{"basic"}, {"basic", "full"}} : CreateKey(t, scopes)
  \/ \E k \in DOMAIN team.keys : RevokeKey(t, k) \/ RotateKey(t, k)

MemberStep(t) ==
  \/ \E e \in Emails, r \in {"admin", "member"} : MemberPut(t, e, r)
  \/ \E m \in DOMAIN team.members : MemberDelete(t, m)
  \/ \E i \in DOMAIN team.invites : InviteCancel(t, i)

AccessNext ==
  \/ \E e \in Emails : SendCode(e) \/ CodeLapses(e)
  \/ \E t \in Clients :
       \/ SignInStep(t)
       \/ \E c \in Credentials, op \in scope.ops : Arrives(t, c, op)
       \/ KeyStep(t) \/ MemberStep(t)
       \/ \E i \in DOMAIN sessions : RevokeSession(t, i)
       \/ Refused(t)
  \/ DayPasses
  \/ Restart

AccessSpec == AccessInit /\ [][AccessNext]_accessVars

-----------------------------------------------------------------------------


=============================================================================
