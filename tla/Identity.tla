------------------------------ MODULE Identity ------------------------------
(***************************************************************************)
(* Users, refresh-token families and access tokens                         *)
(* (src/app/modules/identity), with the member, wallet and ledger-account   *)
(* rows that registration creates.                                         *)
(*                                                                         *)
(* Each HTTP request has its own session and transaction (READ COMMITTED). *)
(* A request is cut at the points where another transaction can come in    *)
(* between: what it read stays in request[r], what it writes is committed  *)
(* by its last step.  An answer that is an error rolls the transaction     *)
(* back (db/engine.py session_scope).                                      *)
(***************************************************************************)
EXTENDS Naturals, FiniteSets

CONSTANTS
    Emails,      \* e-mail addresses, one user each
    Passwords,
    TokenIds,    \* ids of refresh_token rows; a family is named by its first token
    Requests,    \* requests being served at the same time
    None,        \* SQL NULL
    MaxChanges,  \* bound: password changes of each user
    MaxCuts,     \* bound: password changes and logout-alls of each user
    MaxExpired   \* bound: refresh tokens that expire

ASSUME IdentityAssumption ==
  /\ None \notin Emails \cup Passwords \cup TokenIds
  /\ MaxChanges \in [Emails -> Nat]
  /\ MaxCuts \in [Emails -> Nat]
  /\ MaxExpired \in Nat

VARIABLES
    version,     \* user.token_version, 0 while there is no such user
    password,    \* user.password_hash
    member,      \* member.screening_state of the user's member row
    accounts,    \* codes of the ledger accounts that exist
    issued,      \* refresh_token rows: which exist
    owner,       \*   user_id
    family,      \*   family_id
    replacedBy,  \*   replaced_by_token_id
    used,        \*   rows with a used_at
    revoked,     \*   rows with a revoked_at
    expired,     \*   rows whose expires_at has passed
    access,      \* access tokens handed out
    request,     \* request[r]: what the request has read so far
    changes,     \* history: password changes committed, per user
    cuts,        \* history: password changes and logout-alls committed
    since,       \* history: cuts when the login of a family read the user
    overlapped,  \* history: families with a request in flight during a cut
    raced,       \* history: families with a token rotated twice
    lostBump     \* history: users with two overlapping password changes

users     == <<version, password, member, accounts>>
tokens    == <<issued, owner, family, replacedBy, used, revoked, expired>>
history   == <<changes, cuts, since, overlapped, raced, lostBump>>
vars      == <<users, tokens, access, request, history>>

Platform == <<"platform", "settlement">>   \* the code platform:settlement:gbp

Idle == [pc |-> "idle", error |-> "none", email |-> None, password |-> None,
         version |-> 0, changes |-> 0, cuts |-> 0, token |-> None, seen |-> FALSE,
         late |-> FALSE, unspent |-> FALSE]

PcValues == {"idle", "user_inserted", "account_read", "account_inserted",
             "credentials_read", "token_read", "user_read", "authenticated"}

\* The error a request was last answered with, if it was an error.
Errors == {"none", "refused", "collided"}

AccessToken == [user : Emails, version : Nat \ {0}, changes : Nat]

TypeOK ==
  /\ version \in [Emails -> Nat]
  /\ password \in [Emails -> Passwords \cup {None}]
  /\ member \in [Emails -> {None, "clear", "review"}]
  /\ accounts \subseteq {Platform} \cup (Emails \X {"pending", "available"})
  /\ issued \subseteq TokenIds
  /\ used \cup revoked \cup expired \subseteq issued
  /\ owner \in [TokenIds -> Emails \cup {None}]
  /\ family \in [TokenIds -> TokenIds \cup {None}]
  /\ replacedBy \in [TokenIds -> TokenIds \cup {None}]
  /\ access \subseteq AccessToken
  /\ request \in [Requests ->
            [pc : PcValues, error : Errors, email : Emails \cup {None},
             password : Passwords \cup {None}, version : Nat, changes : Nat,
             cuts : Nat, token : TokenIds \cup {None}, seen : BOOLEAN,
             late : BOOLEAN, unspent : BOOLEAN]]
  /\ changes \in [Emails -> Nat]
  /\ cuts \in [Emails -> Nat]
  /\ since \in [TokenIds -> Nat]
  /\ overlapped \subseteq TokenIds
  /\ raced \subseteq TokenIds
  /\ lostBump \subseteq Emails

Init ==
  /\ version = [e \in Emails |-> 0]
  /\ password = [e \in Emails |-> None]
  /\ member = [e \in Emails |-> None]
  /\ accounts = {}
  /\ issued = {} /\ used = {} /\ revoked = {} /\ expired = {}
  /\ owner = [t \in TokenIds |-> None]
  /\ family = [t \in TokenIds |-> None]
  /\ replacedBy = [t \in TokenIds |-> None]
  /\ access = {}
  /\ request = [r \in Requests |-> Idle]
  /\ changes = [e \in Emails |-> 0]
  /\ cuts = [e \in Emails |-> 0]
  /\ since = [t \in TokenIds |-> 0]
  /\ overlapped = {} /\ raced = {} /\ lostBump = {}

-----------------------------------------------------------------------------
(* Requests and their transactions *)

Begin(r, row) ==
  /\ request[r].pc = "idle"
  /\ request' = [request EXCEPT ![r] = row]

Fail(r, error) == request' = [request EXCEPT ![r] = [Idle EXCEPT !.error = error]]

Succeed(r) == request' = [request EXCEPT ![r] = Idle]

\* What is left of a transaction's revocations when the request ends in an
\* AppError: the dependency that yields the session never commits.
RolledBack(revocations) == revoked

Registered(e) == version[e] > 0

\* A unique row inserted by a transaction that is still open: a second insert
\* of it waits for that transaction to end.
EmailHeld(e) ==
    \E r \in Requests :
        request[r].pc \in {"user_inserted", "account_read", "account_inserted"}
        /\ request[r].email = e

PlatformHeld == \E r \in Requests : request[r].pc = "account_inserted" /\ ~request[r].seen

-----------------------------------------------------------------------------
(* Refresh tokens *)

\* Variant: whether a token was rotated before is not looked at.
NotRevoked(t) == t \in issued \ (revoked \cup expired)

\* A token can be rotated.
Refreshable(t) == t \in issued \ (revoked \cup expired) /\ replacedBy[t] = None

\* The "active" flag of GET /auth/sessions.
Active(t) == t \in issued \ (revoked \cup used \cup expired) /\ replacedBy[t] = None

\* Variant: only the first token of each family is revoked.
RevokeFirsts(e) == revoked \cup {t \in issued : owner[t] = e /\ family[t] = t}

RevokeUser(e) == revoked \cup {t \in issued : owner[t] = e}

RevokeFamily(f) == revoked \cup {t \in issued : family[t] = f}

\* Variant: a row is revoked whether it exists or not.
RevokeAny(t, e) == revoked \cup {t}

\* A session row is revoked by its id only for the user it belongs to.
RevokeById(t, e) == revoked \cup {s \in issued : s = t /\ owner[s] = e}

\* Issue token n in family f to the user e, with an access token for the
\* version v of the user, read when `seenChanges` password changes were in.
IssuePair(e, n, f, v, seenChanges) ==
  /\ n \in TokenIds \ issued
  /\ issued' = issued \cup {n}
  /\ owner' = [owner EXCEPT ![n] = e]
  /\ family' = [family EXCEPT ![n] = f]
  /\ access' = access \cup {[user |-> e, version |-> v, changes |-> seenChanges]}

\* Variant: the successor is not noted.
MarkUsedOnly(t, n) ==
  /\ used' = used \cup {t}
  /\ UNCHANGED replacedBy

\* The token rotated is marked by its id, whatever it has become meanwhile.
MarkUsed(t, n) ==
  /\ used' = used \cup {t}
  /\ replacedBy' = [replacedBy EXCEPT ![t] = n]

\* A login committed now, whose user was read `seen` cuts ago, starts family n.
StartFamily(n, e, seen) ==
  /\ since' = [since EXCEPT ![n] = seen]
  /\ overlapped' = IF seen = cuts[e] THEN overlapped ELSE overlapped \cup {n}

-----------------------------------------------------------------------------
(* POST /auth/register *)

\* create_user(): the row is inserted, or the e-mail address is taken.
InsertUser(r, e, p) ==
  /\ ~EmailHeld(e)
  /\ ~Registered(e)
  /\ Begin(r, [Idle EXCEPT !.pc = "user_inserted", !.email = e, !.password = p,
                           !.late = Platform \in accounts])
  /\ UNCHANGED <<users, tokens, access, history>>

EmailTaken(r, e) ==
  /\ ~EmailHeld(e)
  /\ Registered(e)
  /\ Begin(r, [Idle EXCEPT !.error = "refused"])
  /\ UNCHANGED <<users, tokens, access, history>>

\* Variant: the account is inserted without a look.
SkipLook(r) ==
  /\ request[r].pc = "user_inserted"
  /\ request' = [request EXCEPT ![r].pc = "account_read", ![r].seen = FALSE]
  /\ UNCHANGED <<users, tokens, access, history>>

\* ensure_account() first looks for the platform's account, the one that members
\* share ...
FindAccount(r) ==
  /\ request[r].pc = "user_inserted"
  /\ request' = [request EXCEPT ![r].pc = "account_read",
                               ![r].seen = Platform \in accounts]
  /\ UNCHANGED <<users, tokens, access, history>>

\* ... and inserts it when it saw none.  The code of an account is unique: the
\* insert waits for another one in flight and fails when that one was committed.
EnsureAccount(r) ==
  /\ request[r].pc = "account_read"
  /\ \/ /\ request[r].seen
        /\ request' = [request EXCEPT ![r].pc = "account_inserted"]
     \/ /\ ~request[r].seen
        /\ ~PlatformHeld
        /\ IF Platform \in accounts
           THEN Fail(r, "collided")
           ELSE request' = [request EXCEPT ![r].pc = "account_inserted"]
  /\ UNCHANGED <<users, tokens, access, history>>

WalletAccounts(e) == {Platform} \cup ({e} \X {"pending", "available"})

\* AlwaysClearScreening is the only screening there is.
Hits(e) == {}

ScreenPerson(e) == IF Hits(e) = {} THEN "clear" ELSE "review"

\* ensure_for_user(): the user is new, so there is no member row to update.
EnsureMember(e, state) == member' = [member EXCEPT ![e] = state]

\* The user, the screened member, the wallet and the first session appear at once.
Register(r, n) ==
  LET e == request[r].email IN
  /\ request[r].pc = "account_inserted"
  /\ version' = [version EXCEPT ![e] = 1]
  /\ password' = [password EXCEPT ![e] = request[r].password]
  /\ EnsureMember(e, ScreenPerson(e))
  /\ accounts' = accounts \cup WalletAccounts(e)
  /\ IssuePair(e, n, n, 1, 0)
  /\ Succeed(r)
  /\ UNCHANGED <<replacedBy, used, revoked, expired, history>>

-----------------------------------------------------------------------------
(* POST /auth/login *)

ReadCredentials(r, e, p) ==
  /\ IF Registered(e) /\ password[e] = p
     THEN Begin(r, [Idle EXCEPT !.pc = "credentials_read", !.email = e,
                               !.version = version[e], !.changes = changes[e],
                               !.cuts = cuts[e]])
     ELSE Begin(r, [Idle EXCEPT !.error = "refused"])
  /\ UNCHANGED <<users, tokens, access, history>>

Login(r, n) ==
  LET q == request[r] IN
  /\ q.pc = "credentials_read"
  /\ IssuePair(q.email, n, n, q.version, q.changes)
  /\ StartFamily(n, q.email, q.cuts)
  /\ Succeed(r)
  /\ UNCHANGED <<users, replacedBy, used, revoked, expired, changes, cuts, raced, lostBump>>

-----------------------------------------------------------------------------
(* POST /auth/refresh *)

\* A token that is revoked, replaced or expired is refused.  The family is
\* revoked first, in the transaction that the refusal then rolls back.
ReadToken(r, t) ==
  /\ t \in issued
  /\ IF Refreshable(t)
     THEN /\ Begin(r, [Idle EXCEPT !.pc = "token_read", !.token = t, !.email = owner[t],
                                  !.unspent = replacedBy[t] = None])
          /\ UNCHANGED revoked
     ELSE /\ Begin(r, [Idle EXCEPT !.error = "refused"])
          /\ revoked' = RolledBack(RevokeFamily(family[t]))
  /\ UNCHANGED <<users, issued, owner, family, replacedBy, used, expired, access, history>>

ReadOwner(r) ==
  LET e == request[r].email IN
  /\ request[r].pc = "token_read"
  /\ request' = [request EXCEPT ![r].pc = "user_read", ![r].version = version[e],
                               ![r].changes = changes[e]]
  /\ UNCHANGED <<users, tokens, access, history>>

Refresh(r, n) ==
  LET q == request[r] IN
  /\ q.pc = "user_read"
  /\ IssuePair(q.email, n, family[q.token], q.version, q.changes)
  /\ MarkUsed(q.token, n)
  /\ raced' = IF q.unspent /\ replacedBy[q.token] # None
              THEN raced \cup {family[q.token]} ELSE raced
  /\ Succeed(r)
  /\ UNCHANGED <<users, revoked, expired, changes, cuts, since, overlapped, lostBump>>

\* POST /auth/logout revokes the token presented, and no other of its family.
Logout(r, t) ==
  /\ Begin(r, Idle)
  /\ revoked' = revoked \cup ({t} \cap issued)
  /\ UNCHANGED <<users, issued, owner, family, replacedBy, used, expired, access, history>>

-----------------------------------------------------------------------------
(* Requests with an access token.  The user row read here stays in the session, *)
(* and is what the rest of the request goes by.                                 *)

\* Variant: an access token of an earlier version is accepted.
AuthenticatesUpTo(a) == version[a.user] >= a.version

Authenticates(a) == version[a.user] = a.version

Authenticate(r, a) ==
  LET e == a.user IN
  /\ a \in access
  /\ IF Authenticates(a)
     THEN Begin(r, [Idle EXCEPT !.pc = "authenticated", !.email = e,
                               !.password = password[e], !.version = version[e]])
     ELSE Begin(r, [Idle EXCEPT !.error = "refused"])
  /\ UNCHANGED <<users, tokens, access, history>>

\* Every committed token of the user is revoked; a refresh of the user that is
\* in flight has yet to commit its token.
CutSessions(e) ==
  /\ revoked' = RevokeUser(e)
  /\ cuts' = [cuts EXCEPT ![e] = @ + 1]
  /\ overlapped' = overlapped \cup
       {family[request[q].token] : q \in
          {q \in Requests : request[q].pc \in {"token_read", "user_read"}
                            /\ request[q].email = e}}

LogoutAll(r) ==
  LET e == request[r].email IN
  /\ request[r].pc = "authenticated"
  /\ cuts[e] < MaxCuts[e]
  /\ CutSessions(e)
  /\ Succeed(r)
  /\ UNCHANGED <<users, issued, owner, family, replacedBy, used, expired, access,
                 changes, since, raced, lostBump>>

\* bump_token_version() counts from the version this session has read, and the
\* current password is verified against the row it has read.
ChangePassword(r, p) ==
  LET e == request[r].email IN
  /\ request[r].pc = "authenticated"
  /\ changes[e] < MaxChanges[e]
  /\ cuts[e] < MaxCuts[e]
  /\ version' = [version EXCEPT ![e] = request[r].version + 1]
  /\ password' = [password EXCEPT ![e] = p]
  /\ CutSessions(e)
  /\ changes' = [changes EXCEPT ![e] = @ + 1]
  /\ lostBump' = IF version[e] = request[r].version THEN lostBump ELSE lostBump \cup {e}
  /\ Succeed(r)
  /\ UNCHANGED <<member, accounts, issued, owner, family, replacedBy, used, expired,
                 access, since, raced>>

WrongPassword(r, p) ==
  /\ request[r].pc = "authenticated"
  /\ p # request[r].password
  /\ Fail(r, "refused")
  /\ UNCHANGED <<users, tokens, access, history>>

RevokeSession(r, t) ==
  /\ request[r].pc = "authenticated"
  /\ revoked' = RevokeById(t, request[r].email)
  /\ Succeed(r)
  /\ UNCHANGED <<users, issued, owner, family, replacedBy, used, expired, access, history>>

-----------------------------------------------------------------------------
\* Thirty days pass for a token.
Expire(t) ==
  /\ t \in issued \ expired
  /\ Cardinality(expired) < MaxExpired
  /\ expired' = expired \cup {t}
  /\ UNCHANGED <<users, issued, owner, family, replacedBy, used, revoked, access,
                 request, history>>

\* The process dies: the open transaction is rolled back and nobody is answered.
Crash(r) ==
  /\ request[r].pc # "idle"
  /\ request' = [request EXCEPT ![r] = Idle]
  /\ UNCHANGED <<users, tokens, access, history>>

Next ==
  \/ \E r \in Requests :
       \/ \E e \in Emails, p \in Passwords : InsertUser(r, e, p) \/ ReadCredentials(r, e, p)
       \/ \E e \in Emails : EmailTaken(r, e)
       \/ FindAccount(r) \/ EnsureAccount(r)
       \/ \E t \in TokenIds : Register(r, t) \/ Login(r, t) \/ Refresh(r, t)
       \/ \E t \in TokenIds : ReadToken(r, t) \/ Logout(r, t) \/ RevokeSession(r, t)
       \/ ReadOwner(r)
       \/ \E a \in access : Authenticate(r, a)
       \/ LogoutAll(r)
       \/ \E p \in Passwords : ChangePassword(r, p) \/ WrongPassword(r, p)
       \/ Crash(r)
  \/ \E t \in TokenIds : Expire(t)

Spec == Init /\ [][Next]_vars

-----------------------------------------------------------------------------
(* What holds *)

\* Rotation is single-use: a family has at most one session that can go on,
\* unless two requests had read the same token before either rotated it
\* (service.py refresh(): nothing locks the row between the read and the update).
OneSessionPerFamily ==
  \A s, t \in issued :
    family[s] = family[t] /\ Active(s) /\ Active(t) /\ family[s] \notin raced => s = t

\* A password change or a logout-all ends every session whose login came before
\* it, however often it was rotated since, unless a login or a refresh was in
\* flight when the change was committed (change_password(), logout_all()).
CutEndsSessions ==
  \A t \in issued :
    since[family[t]] < cuts[owner[t]] /\ family[t] \notin overlapped => t \in revoked

\* An access token from before a password change is no longer accepted, unless
\* two changes of the user overlapped: both count from the same token_version.
ChangeEndsAccess ==
  \A a \in access :
    Authenticates(a) /\ a.changes < changes[a.user] => a.user \in lostBump

\* What GET /auth/sessions calls active is exactly what POST /auth/refresh takes.
ActiveIsRefreshable == \A t \in issued : Active(t) <=> Refreshable(t)

\* Only the first registrations of a system can fail over the platform account:
\* once it exists, a registration is refused for its e-mail address alone.
OnlyFirstCollide ==
  [][\A r \in Requests :
       request[r].pc # "idle" /\ request'[r].error = "collided" => ~request[r].late]_vars

\* docs/architecture.md, "Refresh rotation is single-use. If an already-used or
\* revoked refresh token is presented, the service revokes the whole token family".
ReuseRevokesFamily ==
  [][\A r \in Requests, t \in TokenIds :
       ReadToken(r, t) /\ (t \in revoked \/ replacedBy[t] # None)
         => \A s \in issued : family[s] = family[t] => s \in revoked']_vars

=============================================================================
