---------------------------- MODULE IdentityProofs ----------------------------
(***************************************************************************)
(* Proofs about Identity, for any users, tokens and concurrent requests:   *)
(* what a refresh token, an access token and an error answer are worth      *)
(* whatever other requests commit between the reads of one and its commit. *)
(***************************************************************************)
EXTENDS Identity, TLAPS

Registering(q) == q.pc \in {"user_inserted", "account_read", "account_inserted"}
Rotating(q) == q.pc \in {"token_read", "user_read"}

(* The login of a family came after the last cut of a user, or a request was  *)
(* in flight during that cut.                                                *)
Spared(f, e) == since[f] < cuts[e] => f \in overlapped

(* What a request has read, and what of it is still true when it commits.    *)
RequestStands(r) ==
  LET q == request[r] IN
  /\ q.pc # "idle" => q.error = "none" /\ q.email \in Emails
  /\ Registering(q) => version[q.email] = 0 /\ (q.late => Platform \in accounts)
  /\ q.pc = "account_read" /\ q.late => q.seen
  /\ q.pc \in {"credentials_read", "authenticated"} => version[q.email] > 0
  /\ q.pc \in {"credentials_read", "user_read"} =>
       q.version > 0 /\ (q.email \notin lostBump => q.version = q.changes + 1)
  /\ Rotating(q) =>
       /\ q.token \in issued /\ owner[q.token] = q.email /\ q.unspent
       /\ Spared(family[q.token], q.email)

EmailsApart ==
  \A r, s \in Requests :
    Registering(request[r]) /\ Registering(request[s]) /\ request[r].email = request[s].email
      => r = s

(* A refresh_token row is of a user and in a family that begins with a row,   *)
(* and is used exactly when it has a successor.                              *)
TokensStand ==
  /\ \A t \in TokenIds \ issued : replacedBy[t] = None
  /\ \A t \in issued :
       /\ owner[t] \in Emails /\ version[owner[t]] > 0
       /\ family[t] \in issued
       /\ t \in used <=> replacedBy[t] # None

(* One row of a family has no successor, unless the family was raced.        *)
OneIsLast ==
  \A s, t \in issued :
    /\ family[s] = family[t] /\ family[s] \notin raced
    /\ replacedBy[s] = None /\ replacedBy[t] = None
    => s = t

(* token_version counts the password changes, and so does an access token,    *)
(* unless two changes of the user overlapped.                                *)
VersionsStand ==
  /\ \A e \in Emails :
       /\ version[e] = 0 => changes[e] = 0 /\ cuts[e] = 0
       /\ version[e] > 0 /\ e \notin lostBump => version[e] = changes[e] + 1
  /\ \A a \in access : a.user \notin lostBump => a.version = a.changes + 1

IInv ==
  /\ TypeOK
  /\ \A r \in Requests : RequestStands(r)
  /\ EmailsApart
  /\ TokensStand
  /\ OneIsLast
  /\ VersionsStand
  /\ CutEndsSessions

-----------------------------------------------------------------------------
LEMMA InitIInv == Init => IInv
<1> SUFFICES ASSUME Init PROVE IInv
  OBVIOUS
<1>1. TypeOK
  BY DEF Init, TypeOK, Idle, PcValues, Errors
<1>2. ASSUME NEW r \in Requests PROVE RequestStands(r)
  BY DEF Init, RequestStands, Idle, Registering, Rotating
<1>3. EmailsApart
  BY DEF Init, EmailsApart, Idle, Registering
<1>4. TokensStand /\ OneIsLast /\ VersionsStand /\ CutEndsSessions
  BY DEF Init, TokensStand, OneIsLast, VersionsStand, CutEndsSessions
<1>5. QED
  BY <1>1, <1>2, <1>3, <1>4 DEF IInv

(* What a request has read is not taken from it by what others commit.       *)
LEMMA OthersStand ==
  ASSUME IInv, NEW r \in Requests, request'[r] = request[r],
         \A e \in Emails : version[e] > 0 => version'[e] > 0,
         Registering(request[r]) => version'[request[r].email] = version[request[r].email],
         issued \subseteq issued',
         \A t \in issued :
           owner'[t] = owner[t] /\ family'[t] = family[t] /\ since'[t] = since[t],
         lostBump \subseteq lostBump',
         overlapped \subseteq overlapped',
         Platform \in accounts => Platform \in accounts',
         Rotating(request[r]) =>
           \/ cuts'[request[r].email] = cuts[request[r].email]
           \/ family[request[r].token] \in overlapped'
  PROVE  RequestStands(r)'
<1>1. RequestStands(r)
  BY DEF IInv
<1>2. Rotating(request[r]) => Spared(family[request[r].token], request[r].email)'
  BY <1>1 DEF RequestStands, Spared, IInv, TokensStand
<1>3. QED
  BY <1>1, <1>2 DEF RequestStands, Registering, Rotating, IInv, TokensStand

(* A request that only reads, answers or dies.                              *)
LEMMA ReadStep ==
  ASSUME IInv, NEW r \in Requests, UNCHANGED <<users, tokens, access, history>>,
         TypeOK',
         \A s \in Requests \ {r} : request'[s] = request[s],
         RequestStands(r)',
         Registering(request'[r]) =>
           \/ Registering(request[r]) /\ request[r].email = request'[r].email
           \/ ~EmailHeld(request'[r].email)
  PROVE  IInv'
<1>1. ASSUME NEW s \in Requests PROVE RequestStands(s)'
  <2>1. CASE s = r
    BY <2>1
  <2>2. CASE s # r
    BY <2>2, OthersStand DEF users, tokens, history, IInv
  <2>3. QED
    BY <2>1, <2>2
<1>2. EmailsApart'
  BY DEF IInv, EmailsApart, EmailHeld, Registering
<1>3. TokensStand' /\ OneIsLast' /\ VersionsStand' /\ CutEndsSessions'
  BY DEF IInv, TokensStand, OneIsLast, VersionsStand, CutEndsSessions, users, tokens, history
<1>4. QED
  BY <1>1, <1>2, <1>3 DEF IInv

-----------------------------------------------------------------------------
(* The steps that change no row.                                            *)

RequestRow ==
  [pc : PcValues, error : Errors, email : Emails \cup {None},
   password : Passwords \cup {None}, version : Nat, changes : Nat,
   cuts : Nat, token : TokenIds \cup {None}, seen : BOOLEAN,
   late : BOOLEAN, unspent : BOOLEAN]

LEMMA TypeStep ==
  ASSUME TypeOK, NEW r \in Requests, NEW row \in RequestRow,
         request' = [request EXCEPT ![r] = row],
         UNCHANGED <<users, tokens, access, history>>
  PROVE  /\ TypeOK'
         /\ request'[r] = row
         /\ \A s \in Requests \ {r} : request'[s] = request[s]
  BY DEF TypeOK, RequestRow, users, tokens, history

LEMMA LookRows ==
  ASSUME NEW look \in BOOLEAN
  PROVE  /\ \A e \in Emails, p \in Passwords :
              [Idle EXCEPT !.pc = "user_inserted", !.email = e, !.password = p, !.late = look]
                \in RequestRow
         /\ \A row \in RequestRow :
              [row EXCEPT !.pc = "account_read", !.seen = look] \in RequestRow
  BY DEF Idle, PcValues, Errors, RequestRow

LEMMA ReadTypes ==
  ASSUME TypeOK
  PROVE  /\ \A r \in Requests : request[r] \in RequestRow
         /\ request \in [Requests -> RequestRow]
         /\ \A e \in Emails :
              version[e] \in Nat /\ changes[e] \in Nat /\ cuts[e] \in Nat
              /\ password[e] \in Passwords \cup {None}
         /\ \A t \in TokenIds : owner[t] \in Emails \cup {None}
  BY DEF TypeOK, RequestRow

LEMMA AnswerRows ==
  /\ Idle \in RequestRow /\ Idle.pc = "idle"
  /\ \A error \in Errors :
       LET row == [Idle EXCEPT !.error = error] IN row \in RequestRow /\ row.pc = "idle"
  BY DEF Idle, PcValues, Errors, RequestRow

(* The request ends here, with an answer or without one.                    *)
LEMMA EndedIInv ==
  ASSUME IInv, NEW r \in Requests, NEW row \in RequestRow, row.pc = "idle",
         request' = [request EXCEPT ![r] = row],
         UNCHANGED <<users, tokens, access, history>>
  PROVE  IInv'
<1>1. TypeOK' /\ request'[r] = row /\ \A s \in Requests \ {r} : request'[s] = request[s]
  BY TypeStep DEF IInv
<1>2. RequestStands(r)' /\ ~Registering(request'[r])
  BY <1>1 DEF RequestStands, Registering, Rotating
<1>3. QED
  BY <1>1, <1>2, ReadStep

LEMMA InsertUserIInv ==
  ASSUME IInv, NEW r \in Requests, NEW e \in Emails, NEW p \in Passwords, InsertUser(r, e, p)
  PROVE  IInv'
<1> DEFINE q == [Idle EXCEPT !.pc = "user_inserted", !.email = e, !.password = p,
                             !.late = Platform \in accounts]
<1>1. /\ request' = [request EXCEPT ![r] = q]
      /\ UNCHANGED <<users, tokens, access, history>>
      /\ ~EmailHeld(e) /\ ~Registered(e)
  BY DEF InsertUser, Begin
<1>2. /\ q \in RequestRow
      /\ q.pc = "user_inserted" /\ q.error = "none" /\ q.email = e
      /\ q.late => Platform \in accounts
  <2>1. q \in RequestRow
    <3>1. (Platform \in accounts) \in BOOLEAN
      OBVIOUS
    <3>2. QED
      BY <3>1, LookRows
  <2>2. q.late => Platform \in accounts
    BY DEF Idle
  <2>3. QED
    BY <2>1, <2>2 DEF Idle
<1> HIDE DEF q
<1>3. request'[r] = q
  BY <1>1 DEF IInv, TypeOK
<1>4. version[e] = 0
  BY <1>1 DEF IInv, TypeOK, Registered
<1>5. RequestStands(r)'
  BY <1>1, <1>2, <1>3, <1>4 DEF RequestStands, Registering, Rotating, users
<1>6. TypeOK'
  BY <1>1, <1>2, TypeStep DEF IInv
<1>7. QED
  BY <1>1, <1>2, <1>3, <1>5, <1>6, ReadStep DEF IInv, TypeOK

LEMMA FindAccountIInv ==
  ASSUME IInv, NEW r \in Requests, FindAccount(r)
  PROVE  IInv'
<1>1. /\ request[r].pc = "user_inserted"
      /\ request' = [request EXCEPT ![r].pc = "account_read", ![r].seen = Platform \in accounts]
      /\ UNCHANGED <<users, tokens, access, history>>
  BY DEF FindAccount
<1>2. /\ request'[r].pc = "account_read" /\ request'[r].seen = (Platform \in accounts)
      /\ request'[r].email = request[r].email /\ request'[r].error = request[r].error
      /\ request'[r].late = request[r].late
  BY <1>1 DEF IInv, TypeOK
<1>3. TypeOK'
  <2>1. request \in [Requests -> RequestRow]
    BY ReadTypes DEF IInv
  <2>2. request' = [request EXCEPT ![r] =
                     [request[r] EXCEPT !.pc = "account_read", !.seen = Platform \in accounts]]
    BY <1>1, <2>1 DEF RequestRow
  <2>3. (Platform \in accounts) \in BOOLEAN
    OBVIOUS
  <2>4. [request[r] EXCEPT !.pc = "account_read", !.seen = Platform \in accounts] \in RequestRow
    BY <2>1, <2>3, LookRows
  <2>5. QED
    BY <1>1, <2>2, <2>4, TypeStep DEF IInv
<1>4. RequestStands(r)
  BY DEF IInv
<1>5. RequestStands(r)'
  BY <1>1, <1>2, <1>4 DEF RequestStands, Registering, Rotating, users
<1>6. QED
  BY <1>1, <1>2, <1>3, <1>5, ReadStep DEF IInv, TypeOK, Registering

LEMMA EnsureAccountIInv ==
  ASSUME IInv, NEW r \in Requests, EnsureAccount(r)
  PROVE  IInv'
<1>1. UNCHANGED <<users, tokens, access, history>>
  BY DEF EnsureAccount
<1>2. CASE Fail(r, "collided")
  BY <1>1, <1>2, EndedIInv, AnswerRows DEF Fail, Errors
<1>3. CASE request' = [request EXCEPT ![r].pc = "account_inserted"]
  <2>1. request[r].pc = "account_read"
    BY DEF EnsureAccount
  <2>2. /\ request'[r].pc = "account_inserted"
        /\ request'[r].email = request[r].email /\ request'[r].error = request[r].error
        /\ request'[r].late = request[r].late
    BY <1>3 DEF IInv, TypeOK
  <2>3. TypeOK'
    <3>1. [request[r] EXCEPT !.pc = "account_inserted"] \in RequestRow
      BY ReadTypes DEF IInv, RequestRow, PcValues
    <3>2. QED
      BY <1>1, <1>3, <3>1, TypeStep DEF IInv
  <2>4. RequestStands(r)
    BY DEF IInv
  <2>5. RequestStands(r)'
    BY <1>1, <2>1, <2>2, <2>4 DEF RequestStands, Registering, Rotating, users
  <2>6. QED
    BY <1>1, <1>3, <2>1, <2>2, <2>3, <2>5, ReadStep DEF IInv, TypeOK, Registering
<1>4. QED
  BY <1>2, <1>3 DEF EnsureAccount

LEMMA ReadCredentialsIInv ==
  ASSUME IInv, NEW r \in Requests, NEW e \in Emails, NEW p \in Passwords,
         ReadCredentials(r, e, p)
  PROVE  IInv'
<1> DEFINE q == [Idle EXCEPT !.pc = "credentials_read", !.email = e, !.version = version[e],
                             !.changes = changes[e], !.cuts = cuts[e]]
<1>1. UNCHANGED <<users, tokens, access, history>>
  BY DEF ReadCredentials
<1>2. CASE request' = [request EXCEPT ![r] = [Idle EXCEPT !.error = "refused"]]
  BY <1>1, <1>2, EndedIInv, AnswerRows DEF Errors
<1>3. CASE Registered(e) /\ request' = [request EXCEPT ![r] = q]
  <2>1. q \in RequestRow
        /\ q.pc = "credentials_read" /\ q.error = "none" /\ q.email = e
        /\ q.version = version[e] /\ q.changes = changes[e]
    BY ReadTypes DEF RequestRow, Idle, PcValues, Errors, IInv
  <2>2. request'[r] = q
    BY <1>3 DEF IInv, TypeOK
  <2>3. version[e] > 0 /\ (e \notin lostBump => version[e] = changes[e] + 1)
    BY <1>3 DEF IInv, VersionsStand, Registered
  <2>4. RequestStands(r)'
    BY <1>1, <2>1, <2>2, <2>3 DEF RequestStands, Registering, Rotating, users, history
  <2>5. TypeOK'
    BY <1>1, <1>3, <2>1, TypeStep DEF IInv
  <2>6. QED
    BY <1>1, <1>3, <2>1, <2>2, <2>4, <2>5, ReadStep DEF IInv, TypeOK, Registering
<1>4. QED
  BY <1>2, <1>3 DEF ReadCredentials, Begin

LEMMA ReadTokenIInv ==
  ASSUME IInv, NEW r \in Requests, NEW t \in TokenIds, ReadToken(r, t)
  PROVE  IInv'
<1> DEFINE q == [Idle EXCEPT !.pc = "token_read", !.token = t, !.email = owner[t],
                             !.unspent = replacedBy[t] = None]
<1>1. UNCHANGED <<users, tokens, access, history>> /\ t \in issued
  BY DEF ReadToken, tokens, RolledBack
<1>2. CASE request' = [request EXCEPT ![r] = [Idle EXCEPT !.error = "refused"]]
  BY <1>1, <1>2, EndedIInv, AnswerRows DEF Errors
<1>3. CASE Refreshable(t) /\ request' = [request EXCEPT ![r] = q]
  <2>1. q \in RequestRow
        /\ q.pc = "token_read" /\ q.error = "none" /\ q.email = owner[t]
        /\ q.token = t /\ q.unspent = (replacedBy[t] = None)
    BY ReadTypes DEF RequestRow, Idle, PcValues, Errors, IInv
  <2>2. request'[r] = q
    BY <1>3 DEF IInv, TypeOK
  <2>3. owner[t] \in Emails /\ family[t] \in issued /\ replacedBy[t] = None
        /\ Spared(family[t], owner[t])
    BY <1>1, <1>3 DEF IInv, TypeOK, TokensStand, CutEndsSessions, Refreshable, Spared
  <2>4. RequestStands(r)'
    BY <1>1, <2>1, <2>2, <2>3 DEF RequestStands, Registering, Rotating, Spared, tokens, history
  <2>5. TypeOK'
    BY <1>1, <1>3, <2>1, TypeStep DEF IInv
  <2>6. QED
    BY <1>1, <1>3, <2>1, <2>2, <2>4, <2>5, ReadStep DEF IInv, TypeOK, Registering
<1>4. QED
  BY <1>2, <1>3 DEF ReadToken, Begin

LEMMA ReadOwnerIInv ==
  ASSUME IInv, NEW r \in Requests, ReadOwner(r)
  PROVE  IInv'
<1>1. PICK e : /\ e = request[r].email
               /\ request[r].pc = "token_read"
               /\ request' = [request EXCEPT ![r].pc = "user_read", ![r].version = version[e],
                                             ![r].changes = changes[e]]
               /\ UNCHANGED <<users, tokens, access, history>>
  BY DEF ReadOwner
<1>2. /\ request'[r].pc = "user_read" /\ request'[r].version = version[e]
      /\ request'[r].changes = changes[e]
      /\ request'[r].email = e /\ request'[r].error = request[r].error
      /\ request'[r].token = request[r].token /\ request'[r].unspent = request[r].unspent
  BY <1>1 DEF IInv, TypeOK
<1>3. RequestStands(r)
  BY DEF IInv
<1>4. e \in Emails /\ version[e] > 0 /\ (e \notin lostBump => version[e] = changes[e] + 1)
  BY <1>1, <1>3 DEF IInv, RequestStands, Rotating, TokensStand, VersionsStand
<1>5. TypeOK'
  <2>1. version[e] \in Nat /\ changes[e] \in Nat /\ request \in [Requests -> RequestRow]
    BY <1>4, ReadTypes DEF IInv
  <2>2. request' = [request EXCEPT ![r] =
                     [request[r] EXCEPT !.pc = "user_read", !.version = version[e],
                                        !.changes = changes[e]]]
    BY <1>1, <2>1 DEF RequestRow
  <2>3. [request[r] EXCEPT !.pc = "user_read", !.version = version[e], !.changes = changes[e]]
          \in RequestRow
    <3>1. request[r] \in RequestRow
      BY <2>1
    <3>2. QED
      BY <2>1, <3>1 DEF RequestRow, PcValues
  <2>4. QED
    BY <1>1, <2>2, <2>3, TypeStep DEF IInv
<1>6. RequestStands(r)'
  BY <1>1, <1>2, <1>3, <1>4
  DEF RequestStands, Registering, Rotating, Spared, users, tokens, history
<1>7. QED
  BY <1>1, <1>2, <1>5, <1>6, ReadStep DEF IInv, TypeOK, Registering

LEMMA AuthenticateIInv ==
  ASSUME IInv, NEW r \in Requests, NEW a \in access, Authenticate(r, a)
  PROVE  IInv'
<1> DEFINE e == a.user
<1> DEFINE q == [Idle EXCEPT !.pc = "authenticated", !.email = e,
                             !.password = password[e], !.version = version[e]]
<1>1. UNCHANGED <<users, tokens, access, history>>
  BY DEF Authenticate
<1>2. CASE request' = [request EXCEPT ![r] = [Idle EXCEPT !.error = "refused"]]
  BY <1>1, <1>2, EndedIInv, AnswerRows DEF Errors
<1>3. CASE Authenticates(a) /\ request' = [request EXCEPT ![r] = q]
  <2>1. e \in Emails /\ version[e] \in Nat \ {0} /\ password[e] \in Passwords \cup {None}
    BY <1>3, ReadTypes DEF IInv, TypeOK, AccessToken, Authenticates
  <2>2. q \in RequestRow
        /\ q.pc = "authenticated" /\ q.error = "none" /\ q.email = e
    BY <2>1 DEF RequestRow, Idle, PcValues, Errors
  <2>3. request'[r] = q
    BY <1>3 DEF IInv, TypeOK
  <2>4. RequestStands(r)'
    BY <1>1, <2>1, <2>2, <2>3 DEF RequestStands, Registering, Rotating, users
  <2>5. TypeOK'
    BY <1>1, <1>3, <2>2, TypeStep DEF IInv
  <2>6. QED
    BY <1>1, <1>3, <2>2, <2>3, <2>4, <2>5, ReadStep DEF IInv, TypeOK, Registering
<1>4. QED
  BY <1>2, <1>3 DEF Authenticate, Begin

-----------------------------------------------------------------------------
(* The steps that commit.                                                   *)

(* The request that commits is over, and the others still stand on what they  *)
(* have read.                                                                *)
LEMMA CommitStep ==
  ASSUME IInv,
         request' \in [Requests -> RequestRow],
         \A s \in Requests : request'[s] = request[s] \/ request'[s].pc = "idle",
         \A e \in Emails : version[e] > 0 => version'[e] > 0,
         \A s \in Requests :
           Registering(request[s]) /\ request'[s] = request[s]
             => version'[request[s].email] = version[request[s].email],
         issued \subseteq issued',
         \A t \in issued :
           owner'[t] = owner[t] /\ family'[t] = family[t] /\ since'[t] = since[t],
         lostBump \subseteq lostBump',
         overlapped \subseteq overlapped',
         Platform \in accounts => Platform \in accounts',
         \A s \in Requests :
           Rotating(request[s]) =>
             \/ cuts'[request[s].email] = cuts[request[s].email]
             \/ family[request[s].token] \in overlapped'
  PROVE  (\A s \in Requests : RequestStands(s)') /\ EmailsApart'
<1>1. ASSUME NEW s \in Requests PROVE RequestStands(s)'
  <2>1. CASE request'[s].pc = "idle"
    BY <2>1 DEF RequestStands, Registering, Rotating
  <2>2. CASE request'[s] = request[s]
    BY <2>2, OthersStand
  <2>3. QED
    BY <2>1, <2>2
<1>2. EmailsApart'
  BY DEF IInv, EmailsApart, Registering
<1>3. QED
  BY <1>1, <1>2

LEMMA Over ==
  ASSUME TypeOK, NEW r \in Requests, request' = [request EXCEPT ![r] = Idle]
  PROVE  /\ request' \in [Requests -> RequestRow]
         /\ \A s \in Requests : request'[s] = request[s] \/ request'[s].pc = "idle"
         /\ request'[r].pc = "idle"
         /\ \A s \in Requests \ {r} : request'[s] = request[s]
  BY ReadTypes, AnswerRows

(* Rows are revoked or expire, and nothing else happens to them.             *)
LEMMA RevokeIInv ==
  ASSUME IInv,
         request' \in [Requests -> RequestRow],
         \A s \in Requests : request'[s] = request[s] \/ request'[s].pc = "idle",
         revoked \subseteq revoked', revoked' \subseteq issued, expired' \subseteq issued,
         UNCHANGED <<users, issued, owner, family, replacedBy, used, access, history>>
  PROVE  IInv'
<1> USE DEF users, history
<1>1. TypeOK'
  BY DEF IInv, TypeOK, RequestRow
<1>2. (\A s \in Requests : RequestStands(s)') /\ EmailsApart'
  BY CommitStep
<1>3. TokensStand' /\ OneIsLast' /\ VersionsStand' /\ CutEndsSessions'
  BY DEF IInv, TokensStand, OneIsLast, VersionsStand, CutEndsSessions
<1>4. QED
  BY <1>1, <1>2, <1>3 DEF IInv

LEMMA LogoutIInv ==
  ASSUME IInv, NEW r \in Requests, NEW t \in TokenIds, Logout(r, t)
  PROVE  IInv'
  BY RevokeIInv, Over DEF Logout, Begin, IInv, TypeOK

LEMMA RevokeSessionIInv ==
  ASSUME IInv, NEW r \in Requests, NEW t \in TokenIds, RevokeSession(r, t)
  PROVE  IInv'
  BY RevokeIInv, Over DEF RevokeSession, RevokeById, Succeed, IInv, TypeOK

LEMMA ExpireIInv ==
  ASSUME IInv, NEW t \in TokenIds, Expire(t)
  PROVE  IInv'
<1>1. request' \in [Requests -> RequestRow] /\ revoked' = revoked /\ expired' \subseteq issued
      /\ revoked \subseteq issued
  BY ReadTypes DEF Expire, IInv, TypeOK
<1>2. QED
  BY <1>1, RevokeIInv DEF Expire

(* A cut revokes every row there is of the user, and marks the families whose *)
(* next row may yet be committed.                                            *)
LEMMA CutIInv ==
  ASSUME IInv, NEW r \in Requests, NEW e \in Emails, version[e] > 0,
         CutSessions(e), Succeed(r),
         TypeOK',
         \A d \in Emails : version[d] > 0 => version'[d] > 0,
         \A d \in Emails \ {e} : version'[d] = version[d],
         lostBump \subseteq lostBump',
         VersionsStand',
         UNCHANGED <<member, accounts, issued, owner, family, replacedBy, used, expired,
                     access, since, raced>>
  PROVE  IInv'
<1>1. /\ overlapped \subseteq overlapped'
      /\ \A d \in Emails \ {e} : cuts'[d] = cuts[d]
      /\ \A t \in issued : owner[t] = e => t \in revoked'
      /\ revoked \subseteq revoked'
  BY DEF CutSessions, RevokeUser, IInv, TypeOK
<1>2. ASSUME NEW s \in Requests, Rotating(request[s])
      PROVE  \/ cuts'[request[s].email] = cuts[request[s].email]
             \/ family[request[s].token] \in overlapped'
  <2>1. request[s].email \in Emails
    BY <1>2 DEF IInv, RequestStands, Rotating
  <2>2. CASE request[s].email = e
    BY <1>2, <2>2 DEF CutSessions, Rotating
  <2>3. CASE request[s].email # e
    BY <1>1, <2>1, <2>3
  <2>4. QED
    BY <2>2, <2>3
<1>3. ASSUME NEW s \in Requests, Registering(request[s])
      PROVE  version'[request[s].email] = version[request[s].email]
  <2>1. request[s].email \in Emails /\ version[request[s].email] = 0
    BY <1>3 DEF IInv, RequestStands, Registering
  <2>2. QED
    BY <2>1
<1>4. (\A s \in Requests : RequestStands(s)') /\ EmailsApart'
  BY <1>1, <1>2, <1>3, CommitStep, Over DEF Succeed, IInv
<1>5. TokensStand' /\ OneIsLast'
  BY DEF IInv, TokensStand, OneIsLast
<1>6. CutEndsSessions'
  BY <1>1 DEF IInv, CutEndsSessions, TokensStand
<1>7. QED
  BY <1>4, <1>5, <1>6 DEF IInv

LEMMA CutTypes ==
  ASSUME TypeOK, NEW r \in Requests, NEW e \in Emails, CutSessions(e), Succeed(r),
         \A q \in Requests : Rotating(request[q]) => family[request[q].token] \in TokenIds
  PROVE  /\ revoked' \subseteq issued
         /\ cuts' \in [Emails -> Nat]
         /\ cuts'[e] = cuts[e] + 1 /\ \A d \in Emails \ {e} : cuts'[d] = cuts[d]
         /\ overlapped' \subseteq TokenIds
         /\ request' \in [Requests -> RequestRow]
<1>1. overlapped' \subseteq TokenIds
  BY DEF CutSessions, TypeOK, Rotating
<1>2. request' \in [Requests -> RequestRow]
  BY Over DEF Succeed
<1>3. QED
  BY <1>1, <1>2 DEF CutSessions, RevokeUser, TypeOK

LEMMA LogoutAllIInv ==
  ASSUME IInv, NEW r \in Requests, LogoutAll(r)
  PROVE  IInv'
<1>1. PICK e : /\ e = request[r].email
               /\ request[r].pc = "authenticated"
               /\ CutSessions(e) /\ Succeed(r)
               /\ UNCHANGED <<users, issued, owner, family, replacedBy, used, expired, access,
                              changes, since, raced, lostBump>>
  BY DEF LogoutAll
<1>2. e \in Emails /\ version[e] > 0
  BY <1>1 DEF IInv, RequestStands
<1>3. \A q \in Requests : Rotating(request[q]) => family[request[q].token] \in TokenIds
  BY DEF IInv, TypeOK, RequestStands, TokensStand
<1>4. TypeOK'
  BY <1>1, <1>2, <1>3, CutTypes DEF IInv, TypeOK, RequestRow, users
<1>5. VersionsStand'
  <2>1. VersionsStand /\ \A d \in Emails : d # e => cuts'[d] = cuts[d]
    BY <1>1, <1>2, <1>3, CutTypes DEF IInv
  <2>2. QED
    BY <1>1, <1>2, <2>1 DEF VersionsStand, users
<1>6. QED
  BY <1>1, <1>2, <1>4, <1>5, CutIInv DEF users

LEMMA ChangePasswordIInv ==
  ASSUME IInv, NEW r \in Requests, NEW p \in Passwords, ChangePassword(r, p)
  PROVE  IInv'
<1>1. PICK e : /\ e = request[r].email
               /\ request[r].pc = "authenticated"
               /\ version' = [version EXCEPT ![e] = request[r].version + 1]
               /\ password' = [password EXCEPT ![e] = p]
               /\ CutSessions(e) /\ Succeed(r)
               /\ changes' = [changes EXCEPT ![e] = @ + 1]
               /\ lostBump' = IF version[e] = request[r].version THEN lostBump
                              ELSE lostBump \cup {e}
               /\ UNCHANGED <<member, accounts, issued, owner, family, replacedBy, used, expired,
                              access, since, raced>>
  BY DEF ChangePassword
<1>2. e \in Emails /\ version[e] > 0 /\ request[r].version \in Nat
  BY <1>1, ReadTypes DEF IInv, RequestStands, RequestRow
<1>3. \A q \in Requests : Rotating(request[q]) => family[request[q].token] \in TokenIds
  BY DEF IInv, TypeOK, RequestStands, TokensStand
<1>4. /\ version' \in [Emails -> Nat] /\ changes' \in [Emails -> Nat]
      /\ password' \in [Emails -> Passwords \cup {None}]
      /\ lostBump \subseteq lostBump' /\ lostBump' \subseteq Emails
      /\ version'[e] = request[r].version + 1 /\ changes'[e] = changes[e] + 1
      /\ \A d \in Emails \ {e} : version'[d] = version[d] /\ changes'[d] = changes[d]
  BY <1>1, <1>2 DEF IInv, TypeOK
<1>5. TypeOK'
  BY <1>1, <1>2, <1>3, <1>4, CutTypes DEF IInv, TypeOK, RequestRow
<1>6. VersionsStand'
  <2>1. VersionsStand /\ \A d \in Emails : d # e => cuts'[d] = cuts[d]
    BY <1>1, <1>2, <1>3, CutTypes DEF IInv
  <2>2. ASSUME e \notin lostBump'
        PROVE  version'[e] = changes'[e] + 1 /\ version[e] = request[r].version
    BY <1>1, <1>2, <1>4, <2>1, <2>2 DEF VersionsStand
  <2>3. version[e] \in Nat /\ version'[e] # 0
    BY <1>2, <1>4, ReadTypes DEF IInv
  <2>4. QED
    BY <1>1, <1>2, <1>4, <2>1, <2>2, <2>3 DEF VersionsStand
<1>7. QED
  BY <1>1, <1>2, <1>4, <1>5, <1>6, CutIInv

-----------------------------------------------------------------------------
(* A pair of tokens is issued: every row that was there stays.               *)
LEMMA Issued ==
  ASSUME IInv, NEW r \in Requests, NEW e \in Emails, NEW n, NEW f \in TokenIds,
         NEW v \in Nat \ {0}, NEW c \in Nat,
         IssuePair(e, n, f, v, c), Succeed(r)
  PROVE  /\ n \in TokenIds /\ n \notin issued
         /\ issued' = issued \cup {n} /\ issued' \subseteq TokenIds
         /\ owner' \in [TokenIds -> Emails \cup {None}]
         /\ family' \in [TokenIds -> TokenIds \cup {None}]
         /\ access' \subseteq AccessToken
         /\ access' = access \cup {[user |-> e, version |-> v, changes |-> c]}
         /\ owner'[n] = e /\ family'[n] = f
         /\ \A t \in issued : owner'[t] = owner[t] /\ family'[t] = family[t]
         /\ request' \in [Requests -> RequestRow]
         /\ \A s \in Requests : request'[s] = request[s] \/ request'[s].pc = "idle"
         /\ request'[r].pc = "idle"
         /\ \A s \in Requests \ {r} : request'[s] = request[s]
<1>1. /\ request' \in [Requests -> RequestRow]
      /\ \A s \in Requests : request'[s] = request[s] \/ request'[s].pc = "idle"
      /\ request'[r].pc = "idle"
      /\ \A s \in Requests \ {r} : request'[s] = request[s]
  BY Over DEF Succeed, IInv
<1>2. [user |-> e, version |-> v, changes |-> c] \in AccessToken
  BY DEF AccessToken
<1>3. QED
  BY <1>1, <1>2 DEF IssuePair, IInv, TypeOK

(* A new family has one row, which no other family has.                      *)
LEMMA NewFamily ==
  ASSUME IInv, NEW n \in TokenIds, n \notin issued, NEW e \in Emails,
         issued' = issued \cup {n},
         owner'[n] = e, family'[n] = n, version'[e] > 0,
         \A t \in issued : owner'[t] = owner[t] /\ family'[t] = family[t] /\ since'[t] = since[t],
         \A d \in Emails : version[d] > 0 => version'[d] > 0,
         overlapped \subseteq overlapped',
         Spared(n, e)',
         UNCHANGED <<replacedBy, used, revoked, raced, cuts>>
  PROVE  TokensStand' /\ OneIsLast' /\ CutEndsSessions'
<1>1. n \notin used /\ replacedBy[n] = None
  BY DEF IInv, TypeOK, TokensStand
<1>2. TokensStand'
  BY <1>1 DEF IInv, TokensStand
<1>3. OneIsLast'
  BY DEF IInv, OneIsLast, TokensStand
<1>4. ASSUME NEW t \in issued', since'[family'[t]] < cuts'[owner'[t]], family'[t] \notin overlapped'
      PROVE  t \in revoked'
  <2>1. CASE t \in issued
    BY <1>4, <2>1 DEF IInv, CutEndsSessions, TokensStand
  <2>2. CASE t = n
    BY <1>4, <2>2 DEF Spared
  <2>3. QED
    BY <2>1, <2>2
<1>5. QED
  BY <1>2, <1>3, <1>4 DEF CutEndsSessions

LEMMA RegisterIInv ==
  ASSUME IInv, NEW r \in Requests, NEW n \in TokenIds, Register(r, n)
  PROVE  IInv'
<1>1. PICK e : /\ e = request[r].email
               /\ request[r].pc = "account_inserted"
               /\ version' = [version EXCEPT ![e] = 1]
               /\ password' = [password EXCEPT ![e] = request[r].password]
               /\ member' = [member EXCEPT ![e] = "clear"]
               /\ accounts' = accounts \cup WalletAccounts(e)
               /\ IssuePair(e, n, n, 1, 0) /\ Succeed(r)
               /\ UNCHANGED <<replacedBy, used, revoked, expired, history>>
  BY DEF Register, EnsureMember, ScreenPerson, Hits
<1>2. e \in Emails /\ version[e] = 0 /\ request[r].password \in Passwords \cup {None}
  BY <1>1, ReadTypes DEF IInv, RequestStands, Registering, RequestRow
<1>3. /\ version' \in [Emails -> Nat] /\ version'[e] = 1
      /\ \A d \in Emails \ {e} : version'[d] = version[d]
  BY <1>1, <1>2 DEF IInv, TypeOK
<1>4. changes[e] = 0 /\ cuts[e] = 0
  BY <1>2 DEF IInv, VersionsStand
<1>5. /\ n \notin issued
      /\ issued' = issued \cup {n} /\ issued' \subseteq TokenIds
      /\ owner' \in [TokenIds -> Emails \cup {None}]
      /\ family' \in [TokenIds -> TokenIds \cup {None}]
      /\ access' \subseteq AccessToken
      /\ access' = access \cup {[user |-> e, version |-> 1, changes |-> 0]}
      /\ owner'[n] = e /\ family'[n] = n
      /\ \A t \in issued : owner'[t] = owner[t] /\ family'[t] = family[t]
      /\ request' \in [Requests -> RequestRow]
      /\ \A s \in Requests : request'[s] = request[s] \/ request'[s].pc = "idle"
      /\ request'[r].pc = "idle"
      /\ \A s \in Requests \ {r} : request'[s] = request[s]
  <2>1. [user |-> e, version |-> 1, changes |-> 0] \in AccessToken
    BY <1>2 DEF AccessToken
  <2>2. /\ request' \in [Requests -> RequestRow]
        /\ \A s \in Requests : request'[s] = request[s] \/ request'[s].pc = "idle"
        /\ request'[r].pc = "idle"
        /\ \A s \in Requests \ {r} : request'[s] = request[s]
    BY <1>1, Over DEF Succeed, IInv
  <2>3. QED
    BY <1>1, <1>2, <2>1, <2>2 DEF IssuePair, IInv, TypeOK
<1>6. TypeOK'
  <2>1. /\ password' \in [Emails -> Passwords \cup {None}]
        /\ member' \in [Emails -> {None, "clear", "review"}]
        /\ accounts' \subseteq {Platform} \cup (Emails \X {"pending", "available"})
    BY <1>1, <1>2 DEF IInv, TypeOK, WalletAccounts
  <2>2. QED
    BY <1>1, <1>3, <1>5, <2>1 DEF IInv, TypeOK, RequestRow, history
<1>7. (\A s \in Requests : RequestStands(s)') /\ EmailsApart'
  <2>1. ASSUME NEW s \in Requests, Registering(request[s]), request'[s] = request[s]
        PROVE  version'[request[s].email] = version[request[s].email]
    <3>1. s # r
      BY <1>5, <2>1 DEF Registering
    <3>2. request[s].email # e
      BY <1>1, <2>1, <3>1 DEF IInv, EmailsApart, Registering
    <3>3. request[s].email \in Emails
      BY <2>1 DEF IInv, RequestStands, Registering
    <3>4. QED
      BY <1>3, <3>2, <3>3
  <2>2. \A d \in Emails : version[d] > 0 => version'[d] > 0
    BY <1>2, <1>3
  <2>3. UNCHANGED <<changes, cuts, since, overlapped, raced, lostBump>> /\ accounts \subseteq accounts'
    BY <1>1 DEF history
  <2>4. QED
    BY <1>5, <2>1, <2>2, <2>3, CommitStep
<1>8. TokensStand' /\ OneIsLast' /\ CutEndsSessions'
  <2>1. Spared(n, e)'
    BY <1>1, <1>4 DEF Spared, history, IInv, TypeOK
  <2>2. \A d \in Emails : version[d] > 0 => version'[d] > 0
    BY <1>2, <1>3
  <2>3. UNCHANGED <<replacedBy, used, revoked, raced, cuts, since, overlapped>>
    BY <1>1 DEF history
  <2>4. QED
    BY <1>2, <1>3, <1>5, <2>1, <2>2, <2>3, NewFamily
<1>9. VersionsStand'
  <2>1. UNCHANGED <<changes, cuts, lostBump>> /\ VersionsStand
    BY <1>1 DEF history, IInv
  <2>2. QED
    BY <1>2, <1>3, <1>4, <1>5, <2>1 DEF VersionsStand
<1>10. QED
  BY <1>6, <1>7, <1>8, <1>9 DEF IInv

LEMMA LoginIInv ==
  ASSUME IInv, NEW r \in Requests, NEW n \in TokenIds, Login(r, n)
  PROVE  IInv'
<1>1. PICK q : /\ q = request[r]
               /\ q.pc = "credentials_read"
               /\ IssuePair(q.email, n, n, q.version, q.changes)
               /\ StartFamily(n, q.email, q.cuts)
               /\ Succeed(r)
               /\ UNCHANGED <<users, replacedBy, used, revoked, expired, changes, cuts, raced,
                              lostBump>>
  BY DEF Login
<1>2. /\ q.email \in Emails /\ version[q.email] > 0
      /\ q.version \in Nat \ {0} /\ q.changes \in Nat /\ q.cuts \in Nat
      /\ q.email \notin lostBump => q.version = q.changes + 1
  BY <1>1, ReadTypes DEF IInv, RequestStands, RequestRow
<1>3. /\ n \notin issued
      /\ issued' = issued \cup {n} /\ issued' \subseteq TokenIds
      /\ owner' \in [TokenIds -> Emails \cup {None}]
      /\ family' \in [TokenIds -> TokenIds \cup {None}]
      /\ access' \subseteq AccessToken
      /\ access' = access \cup {[user |-> q.email, version |-> q.version, changes |-> q.changes]}
      /\ owner'[n] = q.email /\ family'[n] = n
      /\ \A t \in issued : owner'[t] = owner[t] /\ family'[t] = family[t]
      /\ request' \in [Requests -> RequestRow]
      /\ \A s \in Requests : request'[s] = request[s] \/ request'[s].pc = "idle"
  BY <1>1, <1>2, Issued
<1>4. /\ since' \in [TokenIds -> Nat] /\ since'[n] = q.cuts
      /\ \A t \in issued : since'[t] = since[t]
      /\ overlapped \subseteq overlapped' /\ overlapped' \subseteq TokenIds
      /\ q.cuts # cuts[q.email] => n \in overlapped'
  BY <1>1, <1>2, <1>3 DEF StartFamily, IInv, TypeOK
<1>5. TypeOK'
  BY <1>1, <1>3, <1>4 DEF IInv, TypeOK, RequestRow, users
<1>6. (\A s \in Requests : RequestStands(s)') /\ EmailsApart'
  BY <1>1, <1>3, <1>4, CommitStep DEF users
<1>7. TokensStand' /\ OneIsLast' /\ CutEndsSessions'
  <2>1. cuts' = cuts /\ cuts[q.email] \in Nat
    BY <1>1, <1>2, ReadTypes DEF IInv
  <2>2. Spared(n, q.email)'
    BY <1>2, <1>4, <2>1 DEF Spared
  <2>3. UNCHANGED <<version, replacedBy, used, revoked, raced, cuts>>
    BY <1>1 DEF users
  <2>4. QED
    BY <1>2, <1>3, <1>4, <2>2, <2>3, NewFamily
<1>8. VersionsStand'
  <2>1. UNCHANGED <<version, changes, cuts, lostBump>> /\ VersionsStand
    BY <1>1 DEF users, IInv
  <2>2. QED
    BY <1>2, <1>3, <2>1 DEF VersionsStand
<1>9. QED
  BY <1>5, <1>6, <1>7, <1>8 DEF IInv

LEMMA RefreshIInv ==
  ASSUME IInv, NEW r \in Requests, NEW n \in TokenIds, Refresh(r, n)
  PROVE  IInv'
<1>1. PICK q : /\ q = request[r]
               /\ q.pc = "user_read"
               /\ IssuePair(q.email, n, family[q.token], q.version, q.changes)
               /\ MarkUsed(q.token, n)
               /\ raced' = IF q.unspent /\ replacedBy[q.token] # None
                           THEN raced \cup {family[q.token]} ELSE raced
               /\ Succeed(r)
               /\ UNCHANGED <<users, revoked, expired, changes, cuts, since, overlapped, lostBump>>
  BY DEF Refresh
<1>2. PICK t, f : t = q.token /\ f = family[t]
  OBVIOUS
<1>3. /\ q.email \in Emails
      /\ q.version \in Nat \ {0} /\ q.changes \in Nat
      /\ q.email \notin lostBump => q.version = q.changes + 1
      /\ t \in issued /\ t \in TokenIds /\ owner[t] = q.email /\ q.unspent
      /\ Spared(f, q.email)
  BY <1>1, <1>2, ReadTypes DEF IInv, RequestStands, RequestRow, Rotating, TypeOK
<1>4. f \in issued /\ f \in TokenIds /\ version[q.email] > 0
  BY <1>2, <1>3 DEF IInv, TokensStand, TypeOK
<1>5. /\ n \notin issued
      /\ issued' = issued \cup {n} /\ issued' \subseteq TokenIds
      /\ owner' \in [TokenIds -> Emails \cup {None}]
      /\ family' \in [TokenIds -> TokenIds \cup {None}]
      /\ access' \subseteq AccessToken
      /\ access' = access \cup {[user |-> q.email, version |-> q.version, changes |-> q.changes]}
      /\ owner'[n] = q.email /\ family'[n] = f
      /\ \A s \in issued : owner'[s] = owner[s] /\ family'[s] = family[s]
      /\ request' \in [Requests -> RequestRow]
      /\ \A s \in Requests : request'[s] = request[s] \/ request'[s].pc = "idle"
  BY <1>1, <1>2, <1>3, <1>4, Issued
<1>6. /\ replacedBy' \in [TokenIds -> TokenIds \cup {None}]
      /\ replacedBy'[t] = n /\ \A s \in TokenIds \ {t} : replacedBy'[s] = replacedBy[s]
      /\ used' = used \cup {t}
      /\ n # None
  BY <1>1, <1>2, <1>3, IdentityAssumption DEF MarkUsed, IInv, TypeOK
<1>7. /\ raced \subseteq raced' /\ raced' \subseteq TokenIds
      /\ replacedBy[t] # None => f \in raced'
  BY <1>1, <1>2, <1>3, <1>4 DEF IInv, TypeOK
<1>8. TypeOK'
  <2>1. used' \cup revoked' \cup expired' \subseteq issued'
    BY <1>1, <1>3, <1>5, <1>6 DEF IInv, TypeOK
  <2>2. QED
    BY <1>1, <1>5, <1>6, <1>7, <2>1 DEF IInv, TypeOK, RequestRow, users
<1>9. (\A s \in Requests : RequestStands(s)') /\ EmailsApart'
  BY <1>1, <1>5, CommitStep DEF users
<1>10. TokensStand'
  <2>1. TokensStand /\ UNCHANGED version /\ n \notin used /\ replacedBy[n] = None
    BY <1>1, <1>5 DEF IInv, users, TypeOK, TokensStand
  <2>2. issued \subseteq TokenIds
    BY DEF IInv, TypeOK
  <2>3. QED
    BY <1>3, <1>4, <1>5, <1>6, <2>1, <2>2 DEF TokensStand
<1>11. OneIsLast'
  <2>1. OneIsLast /\ issued \subseteq TokenIds
    BY DEF IInv, TypeOK
  <2>2. ASSUME NEW s \in issued, family[s] = f, f \notin raced', replacedBy'[s] = None
        PROVE  FALSE
    <3>1. replacedBy[t] = None /\ f \notin raced
      BY <1>7, <2>2
    <3>2. s # t
      BY <1>6, <2>2
    <3>3. replacedBy[s] = None
      BY <1>6, <2>1, <2>2, <3>2
    <3>4. QED
      BY <1>2, <1>3, <2>1, <2>2, <3>1, <3>2, <3>3 DEF OneIsLast
  <2>3. ASSUME NEW s \in issued, NEW u \in issued,
               family[s] = family[u], family[s] \notin raced',
               replacedBy'[s] = None, replacedBy'[u] = None
        PROVE  s = u
    <3>1. replacedBy[s] = None /\ replacedBy[u] = None
      BY <1>6, <2>1, <2>3
    <3>2. QED
      BY <1>7, <2>1, <2>3, <3>1 DEF OneIsLast
  <2>4. QED
    BY <1>5, <2>2, <2>3 DEF OneIsLast
<1>12. CutEndsSessions'
  <2>1. UNCHANGED <<revoked, cuts, since, overlapped>>
    BY <1>1
  <2>2. QED
    BY <1>3, <1>4, <1>5, <2>1 DEF IInv, CutEndsSessions, Spared
<1>13. VersionsStand'
  <2>1. UNCHANGED <<version, changes, cuts, lostBump>> /\ VersionsStand
    BY <1>1 DEF users, IInv
  <2>2. QED
    BY <1>3, <1>5, <2>1 DEF VersionsStand
<1>14. QED
  BY <1>8, <1>9, <1>10, <1>11, <1>12, <1>13 DEF IInv

-----------------------------------------------------------------------------
LEMMA NextIInv == IInv /\ [Next]_vars => IInv'
<1> SUFFICES ASSUME IInv, [Next]_vars PROVE IInv'
  OBVIOUS
<1>1. ASSUME NEW r \in Requests, NEW e \in Emails, EmailTaken(r, e) PROVE IInv'
  BY <1>1, EndedIInv, AnswerRows DEF EmailTaken, Begin, Errors
<1>2. ASSUME NEW r \in Requests, NEW p \in Passwords, WrongPassword(r, p) PROVE IInv'
  BY <1>2, EndedIInv, AnswerRows DEF WrongPassword, Fail, Errors
<1>3. ASSUME NEW r \in Requests, Crash(r) PROVE IInv'
  BY <1>3, EndedIInv, AnswerRows DEF Crash
<1>4. CASE UNCHANGED vars
  BY <1>4 DEF vars, users, tokens, history, IInv, TypeOK, RequestStands, Spared, EmailsApart,
     TokensStand, OneIsLast, VersionsStand, CutEndsSessions
<1>5. QED
  BY <1>1, <1>2, <1>3, <1>4, InsertUserIInv, ReadCredentialsIInv, FindAccountIInv,
     EnsureAccountIInv, RegisterIInv, LoginIInv, RefreshIInv, ReadTokenIInv, LogoutIInv,
     RevokeSessionIInv, ReadOwnerIInv, AuthenticateIInv, LogoutAllIInv, ChangePasswordIInv,
     ExpireIInv
  DEF Next

(* In every run IInv holds in every state.                                  *)
THEOREM Invariance == Spec => []IInv
  BY InitIInv, NextIInv, PTL DEF Spec

(* Rows, tokens and requests have their types: a used, revoked or expired row *)
(* exists.                                                                   *)
THEOREM TypeCorrect == Spec => []TypeOK
<1>1. IInv => TypeOK
  BY DEF IInv
<1>2. QED
  BY <1>1, Invariance, PTL

(* Rotation is single-use: refresh() leaves a family with one session that can *)
(* go on, however many requests rotate, revoke and log out, unless two of them *)
(* rotated the same row.                                                     *)
THEOREM SingleSession == Spec => []OneSessionPerFamily
<1>1. IInv => OneSessionPerFamily
  BY DEF IInv, OneIsLast, OneSessionPerFamily, Active
<1>2. QED
  BY <1>1, Invariance, PTL

(* change_password() and logout_all() end every session whose login came      *)
(* before, through any number of later rotations, unless a login or a refresh  *)
(* was in flight.                                                            *)
THEOREM CutsEndSessions == Spec => []CutEndsSessions
<1>1. IInv => CutEndsSessions
  BY DEF IInv
<1>2. QED
  BY <1>1, Invariance, PTL

(* token_version tells every access token of before a password change from    *)
(* those of after it, unless two changes of the user overlapped.             *)
THEOREM ChangesEndAccess == Spec => []ChangeEndsAccess
<1>1. ASSUME IInv PROVE ChangeEndsAccess
  <2>1. ASSUME NEW a \in access, Authenticates(a), a.changes < changes[a.user],
               a.user \notin lostBump
        PROVE  FALSE
    <3>1. /\ a.user \in Emails /\ a.version \in Nat \ {0} /\ a.changes \in Nat
          /\ changes[a.user] \in Nat /\ version[a.user] = a.version
      BY <1>1, <2>1 DEF IInv, TypeOK, AccessToken, Authenticates
    <3>2. version[a.user] = changes[a.user] + 1 /\ a.version = a.changes + 1
      BY <1>1, <2>1, <3>1 DEF IInv, VersionsStand
    <3>3. PICK x, y \in Nat : x = a.changes /\ y = changes[a.user]
      BY <3>1
    <3>4. x < y /\ x + 1 = y + 1
      BY <2>1, <3>1, <3>2, <3>3
    <3>5. QED
      BY <3>3, <3>4
  <2>2. QED
    BY <2>1 DEF ChangeEndsAccess
<1>2. QED
  BY <1>1, Invariance, PTL

(* The sessions listed as active are those that refresh() takes.             *)
THEOREM ActiveRefreshes == Spec => []ActiveIsRefreshable
<1>1. IInv => ActiveIsRefreshable
  BY DEF IInv, TokensStand, ActiveIsRefreshable, Active, Refreshable
<1>2. QED
  BY <1>1, Invariance, PTL

-----------------------------------------------------------------------------
(* What a step may do to a request.                                         *)

(* Once the platform account is committed, no registration that begins is     *)
(* lost to it: the look of ensure_account() finds it.                        *)
THEOREM LateOnesDoNotCollide == Spec => OnlyFirstCollide
<1>1. ASSUME IInv, [Next]_vars
      PROVE  [\A r \in Requests :
                request[r].pc # "idle" /\ request'[r].error = "collided" => ~request[r].late]_vars
  <2>1. SUFFICES ASSUME NEW r \in Requests, request[r].pc # "idle",
                        request'[r].error = "collided", Next
                 PROVE  ~request[r].late
    BY <1>1 DEF vars
  <2>2. RequestStands(r) /\ request \in [Requests -> RequestRow]
    BY <1>1, ReadTypes DEF IInv
  <2>3. request[r].error = "none"
    BY <2>1, <2>2 DEF RequestStands
  <2>4. ASSUME NEW s \in Requests, NEW row, Begin(s, row)
        PROVE  FALSE
    BY <2>1, <2>2, <2>3, <2>4 DEF Begin
  <2>5. ASSUME NEW s \in Requests, request' = [request EXCEPT ![s] = Idle]
        PROVE  FALSE
    BY <2>1, <2>2, <2>3, <2>5 DEF Idle
  <2>6. ASSUME NEW s \in Requests, Fail(s, "refused")
        PROVE  FALSE
    BY <2>1, <2>2, <2>3, <2>6 DEF Fail, Idle
  <2>7. ASSUME NEW s \in Requests, FindAccount(s) \/ ReadOwner(s)
        PROVE  FALSE
    BY <2>1, <2>2, <2>3, <2>7 DEF FindAccount, ReadOwner, RequestRow
  <2>8. ASSUME NEW s \in Requests, EnsureAccount(s)
        PROVE  ~request[r].late
    <3>1. CASE s = r
      BY <2>1, <2>2, <2>3, <2>8, <3>1 DEF EnsureAccount, RequestStands, RequestRow
    <3>2. CASE s # r
      BY <2>1, <2>2, <2>3, <2>8, <3>2 DEF EnsureAccount, Fail
    <3>3. QED
      BY <3>1, <3>2
  <2>9. request' # request
    BY <2>1, <2>3
  <2>10. ASSUME NEW s \in Requests, NEW n \in TokenIds,
                Register(s, n) \/ Login(s, n) \/ Refresh(s, n) \/ RevokeSession(s, n)
         PROVE  FALSE
    BY <2>5, <2>10 DEF Register, Login, Refresh, RevokeSession, Succeed
  <2>11. ASSUME NEW s \in Requests, LogoutAll(s) \/ Crash(s) \/ \E p \in Passwords : ChangePassword(s, p)
         PROVE  FALSE
    BY <2>5, <2>11 DEF LogoutAll, Crash, ChangePassword, Succeed
  <2>12. ASSUME NEW s \in Requests, NEW e \in Emails, NEW p \in Passwords,
                InsertUser(s, e, p) \/ ReadCredentials(s, e, p)
         PROVE  FALSE
    BY <2>4, <2>12 DEF InsertUser, ReadCredentials
  <2>13. ASSUME NEW s \in Requests, NEW t \in TokenIds, ReadToken(s, t) \/ Logout(s, t)
         PROVE  FALSE
    BY <2>4, <2>13 DEF ReadToken, Logout
  <2>14. ASSUME NEW s \in Requests, NEW a, Authenticate(s, a)
         PROVE  FALSE
    BY <2>4, <2>14 DEF Authenticate
  <2>15. ASSUME NEW s \in Requests, NEW e \in Emails, EmailTaken(s, e)
         PROVE  FALSE
    BY <2>4, <2>15 DEF EmailTaken
  <2>16. QED
    BY <2>1, <2>6, <2>7, <2>8, <2>9, <2>10, <2>11, <2>12, <2>13, <2>14, <2>15
    DEF Next, WrongPassword, Expire
<1>2. QED
  BY <1>1, Invariance, PTL DEF Spec, OnlyFirstCollide

=============================================================================
