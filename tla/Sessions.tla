------------------------------- MODULE Sessions -------------------------------
(***************************************************************************)
(* Accounts and sessions: the authentication service, the password change  *)
(* of the user service, the admin's activation switch, the authentication  *)
(* middleware and the e-mail worker that delivers codes and reset links.   *)
(*                                                                         *)
(* Every HTTP request is a process and an action is one awaited call with  *)
(* the code up to the next one.  A request makes at most one code, link or *)
(* pair of tokens, so its name stands for what it makes.  Hashes are       *)
(* injective and random tokens do not collide.                             *)
(***************************************************************************)
EXTENDS Naturals, FiniteSets

CONSTANTS
  Requests,     \* the HTTP requests (and so code, link and token ids)
  Emails,       \* the addresses; User.email is unique
  Passwords,
  Unset,        \* a null column, or no row
  MayAsk        \* [Requests -> SUBSET Ops]: bounds what a request may be

Ops == {"register", "verify", "resend", "login", "forget", "reset",
        "refresh", "logout", "changePassword", "setActive"}

ASSUME SessionAssumption ==
  /\ MayAsk \in [Requests -> SUBSET Ops]
  /\ Unset \notin Requests /\ Unset \notin Passwords /\ Unset \notin Emails

VARIABLES
  password,   \* User.password by e-mail; Unset where there is no account
  verified,   \* the accounts with emailVerifed
  active,     \* the accounts with isActive
  otp,        \* User.emailOtp: the request that made the code
  link,       \* User.resetToken: the request that made the link
  sessions,   \* the RefreshToken table
  expired,    \* codes, links and refresh tokens past their expiresAt
  access,     \* the access tokens: unissued, valid, blacklisted, expired
  cooldown,   \* the Redis keys cooldown:<kind>:<user>
  mail,       \* the e-mail job of each request
  pc,         \* where each request is
  task,       \* what it was asked and what it has read
  family,     \* history: the login a token descends from
  answered,   \* history: the requests that ended with success
  current,    \* history: the passwords an account had since its last reset
  late        \* history: logins that a reset caught between check and insert

userVars    == <<password, verified, active, otp, link>>
sessionVars == <<sessions, family>>
envVars     == <<expired, access, cooldown, mail>>
histVars    == <<answered, current, late>>
vars == <<userVars, sessionVars, envVars, pc, task, histVars>>

-----------------------------------------------------------------------------
(* Values *)

Labels == {"idle", "createUser", "addMail", "cooldown", "storeSecret",
           "setCooldown", "markVerified", "createToken", "stampLogin",
           "writePassword", "endSessions", "spend", "dropToken",
           "blacklist", "done"}

Task == [op : Ops \cup {"none"}, email : Emails \cup {Unset},
         password : Passwords \cup {Unset},
         secret : Requests \cup {Unset}, access : Requests \cup {Unset}]

NoTask == [op |-> "none", email |-> Unset, password |-> Unset,
           secret |-> Unset, access |-> Unset]

AccessStates == {"unissued", "valid", "blacklisted", "expired"}
MailStates   == {"none", "queued", "claimed", "sent", "lost"}
Kinds        == {"otp", "link"}

TypeOK ==
  /\ password \in [Emails -> Passwords \cup {Unset}]
  /\ verified \subseteq Emails /\ active \subseteq Emails
  /\ otp \in [Emails -> Requests \cup {Unset}]
  /\ link \in [Emails -> Requests \cup {Unset}]
  /\ sessions \subseteq Requests /\ expired \subseteq Requests
  /\ access \in [Requests -> AccessStates]
  /\ cooldown \subseteq Kinds \X Emails
  /\ mail \in [Requests -> MailStates]
  /\ pc \in [Requests -> Labels] /\ task \in [Requests -> Task]
  /\ family \in [Requests -> Requests]
  /\ answered \subseteq Requests
  /\ current \in [Emails -> SUBSET Passwords]
  /\ late \subseteq Requests

-----------------------------------------------------------------------------
(* Operators *)

\* findByEmail found a row.
Registered(e) == password[e] # Unset

\* What authMiddleware lets pass: a token that verifies and is not blacklisted.
Authenticated(a) == access[a] = "valid"

\* The address a code, link or token was made for.
Owner(t) == task[t].email

\* The kind of secret that a request which stores one makes.
KindOf(op) == IF op = "forget" THEN "link" ELSE "otp"

\* Requests that own their login's next row: the ones stored, and those about to
\* be: a login that passed its checks, a refresh that deleted its token.
Holders == sessions \cup {r \in Requests : pc[r] = "createToken"}

Ask(r, op, e, w, s, a) ==
  task' = [task EXCEPT ![r] = [op |-> op, email |-> e, password |-> w,
                               secret |-> s, access |-> a]]

GoTo(r, l) == pc' = [pc EXCEPT ![r] = l]

\* The handler's last step: the client gets its answer.
Answer(r) ==
  /\ GoTo(r, "done")
  /\ answered' = answered \cup {r}

\* An early return, which the client sees as an error.
Refuse(r) ==
  /\ GoTo(r, "done")
  /\ UNCHANGED answered

Begins(r, op) == pc[r] = "idle" /\ op \in MayAsk[r]

-----------------------------------------------------------------------------
(* Registration and e-mail verification *)

\* exists({email}); a taken address is refused.
BeginRegister(r) ==
  /\ Begins(r, "register")
  /\ \E e \in Emails, w \in Passwords :
       /\ Ask(r, "register", e, w, Unset, Unset)
       /\ GoTo(r, IF Registered(e) THEN "done" ELSE "createUser")
  /\ UNCHANGED <<userVars, sessionVars, envVars, histVars>>

\* create: the unique column refuses the second of two registrations.
CreateUser(r) ==
  LET e == task[r].email
      w == task[r].password
  IN  /\ pc[r] = "createUser"
      /\ IF Registered(e)
           THEN /\ Refuse(r)
                /\ UNCHANGED <<userVars, current>>
           ELSE /\ password' = [password EXCEPT ![e] = w]
                /\ otp' = [otp EXCEPT ![e] = r]
                /\ active' = active \cup {e}
                /\ current' = [current EXCEPT ![e] = {w}]
                /\ GoTo(r, "addMail")
                /\ UNCHANGED <<verified, link, answered>>
      /\ UNCHANGED <<sessionVars, envVars, task, late>>

\* emailQueue.add, whose failure is caught: the answer is the same.
AddMail(r) ==
  /\ pc[r] = "addMail"
  /\ \E m \in {"queued", "lost"} : mail' = [mail EXCEPT ![r] = m]
  /\ IF task[r].op = "register"
       THEN Answer(r)
       ELSE GoTo(r, "setCooldown") /\ UNCHANGED answered
  /\ UNCHANGED <<userVars, sessionVars, expired, access, cooldown, task,
                 current, late>>

\* findByEmailAndOtp with a code that was delivered, the expiry and the check
\* that it is still needed.
BeginVerify(r) ==
  /\ Begins(r, "verify")
  /\ \E e \in Emails, s \in Requests :
       /\ mail[s] = "sent"
       /\ Ask(r, "verify", e, Unset, s, Unset)
       /\ GoTo(r, IF otp[e] = s /\ s \notin expired /\ e \notin verified
                    THEN "markVerified" ELSE "done")
  /\ UNCHANGED <<userVars, sessionVars, envVars, histVars>>

MarkVerified(r) ==
  LET e == task[r].email
  IN  /\ pc[r] = "markVerified"
      /\ verified' = verified \cup {e}
      /\ otp' = [otp EXCEPT ![e] = Unset]
      /\ Answer(r)
      /\ UNCHANGED <<password, active, link, sessionVars, envVars, task,
                     current, late>>

BeginResend(r) ==
  /\ Begins(r, "resend")
  /\ \E e \in Emails :
       /\ Ask(r, "resend", e, Unset, Unset, Unset)
       /\ GoTo(r, IF Registered(e) /\ e \notin verified
                    THEN "cooldown" ELSE "done")
  /\ UNCHANGED <<userVars, sessionVars, envVars, histVars>>

\* For an unknown address the answer is the same message as for a known one.
BeginForget(r) ==
  /\ Begins(r, "forget")
  /\ \E e \in Emails :
       /\ Ask(r, "forget", e, Unset, Unset, Unset)
       /\ IF Registered(e)
            THEN GoTo(r, "cooldown") /\ UNCHANGED answered
            ELSE Answer(r)
  /\ UNCHANGED <<userVars, sessionVars, envVars, current, late>>

\* redis.get(cooldown:...).
CheckCooldown(r) ==
  /\ pc[r] = "cooldown"
  /\ GoTo(r, IF <<KindOf(task[r].op), task[r].email>> \in cooldown
               THEN "done" ELSE "storeSecret")
  /\ UNCHANGED <<userVars, sessionVars, envVars, task, histVars>>

\* The new code or link replaces the one before.
StoreSecret(r) ==
  LET e == task[r].email
  IN  /\ pc[r] = "storeSecret"
      /\ IF KindOf(task[r].op) = "otp"
           THEN otp' = [otp EXCEPT ![e] = r] /\ UNCHANGED link
           ELSE link' = [link EXCEPT ![e] = r] /\ UNCHANGED otp
      /\ GoTo(r, "addMail")
      /\ UNCHANGED <<password, verified, active, sessionVars, envVars, task,
                     histVars>>

SetCooldown(r) ==
  /\ pc[r] = "setCooldown"
  /\ cooldown' = cooldown \cup {<<KindOf(task[r].op), task[r].email>>}
  /\ Answer(r)
  /\ UNCHANGED <<userVars, sessionVars, expired, access, mail, task, current,
                 late>>

-----------------------------------------------------------------------------
(* Sessions *)

\* The password is compared with the row read; everything after goes by user id.
BeginLogin(r) ==
  /\ Begins(r, "login")
  /\ \E e \in Emails, w \in Passwords :
       /\ Ask(r, "login", e, w, Unset, Unset)
       /\ GoTo(r, IF password[e] = w /\ e \in verified /\ e \in active
                    THEN "createToken" ELSE "done")
  /\ family' = [family EXCEPT ![r] = r]
  /\ UNCHANGED <<userVars, sessions, envVars, histVars>>

\* refreshTokenRepo.create, by a login and by a refresh; the answer carries the
\* access token.
CreateToken(r) ==
  /\ pc[r] = "createToken"
  /\ sessions' = sessions \cup {r}
  /\ IF task[r].op = "login"
       THEN /\ GoTo(r, "stampLogin")
            /\ UNCHANGED <<access, answered>>
       ELSE /\ Answer(r)
            /\ access' = [access EXCEPT ![r] = "valid"]
  /\ UNCHANGED <<userVars, family, expired, cooldown, mail, task, current, late>>

\* lastLogin, which nothing reads, and the answer.
StampLogin(r) ==
  /\ pc[r] = "stampLogin"
  /\ Answer(r)
  /\ access' = [access EXCEPT ![r] = "valid"]
  /\ UNCHANGED <<userVars, sessionVars, expired, cooldown, mail, task, current,
                 late>>

\* findRefreshToken with a token some client was given; the user of a row exists.
BeginRefresh(r) ==
  /\ Begins(r, "refresh")
  /\ \E t \in answered :
       /\ task[t].op \in {"login", "refresh"}
       /\ Ask(r, "refresh", Owner(t), Unset, t, Unset)
       /\ family' = [family EXCEPT ![r] = family[t]]
       /\ GoTo(r, IF t \in sessions \ expired THEN "spend" ELSE "done")
  /\ UNCHANGED <<userVars, sessions, envVars, histVars>>

\* Mutant of SpendToken: deleteMany, which does not throw.
MutSpendToken(r) ==
  /\ pc[r] = "spend"
  /\ sessions' = sessions \ {task[r].secret}
  /\ GoTo(r, "createToken")
  /\ UNCHANGED <<userVars, family, envVars, task, histVars>>

\* deleteRefreshToken: Prisma's delete throws when the row is gone.
SpendToken(r) ==
  LET t == task[r].secret
  IN  /\ pc[r] = "spend"
      /\ sessions' = sessions \ {t}
      /\ GoTo(r, IF t \in sessions THEN "createToken" ELSE "done")
      /\ UNCHANGED <<userVars, family, envVars, task, histVars>>

\* authMiddleware, then the refresh token of the cookie.
BeginLogout(r) ==
  /\ Begins(r, "logout")
  /\ \E a, t \in answered :
       /\ Authenticated(a)
       /\ task[t].op \in {"login", "refresh"}
       /\ Ask(r, "logout", Owner(a), Unset, t, a)
  /\ GoTo(r, "dropToken")
  /\ UNCHANGED <<userVars, sessionVars, envVars, histVars>>

\* Mutant of DropToken: the same in the logout.
MutDropToken(r) ==
  /\ pc[r] = "dropToken"
  /\ sessions' = sessions \ {task[r].secret}
  /\ GoTo(r, "blacklist")
  /\ UNCHANGED <<userVars, family, envVars, task, histVars>>

DropToken(r) ==
  LET t == task[r].secret
  IN  /\ pc[r] = "dropToken"
      /\ sessions' = sessions \ {t}
      /\ GoTo(r, IF t \in sessions THEN "blacklist" ELSE "done")
      /\ UNCHANGED <<userVars, family, envVars, task, histVars>>

\* The key lives as long as the token would; its failure is caught.
Blacklist(r) ==
  LET a == task[r].access
  IN  /\ pc[r] = "blacklist"
      /\ \/ UNCHANGED access
         \/ /\ access[a] # "expired"
            /\ access' = [access EXCEPT ![a] = "blacklisted"]
      /\ Answer(r)
      /\ UNCHANGED <<userVars, sessionVars, expired, cooldown, mail, task,
                     current, late>>

-----------------------------------------------------------------------------
(* Passwords and the activation switch *)

\* findByResetToken with a link that was delivered.
BeginReset(r) ==
  /\ Begins(r, "reset")
  /\ \E e \in Emails, s \in Requests, w \in Passwords :
       /\ mail[s] = "sent"
       /\ link[e] = s
       /\ Ask(r, "reset", e, w, s, Unset)
       /\ GoTo(r, IF s \in expired THEN "done" ELSE "writePassword")
  /\ UNCHANGED <<userVars, sessionVars, envVars, histVars>>

\* findById and the comparison with the current password.
BeginChangePassword(r) ==
  /\ Begins(r, "changePassword")
  /\ \E a \in answered, w \in Passwords :
       /\ Authenticated(a)
       /\ Ask(r, "changePassword", Owner(a), w, Unset, a)
       /\ \E given \in Passwords :
            GoTo(r, IF given = password[Owner(a)]
                      THEN "writePassword" ELSE "done")
  /\ UNCHANGED <<userVars, sessionVars, envVars, histVars>>

\* The update of both handlers, by user id; a reset clears the link as well.
WritePassword(r) ==
  LET e == task[r].email
      w == task[r].password
  IN  /\ pc[r] = "writePassword"
      /\ password' = [password EXCEPT ![e] = w]
      /\ current' = [current EXCEPT ![e] = @ \cup {w}]
      /\ IF task[r].op = "reset"
           THEN /\ link' = [link EXCEPT ![e] = Unset]
                /\ GoTo(r, "endSessions")
                /\ UNCHANGED answered
           ELSE /\ Answer(r)
                /\ UNCHANGED link
      /\ UNCHANGED <<verified, active, otp, sessionVars, envVars, task, late>>

\* Mutant of EndSessions: one delete instead of a deleteMany by user.
MutEndSessions(r) ==
  LET e == task[r].email
  IN  /\ pc[r] = "endSessions"
      /\ \E t \in Requests : Owner(t) = e /\ sessions' = sessions \ {t}
      /\ Answer(r)
      /\ current' = [current EXCEPT ![e] = {password[e]}]
      /\ late' = late \cup {family[q] : q \in {x \in Requests :
                              pc[x] = "createToken" /\ Owner(x) = e}}
      /\ UNCHANGED <<userVars, family, envVars, task>>

\* deleteAllUserRefreshToken.
EndSessions(r) ==
  LET e == task[r].email
  IN  /\ pc[r] = "endSessions"
      /\ sessions' = {t \in sessions : Owner(t) # e}
      /\ Answer(r)
      /\ current' = [current EXCEPT ![e] = {password[e]}]
      /\ late' = late \cup {family[q] : q \in {x \in Requests :
                              pc[x] = "createToken" /\ Owner(x) = e}}
      /\ UNCHANGED <<userVars, family, envVars, task>>

\* updateUserStatus; the listings of a deactivated agent are another module's.
SetActive(r) ==
  /\ Begins(r, "setActive")
  /\ \E e \in Emails, on \in BOOLEAN :
       /\ Ask(r, "setActive", e, Unset, Unset, Unset)
       /\ IF Registered(e)
            THEN /\ Answer(r)
                 /\ active' = IF on THEN active \cup {e} ELSE active \ {e}
            ELSE Refuse(r) /\ UNCHANGED active
  /\ UNCHANGED <<password, verified, otp, link, sessionVars, envVars, current,
                 late>>

-----------------------------------------------------------------------------
(* The e-mail worker, time, and failures *)

\* ensureIdempotency comes before the send, so a failed send is not repeated:
\* the retry finds the key and returns.
ClaimMail(s) ==
  /\ mail[s] = "queued"
  /\ mail' = [mail EXCEPT ![s] = "claimed"]
  /\ UNCHANGED <<userVars, sessionVars, expired, access, cooldown, pc, task,
                 histVars>>

SendMail(s) ==
  /\ mail[s] = "claimed"
  /\ \E m \in {"sent", "lost"} : mail' = [mail EXCEPT ![s] = m]
  /\ UNCHANGED <<userVars, sessionVars, expired, access, cooldown, pc, task,
                 histVars>>

\* A code, a link or a refresh token passes its expiresAt.
Expire(s) ==
  /\ s \in sessions \/ \E e \in Emails : otp[e] = s \/ link[e] = s
  /\ expired' = expired \cup {s}
  /\ UNCHANGED <<userVars, sessionVars, access, cooldown, mail, pc, task,
                 histVars>>

ExpireAccess(a) ==
  /\ access[a] \in {"valid", "blacklisted"}
  /\ access' = [access EXCEPT ![a] = "expired"]
  /\ UNCHANGED <<userVars, sessionVars, expired, cooldown, mail, pc, task,
                 histVars>>

ExpireCooldown ==
  /\ \E c \in cooldown : cooldown' = cooldown \ {c}
  /\ UNCHANGED <<userVars, sessionVars, expired, access, mail, pc, task, histVars>>

\* An uncaught failure of the next call, or the death of the process.
Abort(r) ==
  /\ pc[r] \notin {"idle", "done"}
  /\ Refuse(r)
  /\ UNCHANGED <<userVars, sessionVars, envVars, task, current, late>>

-----------------------------------------------------------------------------

\* Some accounts exist and are verified, with one password.
Init ==
  /\ \E E \in SUBSET Emails, w \in Passwords :
       /\ password = [e \in Emails |-> IF e \in E THEN w ELSE Unset]
       /\ verified = E /\ active = E
       /\ current = [e \in Emails |-> IF e \in E THEN {w} ELSE {}]
  /\ otp = [e \in Emails |-> Unset] /\ link = [e \in Emails |-> Unset]
  /\ sessions = {} /\ expired = {} /\ cooldown = {}
  /\ access = [r \in Requests |-> "unissued"]
  /\ mail = [r \in Requests |-> "none"]
  /\ pc = [r \in Requests |-> "idle"]
  /\ task = [r \in Requests |-> NoTask]
  /\ family = [r \in Requests |-> r]
  /\ answered = {} /\ late = {}

Begin(r) ==
  \/ BeginRegister(r) \/ BeginVerify(r) \/ BeginResend(r) \/ BeginForget(r)
  \/ BeginLogin(r) \/ BeginRefresh(r) \/ BeginLogout(r) \/ BeginReset(r)
  \/ BeginChangePassword(r) \/ SetActive(r)

Step(r) ==
  \/ CreateUser(r) \/ AddMail(r) \/ MarkVerified(r) \/ CheckCooldown(r)
  \/ StoreSecret(r) \/ SetCooldown(r) \/ CreateToken(r) \/ StampLogin(r)
  \/ SpendToken(r) \/ DropToken(r) \/ Blacklist(r) \/ WritePassword(r)
  \/ EndSessions(r)

Environment(s) ==
  \/ ClaimMail(s) \/ SendMail(s) \/ Expire(s) \/ ExpireAccess(s)

Next ==
  \/ \E r \in Requests : Begin(r) \/ Step(r) \/ Abort(r) \/ Environment(r)
  \/ ExpireCooldown

Spec == Init /\ [][Next]_vars

-----------------------------------------------------------------------------
(* Properties *)

\* However refreshes, logouts, resets and failures interleave, a login has at
\* most one refresh token that works: a token is exchanged once, because the
\* delete of a row that is gone throws (auth.service.ts:332).
OneTokenPerLogin ==
  \A s, t \in sessions : family[s] = family[t] => s = t

\* A logout that was answered has ended its login: no token of it works and no
\* refresh under way will store one (auth.service.ts:349).
LoggedOutLoginIsOver ==
  \A r \in answered :
    task[r].op = "logout" =>
      \A t \in Holders : family[t] # family[task[r].secret]

\* After a password reset was answered, the sessions opened with an older
\* password are gone, except those whose login was between its check and its
\* insert at that moment, or whose refresh was between its delete and its insert
\* (auth.service.ts:306).
ResetEndsSessions ==
  \A t \in sessions :
    family[t] \in late
    \/ task[family[t]].password \in current[Owner(t)]

(***************************************************************************)
(* The promise of LoginTokens, kept by rows that are deleted and inserted  *)
(* in separate calls: between the two a refresh holds its login's right    *)
(* itself, and a login from its check on.                                  *)
(***************************************************************************)
Tried == {r \in Requests : pc[r] # "idle" /\ task[r].op = "login"}

Rights == {[token |-> t, login |-> family[t]] : t \in Holders}

Logins == INSTANCE LoginTokens WITH Tokens <- Requests, tried <- Tried, rights <- Rights

\* refreshToken, login, logout, resetPassword: a login's right is exchanged and
\* never copied, and none comes back after it was lost, by a logout, a reset, or
\* a refresh that failed between its delete and its insert.
ImplementsLogins == Logins!Spec
=============================================================================
