---------------------------- MODULE SessionsProofs ----------------------------
(***************************************************************************)
(* Proofs about Sessions, for any set of requests, accounts and passwords. *)
(* The invariant says what a request in flight holds (Held), how logins    *)
(* and tokens are related (Families), what a logout has ended and what a   *)
(* reset has left.  It speaks of Holders, the tokens stored and those      *)
(* about to be, where the properties speak of the ones stored.             *)
(***************************************************************************)
EXTENDS Sessions, TLAPS

USE SessionAssumption

Held ==
  \A r \in Requests :
    /\ pc[r] # "idle" => task[r].email \in Emails
    /\ pc[r] \in {"createUser", "writePassword"} => task[r].password \in Passwords
    /\ pc[r] = "endSessions" => password[task[r].email] # Unset
    /\ r \in answered => pc[r] = "done"
    /\ task[r].op = "logout" =>
         pc[r] \in {"dropToken", "blacklist", "done"} /\ task[r].secret \in answered
    /\ pc[r] = "spend" =>
         /\ task[r].secret \in answered
         /\ family[r] = family[task[r].secret]
         /\ task[r].email = task[task[r].secret].email

\* A token that a login has yet to name belongs to nobody, and a login has one.
Families ==
  /\ \A q \in Requests : pc[family[q]] = "idle" => family[q] = q
  /\ \A t \in sessions : pc[t] \in {"stampLogin", "done"}
  /\ \A s, t \in Holders : family[s] = family[t] => s = t

LogoutsEnd ==
  \A r \in Requests :
    task[r].op = "logout" /\ (pc[r] = "blacklist" \/ r \in answered) =>
      \A t \in Holders : family[t] # family[task[r].secret]

Passworded ==
  /\ \A e \in Emails : password[e] # Unset => password[e] \in current[e]
  /\ \A t \in Holders :
       /\ password[Owner(t)] # Unset
       /\ family[t] \in late \/ task[family[t]].password \in current[Owner(t)]

Inv == TypeOK /\ Held /\ Families /\ LogoutsEnd /\ Passworded

-----------------------------------------------------------------------------
(* The steps, by what they do to sessions *)

\* r goes on and touches neither tokens nor passwords.
Moves(r) ==
  /\ UNCHANGED <<sessions, family, task, password, current, late>>
  /\ \/ UNCHANGED <<pc, answered>>
     \/ \E l \in {"addMail", "storeSecret", "setCooldown", "done"} :
          /\ pc[r] \notin {"idle", "done"}
          /\ pc' = [pc EXCEPT ![r] = l]
          /\ task[r].op = "logout" \/ pc[r] = "stampLogin" => l = "done"
          /\ \/ answered' = answered
             \/ /\ answered' = answered \cup {r} /\ l = "done"
                /\ task[r].op = "logout" => pc[r] = "blacklist"

\* r begins something that is neither a login, a refresh nor a logout.
Opens(r) ==
  /\ UNCHANGED <<sessions, family, password, current, late>>
  /\ pc[r] = "idle"
  /\ \E t \in Task, l \in {"createUser", "cooldown", "markVerified", "writePassword",
                           "done"} :
       /\ t.email \in Emails /\ t.op \notin {"login", "logout"}
       /\ l \in {"createUser", "writePassword"} => t.password \in Passwords
       /\ task' = [task EXCEPT ![r] = t]
       /\ pc' = [pc EXCEPT ![r] = l]
       /\ answered' = answered \/ (answered' = answered \cup {r} /\ l = "done")

LEMMA StepsMove ==
  ASSUME TypeOK, Held, NEW r \in Requests,
         \/ AddMail(r) \/ MarkVerified(r) \/ CheckCooldown(r) \/ StoreSecret(r)
         \/ SetCooldown(r) \/ StampLogin(r) \/ Blacklist(r) \/ Abort(r)
         \/ Environment(r) \/ ExpireCooldown
  PROVE  Moves(r)
<1> USE DEF Moves, Held, userVars, sessionVars, envVars, histVars, GoTo, Answer, Refuse
<1>1. CASE AddMail(r)
  BY <1>1 DEF AddMail
<1>2. CASE MarkVerified(r)
  BY <1>2 DEF MarkVerified
<1>3. CASE CheckCooldown(r)
  BY <1>3 DEF CheckCooldown
<1>4. CASE StoreSecret(r)
  BY <1>4 DEF StoreSecret
<1>5. CASE SetCooldown(r)
  BY <1>5 DEF SetCooldown
<1>6. CASE StampLogin(r)
  BY <1>6 DEF StampLogin
<1>7. CASE Blacklist(r)
  BY <1>7 DEF Blacklist
<1>8. CASE Abort(r)
  BY <1>8 DEF Abort
<1>9. CASE Environment(r) \/ ExpireCooldown
  BY <1>9 DEF Environment, ClaimMail, SendMail, Expire, ExpireAccess, ExpireCooldown
<1> QED BY <1>1, <1>2, <1>3, <1>4, <1>5, <1>6, <1>7, <1>8, <1>9

LEMMA BeginsOpen ==
  ASSUME TypeOK, Held, NEW r \in Requests,
         \/ BeginRegister(r) \/ BeginVerify(r) \/ BeginResend(r) \/ BeginForget(r)
         \/ BeginReset(r) \/ BeginChangePassword(r) \/ SetActive(r)
  PROVE  Opens(r)
<1> USE DEF Opens, Task, Ops, Begins, Ask, GoTo, Answer, Refuse, userVars, sessionVars,
            envVars, histVars
<1>1. CASE BeginRegister(r)
  BY <1>1 DEF BeginRegister
<1>2. CASE BeginVerify(r)
  BY <1>2 DEF BeginVerify
<1>3. CASE BeginResend(r)
  BY <1>3 DEF BeginResend
<1>4. CASE BeginForget(r)
  BY <1>4 DEF BeginForget
<1>5. CASE BeginReset(r)
  BY <1>5 DEF BeginReset
<1>6. CASE BeginChangePassword(r)
  <2>1. PICK a \in answered, w \in Passwords :
          /\ Ask(r, "changePassword", Owner(a), w, Unset, a)
          /\ \E given \in Passwords :
               GoTo(r, IF given = password[Owner(a)] THEN "writePassword" ELSE "done")
    BY <1>6 DEF BeginChangePassword
  <2>2. Owner(a) \in Emails /\ a \in Requests
    BY <2>1 DEF TypeOK, Held, Owner
  <2> QED BY <1>6, <2>1, <2>2 DEF BeginChangePassword
<1>7. CASE SetActive(r)
  BY <1>7 DEF SetActive
<1> QED BY <1>1, <1>2, <1>3, <1>4, <1>5, <1>6, <1>7

-----------------------------------------------------------------------------
(* Types *)

LEMMA InitInv == Init => Inv
<1> SUFFICES ASSUME Init PROVE Inv
  OBVIOUS
<1>1. TypeOK
  BY DEF Init, TypeOK, Labels, Task, NoTask, Ops, AccessStates, MailStates, Kinds
<1>2. Held /\ Families /\ LogoutsEnd /\ Passworded
  BY DEF Init, Held, Families, LogoutsEnd, Passworded, Holders, NoTask
<1> QED BY <1>1, <1>2 DEF Inv

\* Every step keeps the types.
LEMMA TypeStep == TypeOK /\ Held /\ [Next]_vars => TypeOK'
<1> SUFFICES ASSUME TypeOK, Held, [Next]_vars PROVE TypeOK'
  OBVIOUS
<1> USE DEF TypeOK, userVars, sessionVars, envVars, histVars, GoTo, Answer, Refuse, Begins
<1>1. ASSUME NEW r \in Requests, Opens(r), Begin(r) PROVE TypeOK'
  <2>1. task' \in [Requests -> Task] /\ pc' \in [Requests -> Labels]
    BY <1>1 DEF Opens, Labels
  <2> QED BY <1>1, <2>1 DEF Opens, Begin, BeginRegister, BeginVerify, BeginResend, BeginForget,
       BeginLogin, BeginRefresh, BeginLogout, BeginReset, BeginChangePassword, SetActive
<1>2. ASSUME NEW r \in Requests, BeginLogin(r) PROVE TypeOK'
  BY <1>2 DEF BeginLogin, Ask, Task, Ops, Labels
<1>3. ASSUME NEW r \in Requests, BeginRefresh(r) PROVE TypeOK'
  BY <1>3 DEF BeginRefresh, Ask, Task, Ops, Labels, Owner
<1>4. ASSUME NEW r \in Requests, BeginLogout(r) PROVE TypeOK'
  BY <1>4 DEF BeginLogout, Ask, Task, Ops, Labels, Owner
<1>5. ASSUME NEW r \in Requests, Step(r) PROVE TypeOK'
  <2> USE DEF Labels
  <2> task[r] \in Task
    OBVIOUS
  <2>1. CASE CreateUser(r)
    BY <1>5, <2>1 DEF CreateUser, Held
  <2>2. CASE AddMail(r)
    BY <1>5, <2>2 DEF AddMail, MailStates
  <2>3. CASE MarkVerified(r)
    BY <1>5, <2>3 DEF MarkVerified, Held
  <2>4. CASE CheckCooldown(r)
    BY <1>5, <2>4 DEF CheckCooldown
  <2>5. CASE StoreSecret(r)
    BY <1>5, <2>5 DEF StoreSecret
  <2>6. CASE SetCooldown(r)
    BY <1>5, <2>6 DEF SetCooldown, Held, KindOf, Kinds
  <2>7. CASE CreateToken(r)
    BY <1>5, <2>7 DEF CreateToken, AccessStates
  <2>8. CASE StampLogin(r)
    BY <1>5, <2>8 DEF StampLogin, AccessStates
  <2>9. CASE SpendToken(r)
    BY <1>5, <2>9 DEF SpendToken
  <2>10. CASE DropToken(r)
    BY <1>5, <2>10 DEF DropToken
  <2>11. CASE Blacklist(r)
    BY <1>5, <2>11 DEF Blacklist, AccessStates
  <2>12. CASE WritePassword(r)
    BY <1>5, <2>12 DEF WritePassword, Held
  <2>13. CASE EndSessions(r)
    <3>1. current' \in [Emails -> SUBSET Passwords]
      BY <2>13 DEF EndSessions, Held
    <3> QED BY <2>13, <3>1 DEF EndSessions
  <2> QED BY <1>5, <2>1, <2>2, <2>3, <2>4, <2>5, <2>6, <2>7, <2>8, <2>9, <2>10, <2>11,
             <2>12, <2>13 DEF Step
<1>6. ASSUME NEW r \in Requests, Abort(r) PROVE TypeOK'
  BY <1>6 DEF Abort, Labels
<1>7. ASSUME NEW r \in Requests, Environment(r) PROVE TypeOK'
  BY <1>7 DEF Environment, ClaimMail, SendMail, Expire, ExpireAccess, MailStates, AccessStates
<1>8. CASE ExpireCooldown
  BY <1>8 DEF ExpireCooldown
<1>9. CASE UNCHANGED vars
  BY <1>9 DEF vars
<1> QED BY <1>1, <1>2, <1>3, <1>4, <1>5, <1>6, <1>7, <1>8, <1>9, BeginsOpen DEF Next, Begin

-----------------------------------------------------------------------------
(* The invariant *)

\* What a step can be to the invariant.
LEMMA Steps ==
  ASSUME TypeOK, Held, [Next]_vars
  PROVE  \/ UNCHANGED <<sessions, family, task, password, current, late, pc, answered>>
         \/ \E r \in Requests :
              \/ Moves(r) \/ Opens(r) \/ BeginLogin(r) \/ BeginRefresh(r) \/ BeginLogout(r)
              \/ CreateUser(r) \/ CreateToken(r) \/ SpendToken(r) \/ DropToken(r)
              \/ WritePassword(r) \/ EndSessions(r)
<1>1. CASE UNCHANGED vars
  BY <1>1 DEF vars, userVars, sessionVars, histVars
<1>2. CASE ExpireCooldown
  BY <1>2 DEF ExpireCooldown, userVars, sessionVars, histVars
<1>3. ASSUME NEW r \in Requests, Begin(r) \/ Step(r) \/ Abort(r) \/ Environment(r)
      PROVE  \/ Moves(r) \/ Opens(r) \/ BeginLogin(r) \/ BeginRefresh(r) \/ BeginLogout(r)
             \/ CreateUser(r) \/ CreateToken(r) \/ SpendToken(r) \/ DropToken(r)
             \/ WritePassword(r) \/ EndSessions(r)
  BY <1>3, StepsMove, BeginsOpen DEF Begin, Step
<1> QED BY <1>1, <1>2, <1>3 DEF Next

\* Every step keeps one holder for a login.
LEMMA HeldStep == Inv /\ [Next]_vars => Held'
<1> SUFFICES ASSUME Inv, [Next]_vars PROVE Held'
  OBVIOUS
<1> USE DEF Inv, TypeOK, Held, GoTo, Answer, Refuse, userVars, sessionVars, envVars, histVars
<1>0. \A t \in answered : t \in Requests /\ pc[t] = "done"
  OBVIOUS
<1>1. ASSUME NEW r \in Requests, Moves(r) PROVE Held'
  BY <1>1 DEF Moves
<1>2. ASSUME NEW r \in Requests, Opens(r) PROVE Held'
  BY <1>2 DEF Opens, Task
<1>3. ASSUME NEW r \in Requests, BeginLogin(r) PROVE Held'
  BY <1>3 DEF BeginLogin, Begins, Ask
<1>4. ASSUME NEW r \in Requests, BeginRefresh(r) PROVE Held'
  BY <1>0, <1>4 DEF BeginRefresh, Begins, Ask, Owner
<1>5. ASSUME NEW r \in Requests, BeginLogout(r) PROVE Held'
  BY <1>0, <1>5 DEF BeginLogout, Begins, Ask, Owner
<1>6. ASSUME NEW r \in Requests, CreateUser(r) PROVE Held'
  BY <1>6 DEF CreateUser
<1>7. ASSUME NEW r \in Requests, CreateToken(r) PROVE Held'
  BY <1>7 DEF CreateToken
<1>8. ASSUME NEW r \in Requests, SpendToken(r) PROVE Held'
  BY <1>8 DEF SpendToken
<1>9. ASSUME NEW r \in Requests, DropToken(r) PROVE Held'
  BY <1>9 DEF DropToken
<1>10. ASSUME NEW r \in Requests, WritePassword(r) PROVE Held'
  BY <1>10 DEF WritePassword
<1>11. ASSUME NEW r \in Requests, EndSessions(r) PROVE Held'
  BY <1>11 DEF EndSessions
<1>12. CASE UNCHANGED <<sessions, family, task, password, current, late, pc, answered>>
  BY <1>12
<1> QED
  <2> HIDE DEF TypeOK, Held
  <2> QED BY <1>1, <1>2, <1>3, <1>4, <1>5, <1>6, <1>7, <1>8, <1>9, <1>10, <1>11, <1>12, Steps

\* Every step keeps a family with one login.
LEMMA FamiliesStep == Inv /\ [Next]_vars => Families'
<1> SUFFICES ASSUME Inv, [Next]_vars PROVE Families'
  OBVIOUS
<1> USE DEF Inv, TypeOK, Families, Holders, GoTo, Answer, Refuse, userVars, sessionVars,
            envVars, histVars
<1>0. \A t \in answered : t \in Requests /\ pc[t] = "done"
  BY DEF Held
<1>1. ASSUME NEW r \in Requests, Moves(r) PROVE Families'
  BY <1>1 DEF Moves
<1>2. ASSUME NEW r \in Requests, Opens(r) PROVE Families'
  BY <1>2 DEF Opens
<1>3. ASSUME NEW r \in Requests, BeginLogin(r) PROVE Families'
  BY <1>3 DEF BeginLogin, Begins
<1>4. ASSUME NEW r \in Requests, BeginRefresh(r) PROVE Families'
  BY <1>0, <1>4 DEF BeginRefresh, Begins
<1>5. ASSUME NEW r \in Requests, BeginLogout(r) PROVE Families'
  BY <1>5 DEF BeginLogout, Begins
<1>6. ASSUME NEW r \in Requests, CreateUser(r) PROVE Families'
  BY <1>6 DEF CreateUser
<1>7. ASSUME NEW r \in Requests, CreateToken(r) PROVE Families'
  BY <1>7 DEF CreateToken
<1>8. ASSUME NEW r \in Requests, SpendToken(r) PROVE Families'
  BY <1>8 DEF SpendToken, Held
<1>9. ASSUME NEW r \in Requests, DropToken(r) PROVE Families'
  BY <1>9 DEF DropToken
<1>10. ASSUME NEW r \in Requests, WritePassword(r) PROVE Families'
  BY <1>10 DEF WritePassword
<1>11. ASSUME NEW r \in Requests, EndSessions(r) PROVE Families'
  BY <1>11 DEF EndSessions
<1>12. CASE UNCHANGED <<sessions, family, task, password, current, late, pc, answered>>
  BY <1>12
<1> QED
  <2> HIDE DEF TypeOK, Families
  <2> QED BY <1>1, <1>2, <1>3, <1>4, <1>5, <1>6, <1>7, <1>8, <1>9, <1>10, <1>11, <1>12, Steps

\* Every step keeps a login without holders once its logout has deleted them.
LEMMA LogoutsStep == Inv /\ [Next]_vars => LogoutsEnd'
<1> SUFFICES ASSUME Inv, [Next]_vars PROVE LogoutsEnd'
  OBVIOUS
<1> USE DEF Inv, TypeOK, LogoutsEnd, Holders, GoTo, Answer, Refuse, userVars, sessionVars,
            envVars, histVars
<1>0. \A t \in answered : t \in Requests /\ pc[t] = "done"
  BY DEF Held
<1>1. ASSUME NEW r \in Requests, Moves(r) PROVE LogoutsEnd'
  BY <1>1 DEF Moves, Held
<1>2. ASSUME NEW r \in Requests, Opens(r) PROVE LogoutsEnd'
  BY <1>0, <1>2 DEF Opens
<1>3. ASSUME NEW r \in Requests, BeginLogin(r) PROVE LogoutsEnd'
  BY <1>0, <1>3 DEF BeginLogin, Begins, Ask, Held, Families
<1>4. ASSUME NEW r \in Requests, BeginRefresh(r) PROVE LogoutsEnd'
  BY <1>0, <1>4 DEF BeginRefresh, Begins, Ask, Held, Families
<1>5. ASSUME NEW r \in Requests, BeginLogout(r) PROVE LogoutsEnd'
  BY <1>0, <1>5 DEF BeginLogout, Begins, Ask, Held
<1>6. ASSUME NEW r \in Requests, CreateUser(r) PROVE LogoutsEnd'
  BY <1>6 DEF CreateUser, Held
<1>7. ASSUME NEW r \in Requests, CreateToken(r) PROVE LogoutsEnd'
  BY <1>7 DEF CreateToken, Held
<1>8. ASSUME NEW r \in Requests, SpendToken(r) PROVE LogoutsEnd'
  BY <1>8 DEF SpendToken, Held
<1>9. ASSUME NEW r \in Requests, DropToken(r) PROVE LogoutsEnd'
  BY <1>9 DEF DropToken, Held, Families
<1>10. ASSUME NEW r \in Requests, WritePassword(r) PROVE LogoutsEnd'
  BY <1>10 DEF WritePassword, Held
<1>11. ASSUME NEW r \in Requests, EndSessions(r) PROVE LogoutsEnd'
  BY <1>11 DEF EndSessions, Held
<1>12. CASE UNCHANGED <<sessions, family, task, password, current, late, pc, answered>>
  BY <1>12
<1> QED
  <2> HIDE DEF TypeOK, LogoutsEnd
  <2> QED BY <1>1, <1>2, <1>3, <1>4, <1>5, <1>6, <1>7, <1>8, <1>9, <1>10, <1>11, <1>12, Steps

\* Every step keeps what passwords the holders' logins used.
LEMMA PasswordedStep == Inv /\ [Next]_vars => Passworded'
<1> SUFFICES ASSUME Inv, [Next]_vars PROVE Passworded'
  OBVIOUS
<1> USE DEF Inv, TypeOK, Passworded, Holders, Owner, GoTo, Answer, Refuse, userVars,
            sessionVars, envVars, histVars
<1>0. /\ \A t \in answered : t \in Requests /\ pc[t] = "done"
      /\ \A t \in Holders : t \in Requests /\ pc[t] # "idle" /\ Owner(t) \in Emails
                            /\ pc[family[t]] # "idle"
  BY DEF Held, Families
<1>1. ASSUME NEW r \in Requests, Moves(r) PROVE Passworded'
  BY <1>1 DEF Moves
<1>2. ASSUME NEW r \in Requests, Opens(r) PROVE Passworded'
  BY <1>0, <1>2 DEF Opens
<1>3. ASSUME NEW r \in Requests, BeginLogin(r) PROVE Passworded'
  BY <1>0, <1>3 DEF BeginLogin, Begins, Ask
<1>4. ASSUME NEW r \in Requests, BeginRefresh(r) PROVE Passworded'
  BY <1>0, <1>4 DEF BeginRefresh, Begins, Ask
<1>5. ASSUME NEW r \in Requests, BeginLogout(r) PROVE Passworded'
  BY <1>0, <1>5 DEF BeginLogout, Begins, Ask
<1>6. ASSUME NEW r \in Requests, CreateUser(r) PROVE Passworded'
  BY <1>0, <1>6 DEF CreateUser, Held, Registered
<1>7. ASSUME NEW r \in Requests, CreateToken(r) PROVE Passworded'
  BY <1>7 DEF CreateToken
<1>8. ASSUME NEW r \in Requests, SpendToken(r) PROVE Passworded'
  BY <1>8 DEF SpendToken, Held
<1>9. ASSUME NEW r \in Requests, DropToken(r) PROVE Passworded'
  BY <1>9 DEF DropToken
<1>10. ASSUME NEW r \in Requests, WritePassword(r) PROVE Passworded'
  BY <1>0, <1>10 DEF WritePassword, Held
<1>11. ASSUME NEW r \in Requests, EndSessions(r) PROVE Passworded'
  BY <1>0, <1>11 DEF EndSessions, Held
<1>12. CASE UNCHANGED <<sessions, family, task, password, current, late, pc, answered>>
  BY <1>12
<1> QED
  <2> HIDE DEF TypeOK, Passworded
  <2> QED BY <1>1, <1>2, <1>3, <1>4, <1>5, <1>6, <1>7, <1>8, <1>9, <1>10, <1>11, <1>12, Steps

-----------------------------------------------------------------------------
(* The theorems *)

LEMMA InvAlways == Spec => []Inv
<1>1. Inv /\ [Next]_vars => Inv'
  BY TypeStep, HeldStep, FamiliesStep, LogoutsStep, PasswordedStep DEF Inv
<1> QED BY <1>1, InitInv, PTL DEF Spec

\* Every account, token, code and request keeps its type.
THEOREM TypeCorrect == Spec => []TypeOK
<1>1. Inv => TypeOK
  BY DEF Inv
<1> QED BY <1>1, InvAlways, PTL

\* A login has one refresh token at most, whatever interleaves.
THEOREM OneTokenSafe == Spec => []OneTokenPerLogin
<1>1. Inv => OneTokenPerLogin
  BY DEF Inv, Families, OneTokenPerLogin, Holders
<1> QED BY <1>1, InvAlways, PTL

\* A logout that was answered has ended its login for good.
THEOREM LogoutSafe == Spec => []LoggedOutLoginIsOver
<1>1. Inv => LoggedOutLoginIsOver
  BY DEF Inv, TypeOK, LogoutsEnd, LoggedOutLoginIsOver
<1> QED BY <1>1, InvAlways, PTL

\* A reset ends the sessions of older passwords but for the logins it met half way.
THEOREM ResetSafe == Spec => []ResetEndsSessions
<1>1. Inv => ResetEndsSessions
  BY DEF Inv, Passworded, ResetEndsSessions, Holders
<1> QED BY <1>1, InvAlways, PTL

-----------------------------------------------------------------------------
(* Sessions implements LoginTokens *)

\* Nothing is granted: a step that leaves the logins asked for alone and makes no
\* holder ends the logins that lost theirs.
LEMMA EndsLogins ==
  ASSUME Holders' \subseteq Holders, \A t \in Holders' : family'[t] = family[t],
         Tried' = Tried
  PROVE  Logins!Next
<1>1. Rights' \subseteq Rights
  BY DEF Rights
<1> QED BY <1>1 DEF Logins!Next, Logins!End

\* A request that has not begun, or is about to spend a token, holds nothing.
LEMMA HoldsNothing ==
  ASSUME Inv, NEW r \in Requests, pc[r] \in {"idle", "spend"}
  PROVE  /\ r \notin Holders
         /\ \A x \in Rights : x.token # r
<1>1. r \notin Holders
  BY DEF Inv, Families, Holders
<1> QED BY <1>1 DEF Rights

\* login: the address, the password and the account are checked at once, and the
\* login holds its right from there to the insert.
LEMMA LoginGrants ==
  ASSUME Inv, NEW r \in Requests, BeginLogin(r)
  PROVE  Logins!LogIn(r)
<1>1. /\ pc[r] = "idle" /\ sessions' = sessions
      /\ family' = [family EXCEPT ![r] = r]
      /\ family \in [Requests -> Requests]
      /\ pc \in [Requests -> Labels] /\ task \in [Requests -> Task]
  BY DEF BeginLogin, Begins, Inv, TypeOK
<1>2. PICK l, t :
        /\ l \in {"createToken", "done"} /\ t.op = "login"
        /\ pc' = [pc EXCEPT ![r] = l] /\ task' = [task EXCEPT ![r] = t]
  <2>1. PICK e \in Emails, w \in Passwords :
          /\ Ask(r, "login", e, w, Unset, Unset)
          /\ GoTo(r, IF password[e] = w /\ e \in verified /\ e \in active
                       THEN "createToken" ELSE "done")
    BY DEF BeginLogin
  <2> DEFINE l == IF password[e] = w /\ e \in verified /\ e \in active
                  THEN "createToken" ELSE "done"
             t == [op |-> "login", email |-> e, password |-> w, secret |-> Unset,
                   access |-> Unset]
  <2>2. l \in {"createToken", "done"} /\ t.op = "login"
    OBVIOUS
  <2>3. pc' = [pc EXCEPT ![r] = l] /\ task' = [task EXCEPT ![r] = t]
    BY <2>1 DEF Ask, GoTo
  <2> HIDE DEF l, t
  <2> QED BY <2>2, <2>3
<1>3. Tried' = Tried \cup {r} /\ r \notin Tried
  BY <1>1, <1>2 DEF Tried
<1>4. Holders' = IF l = "createToken" THEN Holders \cup {r} ELSE Holders
  BY <1>1, <1>2 DEF Holders
<1>5. r \notin Holders /\ Logins!Fresh(r)
  BY <1>1, HoldsNothing DEF Logins!Fresh
<1>6. Holders \subseteq Requests
  BY DEF Inv, TypeOK, Holders
<1>7. family'[r] = r /\ \A u \in Holders : family'[u] = family[u]
  BY <1>1, <1>5, <1>6
<1>8. Rights' = IF l = "createToken" THEN Rights \cup {[token |-> r, login |-> r]}
                                     ELSE Rights
  <2>1. Rights' = {[token |-> u, login |-> family'[u]] : u \in Holders'}
    BY DEF Rights
  <2>2. CASE l = "createToken"
    <3>1. Holders' = Holders \cup {r}
      BY <1>4, <2>2
    <3> QED BY <2>1, <2>2, <3>1, <1>7 DEF Rights
  <2>3. CASE l # "createToken"
    <3>1. Holders' = Holders
      BY <1>4, <2>3
    <3> QED BY <2>1, <2>3, <3>1, <1>7 DEF Rights
  <2> QED BY <2>2, <2>3
<1> QED BY <1>3, <1>5, <1>8 DEF Logins!LogIn

\* refreshToken: of those who would spend one token the first to delete its row
\* takes the right over, and the others get nothing.
LEMMA SpendExchanges ==
  ASSUME Inv, NEW r \in Requests, SpendToken(r)
  PROVE  Logins!Next
<1> DEFINE t == task[r].secret
<1>1. /\ pc[r] = "spend" /\ sessions' = sessions \ {t}
      /\ UNCHANGED <<family, task>>
      /\ pc' = [pc EXCEPT ![r] = IF t \in sessions THEN "createToken" ELSE "done"]
      /\ pc \in [Requests -> Labels] /\ sessions \subseteq Requests
  BY DEF SpendToken, GoTo, userVars, histVars, Inv, TypeOK
<1>2. family[r] = family[t]
  BY <1>1 DEF Inv, Held
<1>3. Tried' = Tried
  BY <1>1 DEF Tried
<1> HIDE DEF t
<1>4. CASE t \notin sessions
  <2>1. Holders' \subseteq Holders
    BY <1>1, <1>4 DEF Holders
  <2> QED BY <1>1, <1>3, <2>1, EndsLogins
<1>5. CASE t \in sessions
  <2>1. pc[t] # "createToken"
    BY <1>5 DEF Inv, Families
  <2>2. Holders' = (Holders \ {t}) \cup {r}
    BY <1>1, <1>5, <2>1 DEF Holders
  <2>3. r \notin Holders /\ Logins!Fresh(r)
    BY <1>1, HoldsNothing DEF Logins!Fresh
  <2>4. t \in Holders
    BY <1>5 DEF Holders
  <2> DEFINE x == [token |-> t, login |-> family[t]]
             y == [token |-> r, login |-> family[t]]
  <2>5. x \in Rights
    BY <2>4 DEF Rights
  <2>6. Rights' = (Rights \ {x}) \cup {y}
    <3>1. Rights' = {[token |-> u, login |-> family[u]] : u \in (Holders \ {t}) \cup {r}}
      BY <1>1, <2>2 DEF Rights
    <3>2. Rights \ {x} = {[token |-> u, login |-> family[u]] : u \in Holders \ {t}}
      BY DEF Rights
    <3>3. [token |-> r, login |-> family[r]] = y
      BY <1>2
    <3> HIDE DEF x, y
    <3> QED BY <3>1, <3>2, <3>3
  <2>7. x.login = family[t]
    OBVIOUS
  <2>8. Logins!Exchange(x, r)
    BY <1>3, <2>3, <2>6, <2>7 DEF Logins!Exchange
  <2> HIDE DEF x
  <2> QED BY <2>5, <2>8 DEF Logins!Next
<1> QED BY <1>4, <1>5

\* Every other step grants nothing.
LEMMA OthersEnd ==
  ASSUME Inv, NEW r \in Requests,
         \/ Moves(r) \/ Opens(r) \/ BeginRefresh(r) \/ BeginLogout(r) \/ CreateUser(r)
         \/ CreateToken(r) \/ DropToken(r) \/ WritePassword(r) \/ EndSessions(r)
  PROVE  Logins!Next
<1>0. /\ pc \in [Requests -> Labels] /\ task \in [Requests -> Task]
      /\ family \in [Requests -> Requests] /\ sessions \subseteq Requests
  BY DEF Inv, TypeOK
<1> USE DEF GoTo, Answer, Refuse, Ask, Begins, userVars, sessionVars, envVars, histVars
<1>1. CASE Moves(r)
  <2>1. Holders' \subseteq Holders /\ family' = family
    BY <1>0, <1>1 DEF Moves, Holders
  <2>2. Tried' = Tried
    BY <1>0, <1>1 DEF Moves, Tried
  <2> QED BY <2>1, <2>2, EndsLogins
<1>2. CASE Opens(r)
  <2>1. Holders' \subseteq Holders /\ family' = family
    BY <1>0, <1>2 DEF Opens, Holders
  <2>2. Tried' = Tried
    BY <1>0, <1>2 DEF Opens, Tried
  <2> QED BY <2>1, <2>2, EndsLogins
<1>3. CASE BeginRefresh(r)
  <2>1. r \notin Holders
    BY <1>3, HoldsNothing DEF BeginRefresh
  <2>2. Holders' \subseteq Holders
    BY <1>0, <1>3 DEF BeginRefresh, Holders
  <2>3. \A t \in Holders' : family'[t] = family[t]
    BY <1>0, <1>3, <2>1, <2>2 DEF BeginRefresh, Holders
  <2>4. Tried' = Tried
    BY <1>0, <1>3 DEF BeginRefresh, Tried
  <2> QED BY <2>2, <2>3, <2>4, EndsLogins
<1>4. CASE BeginLogout(r)
  <2>1. Holders' \subseteq Holders /\ family' = family
    BY <1>0, <1>4 DEF BeginLogout, Holders
  <2>2. Tried' = Tried
    BY <1>0, <1>4 DEF BeginLogout, Tried
  <2> QED BY <2>1, <2>2, EndsLogins
<1>5. CASE CreateUser(r)
  <2>1. Holders' \subseteq Holders /\ family' = family
    BY <1>0, <1>5 DEF CreateUser, Holders
  <2>2. Tried' = Tried
    BY <1>0, <1>5 DEF CreateUser, Tried
  <2> QED BY <2>1, <2>2, EndsLogins
<1>6. CASE CreateToken(r)
  <2>1. Holders' \subseteq Holders /\ family' = family
    BY <1>0, <1>6 DEF CreateToken, Holders
  <2>2. Tried' = Tried
    BY <1>0, <1>6 DEF CreateToken, Tried
  <2> QED BY <2>1, <2>2, EndsLogins
<1>7. CASE DropToken(r)
  <2>1. Holders' \subseteq Holders /\ family' = family
    BY <1>0, <1>7 DEF DropToken, Holders
  <2>2. Tried' = Tried
    BY <1>0, <1>7 DEF DropToken, Tried
  <2> QED BY <2>1, <2>2, EndsLogins
<1>8. CASE WritePassword(r)
  <2>1. Holders' \subseteq Holders /\ family' = family
    BY <1>0, <1>8 DEF WritePassword, Holders
  <2>2. Tried' = Tried
    BY <1>0, <1>8 DEF WritePassword, Tried
  <2> QED BY <2>1, <2>2, EndsLogins
<1>9. CASE EndSessions(r)
  <2>1. Holders' \subseteq Holders /\ family' = family
    BY <1>0, <1>9 DEF EndSessions, Holders
  <2>2. Tried' = Tried
    BY <1>0, <1>9 DEF EndSessions, Tried
  <2> QED BY <2>1, <2>2, EndsLogins
<1> QED BY <1>1, <1>2, <1>3, <1>4, <1>5, <1>6, <1>7, <1>8, <1>9

\* AuthService: with all its calls interleaved, a login's right is granted,
\* exchanged and taken away as if in one step, for any number of requests,
\* accounts and passwords.
THEOREM Refinement == Spec => ImplementsLogins
<1>1. Init => Logins!Init
  BY DEF Init, Logins!Init, Tried, Rights, Holders
<1>2. Inv /\ [Next]_vars => [Logins!Next]_<<Tried, Rights>>
  <2> SUFFICES ASSUME Inv, [Next]_vars PROVE Logins!Next
    OBVIOUS
  <2>1. CASE UNCHANGED <<sessions, family, task, password, current, late, pc, answered>>
    <3>1. Holders' = Holders /\ family' = family /\ Tried' = Tried
      BY <2>1 DEF Holders, Tried
    <3> QED BY <3>1, EndsLogins
  <2>2. ASSUME NEW r \in Requests, BeginLogin(r) PROVE Logins!Next
    BY <2>2, LoginGrants DEF Logins!Next
  <2> QED BY <2>1, <2>2, Steps, SpendExchanges, OthersEnd DEF Inv
<1> QED BY <1>1, <1>2, InvAlways, PTL DEF Spec, ImplementsLogins, Logins!Spec, Logins!store

LoginsHold == Logins!TypeOK /\ Logins!Granted /\ Logins!OneRight

\* What LoginTokens promises, of itself.
LEMMA LoginsAreSafe == Logins!Spec => []LoginsHold
<1> USE DEF LoginsHold, Logins!TypeOK, Logins!Granted, Logins!OneRight, Logins!Right
<1>1. Logins!Init => LoginsHold
  BY DEF Logins!Init
<1>2. LoginsHold /\ [Logins!Next]_<<Tried, Rights>> => LoginsHold'
  <2> SUFFICES ASSUME LoginsHold, [Logins!Next]_<<Tried, Rights>> PROVE LoginsHold'
    OBVIOUS
  <2>1. ASSUME NEW l \in Requests, Logins!LogIn(l) PROVE LoginsHold'
    BY <2>1 DEF Logins!LogIn, Logins!Fresh
  <2>2. ASSUME NEW x \in Rights, NEW t \in Requests, Logins!Exchange(x, t)
        PROVE  LoginsHold'
    BY <2>2 DEF Logins!Exchange, Logins!Fresh
  <2>3. CASE Logins!End
    BY <2>3 DEF Logins!End
  <2>4. CASE UNCHANGED <<Tried, Rights>>
    BY <2>4
  <2> QED BY <2>1, <2>2, <2>3, <2>4 DEF Logins!Next
<1> QED BY <1>1, <1>2, PTL DEF Logins!Spec, Logins!store

\* The promise inherited: at every moment of the authentication service a login
\* has one right at most, and only a login that was asked for has one.
THEOREM LoginsPromise == Spec => [](Logins!Granted /\ Logins!OneRight)
<1>1. LoginsHold => Logins!Granted /\ Logins!OneRight
  BY DEF LoginsHold
<1> QED BY <1>1, Refinement, LoginsAreSafe, PTL DEF ImplementsLogins

\* refreshToken, logout, resetPassword: a login that was refused, has logged out,
\* was ended by a reset, or lost its token in a refresh that failed half way, never
\* has a token again, whatever requests of it are still under way.
THEOREM EndedStaysEnded == Spec => Logins!NoneRevives
<1> DEFINE Change == \A l \in Tried : ~ Logins!HasRight(l) => ~ Logins!HasRight(l)'
<1>1. LoginsHold /\ [Logins!Next]_<<Tried, Rights>> => [Change]_<<Tried, Rights>>
  <2> SUFFICES ASSUME LoginsHold, Logins!Next,
                      NEW l \in Tried, ~ Logins!HasRight(l)
               PROVE  ~ Logins!HasRight(l)'
    OBVIOUS
  <2> USE DEF Logins!HasRight
  <2>1. ASSUME NEW k \in Requests, Logins!LogIn(k) PROVE ~ Logins!HasRight(l)'
    BY <2>1 DEF Logins!LogIn
  <2>2. ASSUME NEW x \in Rights, NEW t \in Requests, Logins!Exchange(x, t)
        PROVE  ~ Logins!HasRight(l)'
    BY <2>2 DEF Logins!Exchange
  <2>3. CASE Logins!End
    BY <2>3 DEF Logins!End
  <2> QED BY <2>1, <2>2, <2>3 DEF Logins!Next
<1> QED BY <1>1, Refinement, LoginsAreSafe, PTL
        DEF ImplementsLogins, Logins!Spec, Logins!store, Logins!NoneRevives

=============================================================================
