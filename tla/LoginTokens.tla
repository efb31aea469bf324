----------------------------- MODULE LoginTokens -----------------------------
(***************************************************************************)
(* What authentication promises whoever logs in: a login has a right to    *)
(* stay logged in, which is exchanged for a new one and never copied, and  *)
(* a login that has lost its right never has one again.                    *)
(*                                                                         *)
(* A right is given, exchanged and taken away in one step.  The module     *)
(* knows nothing of passwords, of calls that fail half way or of requests  *)
(* that overtake each other; the module Sessions is shown to implement it. *)
(***************************************************************************)
CONSTANT Tokens   \* a login goes by its first token

VARIABLES
  tried,    \* the logins that were asked for
  rights    \* the rights in force

store == <<tried, rights>>

Right == [token : Tokens, login : Tokens]

Fresh(t) == \A x \in rights : x.token # t

HasRight(l) == \E x \in rights : x.login = l

-----------------------------------------------------------------------------

Init == tried = {} /\ rights = {}

\* A login is asked for once, and is granted or refused.
LogIn(l) ==
  /\ l \notin tried /\ Fresh(l)
  /\ tried' = tried \cup {l}
  /\ rights' \in {rights, rights \cup {[token |-> l, login |-> l]}}

\* One token is spent for another.
Exchange(x, t) ==
  /\ Fresh(t)
  /\ rights' = (rights \ {x}) \cup {[token |-> t, login |-> x.login]}
  /\ UNCHANGED tried

\* Logins end: by a logout, a reset of the password, or an exchange that failed.
End == rights' \subseteq rights /\ UNCHANGED tried

Next ==
  \/ \E l \in Tokens : LogIn(l)
  \/ \E x \in rights, t \in Tokens : Exchange(x, t)
  \/ End

Spec == Init /\ [][Next]_store

-----------------------------------------------------------------------------

TypeOK == tried \subseteq Tokens /\ rights \subseteq Right

\* A right belongs to a login that was asked for.
Granted == \A x \in rights : x.login \in tried

\* A login has one right at most, and a token belongs to one login.
OneRight ==
  \A x, y \in rights : x.login = y.login \/ x.token = y.token => x = y

\* A login that has lost its right, or was refused one, never has one again.
NoneRevives == [][\A l \in tried : ~ HasRight(l) => ~ HasRight(l)']_store

=============================================================================
