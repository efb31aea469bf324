------------------------------ MODULE MCSessions ------------------------------
(* A small instance of Sessions for TLC. *)
EXTENDS Sessions, TLC

CONSTANTS r1, r2, r3, r4

\* What each request may be: enough to register, verify and log in, and to let
\* refreshes, logouts, resets and logins of one account meet.
MCMayAsk ==
  r1 :> {"register", "login"}
  @@ r2 :> {"verify", "login", "forget", "refresh"}
  @@ r3 :> {"login", "refresh", "reset", "resend", "setActive"}
  @@ r4 :> {"login", "refresh", "logout", "changePassword"}

MCSymmetry == Permutations(Passwords)
=============================================================================
