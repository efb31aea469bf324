---------------------------- MODULE MCPropertyCache ----------------------------
(* Small instances of PropertyCache for TLC. *)
EXTENDS PropertyCache, TLC

CONSTANTS r1, r2, r3

\* A reader, a handler that updates the listing, and one request of any kind.
MCMayAsk == r1 :> {"read"} @@ r2 :> {"update"} @@ r3 :> Ops
=============================================================================
