----------------------------- MODULE MCMarketplace -----------------------------
(* A small instance of Marketplace for TLC: one agent with two listings. *)
EXTENDS Marketplace, TLC

CONSTANTS a1, p1, p2

MCAgentOf      == p1 :> a1 @@ p2 :> a1
MCLockKey      == a1 :> 1
MCNoMinutes    == p1 :> Unset @@ p2 :> Unset
MCAgentMinutes == a1 :> Unset

MCSymmetry == Permutations(Requests) \cup Permutations(Properties)
=============================================================================
