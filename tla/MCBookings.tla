------------------------------ MODULE MCBookings ------------------------------
(* Small instances of Bookings for TLC. *)
EXTENDS Bookings, TLC

CONSTANTS a1, a2, p1, p2

\* One agent, or two, each with a listing.
MCAgentOf1 == p1 :> a1
MCAgentOf2 == p1 :> a1 @@ p2 :> a2

\* hashtext keeps two agents apart, or does not.
MCLockKey1    == a1 :> 1
MCLockKey2    == a1 :> 1 @@ a2 :> 2
MCLockKeySame == a1 :> 1 @@ a2 :> 1

\* The last resort of the duration chain, or the agent's own, or the listing's.
MCNoMinutes1       == p1 :> Unset
MCNoMinutes2       == p1 :> 2 @@ p2 :> Unset
MCNoAgentMinutes1  == a1 :> Unset
MCNoAgentMinutes2  == a1 :> Unset @@ a2 :> 1

MCSymmetry == Permutations(Requests)
MCSymmetryBuyers == Permutations(Requests) \cup Permutations(Buyers)
=============================================================================
