------------------------------- MODULE MCLimits -------------------------------
(* A small instance of Limits for TLC. *)
EXTENDS Limits, TLC

CONSTANTS r1, r2, r3

\* The trial has a limit of one of each kind, a paid cycle one of listings.
MCLimit == "listing" :> (0 :> 1 @@ 1 :> 1)
           @@ "featured" :> (0 :> 1 @@ 1 :> NoLimit)

MCMayAsk == r1 :> Kinds @@ r2 :> Kinds @@ r3 :> Kinds

MCSymmetry == Permutations(Places) \cup Permutations(Requests)
=============================================================================
