------------------------------- MODULE MCBuyers -------------------------------
(* Two buyers, three listings, two visits of one of them.                     *)
EXTENDS Buyers, TLC

CONSTANTS r1, r2, b1, b2, p1, p2, p3, v1, v2

MCVisitOf == v1 :> [buyer |-> b1, property |-> p1] @@ v2 :> [buyer |-> b2, property |-> p1]

\* One walk alone with the agents, or two requests of buyers.
MCMixes == {[r \in Requests |-> IF r = r1 THEN {"search"} ELSE {}],
            [r \in Requests |-> Ops \ {"search"}]}

MCSymmetry == Permutations({p2, p3})

=============================================================================
