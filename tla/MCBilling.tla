------------------------------ MODULE MCBilling ------------------------------
(* Four requests to one agent's billing, each of them free in its operation.  *)
EXTENDS Billing, TLC

CONSTANTS r1, r2, r3, r4, c1, c2

\* The first makes the customer, the others do the rest: the bound that keeps
\* the runs small without losing an order of two operations.
MCMayAsk ==
  [r \in Requests |-> CASE r = r1 -> {"setup", "addCard"}
                         [] r = r2 -> {"confirm"}
                         [] OTHER  -> Ops \ {"setup"}]

MCSymmetry == Permutations({r3, r4}) \cup Permutations(Cards)

=============================================================================
