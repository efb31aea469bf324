------------------------------ MODULE MCWebhooks ------------------------------
(* Small instances of Webhooks for TLC. *)
EXTENDS Webhooks, TLC

CONSTANTS paid1, paid2, unpaid, updated, cancelled, cancelledUnpaid, notice,
          featured1, featured2, notFeatured, other,
          unmapped, s1, s2, c0, c1, c2

\* One event of every kind, a second one where two may meet, and one about a
\* subscription the application does not know, and an update to a status that
\* statusMap does not have.
MCAllKinds ==
  paid1 :> "paid" @@ paid2 :> "paid" @@ unpaid :> "paymentFailed"
  @@ updated :> "updated" @@ cancelled :> "cancelled"
  @@ cancelledUnpaid :> "cancelledUnpaid" @@ notice :> "notice"
  @@ featured1 :> "featured" @@ featured2 :> "featured"
  @@ notFeatured :> "featuredFailed" @@ other :> "updated"
  @@ unmapped :> "updated"

MCKind == [e \in Events |-> MCAllKinds[e]]

MCSubOf == [e \in Events |-> IF e = other THEN s2 ELSE s1]

\* Two invoices of one cycle, as when an upgrade is billed inside its month, or
\* of two.
MCCycleOf1 == [e \in Events |-> c1]
MCCycleOf2 == [e \in Events |-> IF e = paid2 THEN c2 ELSE c1]

MCNewStatus == [e \in Events |-> IF e = updated THEN "PAST_DUE" ELSE Unset]

MCSymmetry == Permutations(Deliveries)
=============================================================================
