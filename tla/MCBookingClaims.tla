--------------------------- MODULE MCBookingClaims ---------------------------
(***************************************************************************)
(* What the documentation of the booking routes says of Bookings and its   *)
(* code does not do, refuted by a run of its own; what holds instead is in *)
(* Bookings.                                                               *)
(***************************************************************************)
EXTENDS MCBookings

\* No two live bookings of an agent overlap.  confirmBooking writes CONFIRMED
\* by id long after it read PENDING: the booking may have been cancelled and
\* its slot given away in between.
NoDoubleBooking ==
  \A b, c \in LiveBookings :
     b # c /\ row[b].agent = row[c].agent => ~ Overlap(row[b], row[c])
=============================================================================
