---------------------------- MODULE AgentCalendar ----------------------------
(***************************************************************************)
(* What the booking component promises an agent: a calendar of             *)
(* reservations in which no two reservations of one agent overlap.         *)
(*                                                                         *)
(* A reservation is taken, moved and given back in one step.  The module   *)
(* knows nothing of requests, transactions, locks, jobs or crashes; the    *)
(* module Bookings is shown to implement it.                               *)
(***************************************************************************)
EXTENDS Integers

CONSTANTS BookingIds, Agents

VARIABLE held    \* the set of reservations now in force

Reservation == [booking : BookingIds, agent : Agents, start : Nat, end : Nat]

(***************************************************************************)
(* Half-open intervals: a viewing may start when the previous one ends.    *)
(* This is the filter startTime < end AND endTime > start of both          *)
(* conflict queries.                                                       *)
(***************************************************************************)
Overlap(x, y) == x.start < y.end /\ x.end > y.start

Clash(x, y) == x.agent = y.agent /\ Overlap(x, y)

-----------------------------------------------------------------------------

Init == held = {}

\* A new booking takes a slot nobody else holds.
Reserve(x) ==
  /\ \A y \in held : y.booking # x.booking /\ ~ Clash(x, y)
  /\ held' = held \cup {x}

\* A booking moves to a slot no other booking holds.
Move(old, new) ==
  /\ new.booking = old.booking
  /\ new.agent = old.agent
  /\ \A y \in held \ {old} : ~ Clash(new, y)
  /\ held' = (held \ {old}) \cup {new}

\* Bookings end: one is cancelled, completed or marked no-show, or a listing is
\* closed and all its bookings with it.
Release == held' \subseteq held

Next ==
  \/ \E x \in held' \cap Reservation : Reserve(x)
  \/ \E old \in held, new \in held' \cap Reservation : Move(old, new)
  \/ Release

Spec == Init /\ [][Next]_held

-----------------------------------------------------------------------------

TypeOK == held \subseteq Reservation

\* Two reservations in force never claim the same agent at the same time.
Exclusive ==
  \A x, y \in held : x.booking # y.booking => ~ Clash(x, y)

\* A booking has at most one reservation.
OneEach ==
  \A x, y \in held : x.booking = y.booking => x = y

=============================================================================
