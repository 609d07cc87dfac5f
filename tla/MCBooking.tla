----------------------------- MODULE MCBooking -----------------------------
(* Model-checking instance of Booking. *)
EXTENDS Booking, TLC

CONSTANTS c1, c2

(* One customer on each platform. *)
MCPlatformOf == (c1 :> "telegram") @@ (c2 :> "zalo")

(* An hour, and a night that begins when it ends: two customers meet at *)
(* either, and one may hold the room for both. *)
MCSlots == {[startAt |-> 0, durationHours |-> 1, nights |-> 0],
            [startAt |-> 1, durationHours |-> 0, nights |-> 1]}

Symmetry == Permutations(BookingIds) \cup Permutations(Rooms)
=============================================================================
