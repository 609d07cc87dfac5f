------------------------------ MODULE Booking ------------------------------
(***************************************************************************)
(* Booking a sleepbox: src/src/core/bookingService.js over the transition  *)
(* table of bookingStateMachine.js, next to the order service with which   *)
(* it shares one conversation record per customer (routeToService.js),     *)
(* and the POS that keeps the bookings (PosBookingRepository.gs).          *)
(*                                                                         *)
(* The customer presses buttons as the adapters of Channel pack and unpack *)
(* them.  Every message is handled under the script lock and is one step;  *)
(* a POS call inside it may fail, or be done and its answer be lost.       *)
(* Bills, names and texts are left out.  Of the order service the steps    *)
(* between its states are kept (OrderService has them in full).            *)
(***************************************************************************)
EXTENDS Channel, FiniteSets

CONSTANTS
    Customers,    \* customerId values
    PlatformOf,   \* PlatformOf[c]: where customer c writes from
    BookingIds,   \* ids the POS gives
    Slots,        \* time slots a customer can send: see SlotPayloads
    NightLength,  \* hours in a night
    Walkin,       \* owner of a booking that staff made at the POS
    MaxFaults     \* bound: POS or Sheets calls that fail

(* A slot as the payload of select_slot carries it; 0 is an absent field.  *)
SlotPayloads == [startAt: Nat, durationHours: Nat, nights: Nat]

ASSUME BookingAssumption ==
    /\ PlatformOf \in [Customers -> Platforms]
    /\ Slots \subseteq SlotPayloads
    /\ NightLength \in Nat \ {0}
    /\ Walkin \notin Customers
    /\ None \notin BookingIds
    /\ MaxFaults \in Nat

VARIABLES
    conv,       \* conv[c]: the ConversationState both services share
    named,      \* named[c]: the customer record has a displayName
    owes,       \* owes[c]: the customer has an order that awaits payment
    bookings,   \* bookings[b]: the POS's booking b
    lost,       \* bookings made whose customer was not answered
    dropped,    \* bookings whose conversation the order service cancelled
    told,       \* customers last told that somebody else took their room
    faults      \* calls that have failed

vars == <<conv, named, owes, bookings, lost, dropped, told, faults>>

States == {"IDLE", "SELECTING_UNIT", "SELECTING_SLOT", "SELECTING_ROOM",
           "CONFIRMING", "AWAITING_PAYMENT", "PAID", "DONE", "CANCELLED",
           "EXPIRED"}
OrderStates == {"IDLE", "BROWSING", "CART", "CONFIRMING",
                "AWAITING_PAYMENT", "PAID", "DONE", "CANCELLED", "EXPIRED"}
TerminalOrderStates == {"IDLE", "PAID", "DONE", "CANCELLED", "EXPIRED"}

TRANSITIONS ==
    { <<"IDLE", "START_BOOKING", "SELECTING_UNIT">>,
      <<"SELECTING_UNIT", "SELECT_UNIT", "SELECTING_SLOT">>,
      <<"SELECTING_UNIT", "CANCEL", "CANCELLED">>,
      <<"SELECTING_SLOT", "SELECT_SLOT", "SELECTING_ROOM">>,
      <<"SELECTING_SLOT", "CANCEL", "CANCELLED">>,
      <<"SELECTING_ROOM", "SELECT_ROOM", "CONFIRMING">>,
      <<"SELECTING_ROOM", "CANCEL", "CANCELLED">>,
      <<"CONFIRMING", "CONFIRM_BOOKING", "AWAITING_PAYMENT">>,
      <<"CONFIRMING", "CANCEL", "CANCELLED">>,
      <<"AWAITING_PAYMENT", "PAYMENT_CONFIRMED", "PAID">>,
      <<"AWAITING_PAYMENT", "CANCEL", "CANCELLED">>,
      <<"AWAITING_PAYMENT", "PAYMENT_EXPIRED", "EXPIRED">>,
      <<"PAID", "COMPLETE", "DONE">>,
      <<"DONE", "START_NEW_BOOKING", "SELECTING_UNIT">>,
      <<"CANCELLED", "START_NEW_BOOKING", "SELECTING_UNIT">>,
      <<"EXPIRED", "START_NEW_BOOKING", "SELECTING_UNIT">> }

Fresh == [state |-> "IDLE", flow |-> "none", unit |-> None, from |-> 0,
          to |-> 0, room |-> None, bookingId |-> None, ordered |-> FALSE]

NoBooking == [status |-> "NONE", customerId |-> None, room |-> None,
              from |-> 0, to |-> 0]

Init ==
    /\ conv = [c \in Customers |-> Fresh]
    /\ named \in [Customers -> BOOLEAN]
    /\ owes = [c \in Customers |-> FALSE]
    /\ bookings = [b \in BookingIds |-> NoBooking]
    /\ lost = {}
    /\ dropped = {}
    /\ told = {}
    /\ faults = 0
-----------------------------------------------------------------------------
(* Rooms and the POS.                                                      *)

Blocking(b) == bookings[b].status \in {"AWAITING_PAYMENT", "PAID"}

Overlaps(b, room, from, to) ==
    /\ bookings[b].room = room
    /\ bookings[b].from < to
    /\ bookings[b].to > from

(* findAvailableRooms, and the same rule in the POS's checkAvailability.   *)
Available(from, to) ==
    {r \in Rooms :
        \A b \in BookingIds : Blocking(b) => ~Overlaps(b, r, from, to)}

(* interval(): the slot in the unit the customer chose; it throws when the *)
(* length in that unit is missing.                                         *)
Quantity(unit, s) == IF unit = "hourly" THEN s.durationHours ELSE s.nights
EndOf(unit, s) ==
    s.startAt + Quantity(unit, s) * (IF unit = "hourly" THEN 1
                                                        ELSE NightLength)

(* The POS, which the repository only calls: createBooking looks for an    *)
(* overlap again before it writes (bookingService.js:134).                 *)
Create(b, owner, room, from, to) ==
    /\ bookings[b].status = "NONE"
    /\ room \in Available(from, to)
    /\ bookings' = [bookings EXCEPT ![b] =
           [status |-> "AWAITING_PAYMENT", customerId |-> owner,
            room |-> room, from |-> from, to |-> to]]

SetStatus(b, status) == bookings' = [bookings EXCEPT ![b].status = status]
-----------------------------------------------------------------------------
(* The booking service.                                                    *)

(* routeToService: any message of a conversation with activeFlow 'booking'.*)
InBooking(c) == conv[c].flow = "booking"

(* Mutant: the state name alone tells whose record it is. *)
LoadByName(c) == IF conv[c].state \in States THEN conv[c] ELSE Fresh

(* loadState: a record of the order service counts as none.                *)
LoadState(c) == IF InBooking(c) THEN conv[c] ELSE Fresh

(* move() *)
Move(c, event, context) ==
    \E next \in States :
        /\ <<context.state, event, next>> \in TRANSITIONS
        /\ conv' = [conv EXCEPT ![c] = [context EXCEPT !.state = next]]

(* Mutant: an order that awaits payment does not keep a booking away. *)
MayStartAnyway(c) ==
    InBooking(c) \/ conv[c].state \in TerminalOrderStates
                 \/ conv[c].state = "AWAITING_PAYMENT"

MayStart(c) == InBooking(c) \/ conv[c].state \in TerminalOrderStates

(* /phong.  Inside a booking there is no such transition: it throws.       *)
StartBooking(c) ==
    /\ MayStart(c)
    /\ LET loaded == LoadState(c) IN
       Move(c, IF loaded.state = "IDLE" THEN "START_BOOKING"
                                        ELSE "START_NEW_BOOKING",
            [loaded EXCEPT !.flow = "booking"])
    /\ told' = told \ {c}
    /\ UNCHANGED <<named, owes, bookings, lost, dropped, faults>>

ChooseUnit(c, m) ==
    /\ InBooking(c)
    /\ m.action = "select_unit"
    /\ Move(c, "SELECT_UNIT", [conv[c] EXCEPT !.unit = m.unit])
    /\ UNCHANGED <<named, owes, bookings, lost, dropped, told, faults>>

ChooseSlot(c, s) ==
    /\ InBooking(c)
    /\ conv[c].unit # None /\ Quantity(conv[c].unit, s) > 0
    /\ Move(c, "SELECT_SLOT",
            [conv[c] EXCEPT !.from = s.startAt, !.to = EndOf(conv[c].unit, s)])
    /\ UNCHANGED <<named, owes, bookings, lost, dropped, told, faults>>

(* The room is looked for again among the rooms that are free by now.      *)
ChooseRoom(c, m) ==
    /\ InBooking(c)
    /\ m.action = "select_room"
    /\ m.roomId \in Available(conv[c].from, conv[c].to)
    /\ Move(c, "SELECT_ROOM", [conv[c] EXCEPT !.room = m.roomId])
    /\ UNCHANGED <<named, owes, bookings, lost, dropped, told, faults>>

(* confirm_booking reaches the POS, which refuses a customer without name. *)
Confirms(c, m) ==
    /\ InBooking(c)
    /\ m.action = "confirm_booking"
    /\ conv[c].state = "CONFIRMING"
    /\ named[c]

Request(c, b) == Create(b, c, conv[c].room, conv[c].from, conv[c].to)

Booked(c, m) ==
    /\ Confirms(c, m)
    /\ \E b \in BookingIds :
           /\ Request(c, b)
           /\ Move(c, "CONFIRM_BOOKING",
                   [conv[c] EXCEPT !.bookingId = b, !.flow = "none"])
    /\ UNCHANGED <<named, owes, lost, dropped, told, faults>>

(* The POS has made the booking, but its answer or the write of the        *)
(* conversation after it is lost: the customer stays at the confirmation.  *)
BookedUnanswered(c, m) ==
    /\ Confirms(c, m)
    /\ faults < MaxFaults
    /\ faults' = faults + 1
    /\ \E b \in BookingIds : Request(c, b) /\ lost' = lost \cup {b}
    /\ UNCHANGED <<conv, named, owes, dropped, told>>

(* Mutant: any failure of the POS is taken for a room that is gone. *)
TakenOrFailed(c, m) ==
    /\ Confirms(c, m)
    /\ Move(c, "CANCEL", [conv[c] EXCEPT !.flow = "none"])
    /\ told' = told \cup {c}
    /\ UNCHANGED <<named, owes, bookings, lost, dropped, faults>>

(* ROOM_OVERLAP: the booking is given up.                                  *)
Taken(c, m) ==
    /\ Confirms(c, m)
    /\ conv[c].room \notin Available(conv[c].from, conv[c].to)
    /\ Move(c, "CANCEL", [conv[c] EXCEPT !.flow = "none"])
    /\ told' = told \cup {c}
    /\ UNCHANGED <<named, owes, bookings, lost, dropped, faults>>

CancelBooking(c) ==
    /\ InBooking(c)
    /\ Move(c, "CANCEL", [conv[c] EXCEPT !.flow = "none"])
    /\ IF conv[c].bookingId = None THEN UNCHANGED bookings
                                   ELSE SetStatus(conv[c].bookingId, "CANCELLED")
    /\ UNCHANGED <<named, owes, lost, dropped, told, faults>>

(* The answers that can be last on the customer's screen.                  *)
Screens(c) ==
    CASE conv[c].state = "BROWSING"        -> BrowsingContents
      [] conv[c].state = "CART"            -> CartContents
      [] conv[c].state \in TerminalOrderStates \cup {"AWAITING_PAYMENT"}
                                           -> StatusContents
      [] conv[c].state = "SELECTING_UNIT"  -> {UnitQuestion}
      [] conv[c].state = "SELECTING_SLOT"  -> {}
      [] conv[c].state = "SELECTING_ROOM"  ->
             {RoomList(Available(conv[c].from, conv[c].to))}
      [] InBooking(c)                      -> {RoomSummary}
      [] OTHER                             -> CartContents

(* What the buttons of the service come back as on each platform.          *)
ButtonMessages ==
    [platform \in Platforms |->
        {Pressed(platform, p) :
            p \in {q \in UNION {Rendered(platform, content) :
                                    content \in BookingContents} :
                      Pressable(platform, q)}}]

(* Earlier messages keep their buttons, so any can be pressed at any time. *)
Press(c) ==
    \E m \in ButtonMessages[PlatformOf[c]] :
        \/ ChooseUnit(c, m)
        \/ ChooseRoom(c, m)
        \/ Booked(c, m)
        \/ BookedUnanswered(c, m)
        \/ Taken(c, m)
        \/ m.action = "cancel_booking" /\ CancelBooking(c)

(* Mutant: any booking of the customer moves the conversation on. *)
ConfirmPaymentByState(b) ==
    LET c == bookings[b].customerId IN
    /\ bookings[b].status = "AWAITING_PAYMENT"
    /\ c \in Customers
    /\ SetStatus(b, "PAID")
    /\ IF conv[c].state = "AWAITING_PAYMENT"
       THEN Move(c, "PAYMENT_CONFIRMED", conv[c]) ELSE UNCHANGED conv
    /\ UNCHANGED <<named, owes, lost, dropped, told, faults>>

(* confirmPayment: the booking first, then the conversation if it is still *)
(* at that booking.                                                        *)
ConfirmPayment(b) ==
    LET c == bookings[b].customerId IN
    /\ bookings[b].status = "AWAITING_PAYMENT"
    /\ c \in Customers
    /\ SetStatus(b, "PAID")
    /\ \/ /\ conv[c].state = "AWAITING_PAYMENT" /\ conv[c].bookingId = b
          /\ Move(c, "PAYMENT_CONFIRMED", conv[c])
       \/ /\ ~(conv[c].state = "AWAITING_PAYMENT" /\ conv[c].bookingId = b)
          /\ UNCHANGED conv
    /\ UNCHANGED <<named, owes, lost, dropped, told, faults>>
-----------------------------------------------------------------------------
(* The order service on the same record.                                   *)

Ordering(c) == ~InBooking(c) /\ named[c]

(* The profile questions of a customer's first messages.                   *)
GiveName(c) ==
    /\ ~InBooking(c) /\ ~named[c]
    /\ named' = [named EXCEPT ![c] = TRUE]
    /\ UNCHANGED <<conv, owes, bookings, lost, dropped, told, faults>>

(* startFreshOrder *)
Browse(c) ==
    /\ Ordering(c) /\ ~owes[c]
    /\ conv[c].state \in TerminalOrderStates
    /\ conv' = [conv EXCEPT ![c] = [Fresh EXCEPT !.state = "BROWSING",
                                                 !.flow = "order"]]
    /\ UNCHANGED <<named, owes, bookings, lost, dropped, told, faults>>

(* add_item, remove_item, checkout.                                        *)
Shop(c) ==
    /\ Ordering(c)
    /\ \E step \in {<<"BROWSING", "CART">>, <<"CART", "CONFIRMING">>,
                    <<"CONFIRMING", "CART">>} :
           /\ conv[c].state = step[1]
           /\ conv' = [conv EXCEPT ![c].state = step[2]]
    /\ UNCHANGED <<named, owes, bookings, lost, dropped, told, faults>>

PlaceOrder(c) ==
    /\ Ordering(c) /\ ~owes[c]
    /\ conv[c].state = "CONFIRMING"
    /\ conv' = [conv EXCEPT ![c].state = "AWAITING_PAYMENT",
                            ![c].ordered = TRUE]
    /\ owes' = [owes EXCEPT ![c] = TRUE]
    /\ UNCHANGED <<named, bookings, lost, dropped, told, faults>>

(* /huydon.  Also at AWAITING_PAYMENT of a booking, of which the order     *)
(* service sees only the state: the POS keeps the room.                    *)
CancelOrder(c) ==
    /\ Ordering(c)
    /\ conv[c].state \notin TerminalOrderStates
    /\ conv' = [conv EXCEPT ![c].state = "CANCELLED"]
    /\ owes' = [owes EXCEPT ![c] = @ /\ ~conv[c].ordered]
    /\ dropped' = dropped \cup ({conv[c].bookingId} \ {None})
    /\ UNCHANGED <<named, bookings, lost, faults, told>>

(* confirmPayment and expireOrder of the order service.                    *)
ResolveOrder(c) ==
    /\ owes[c]
    /\ owes' = [owes EXCEPT ![c] = FALSE]
    /\ IF conv[c].state = "AWAITING_PAYMENT" /\ conv[c].ordered
       THEN \E state \in {"PAID", "EXPIRED"} :
                conv' = [conv EXCEPT ![c].state = state]
       ELSE UNCHANGED conv
    /\ UNCHANGED <<named, bookings, lost, dropped, told, faults>>
-----------------------------------------------------------------------------
(* Staff at the POS: a guest at the door, a booking cancelled there.       *)

WalkIn(s, room) ==
    /\ \E b \in BookingIds, unit \in Units :
           /\ Quantity(unit, s) > 0
           /\ Create(b, Walkin, room, s.startAt, EndOf(unit, s))
    /\ UNCHANGED <<conv, named, owes, lost, dropped, told, faults>>

PosCancels(b) ==
    /\ Blocking(b)
    /\ SetStatus(b, "CANCELLED")
    /\ UNCHANGED <<conv, named, owes, lost, dropped, told, faults>>

Next ==
    \/ \E c \in Customers :
           \/ StartBooking(c)
           \/ \E s \in Slots : ChooseSlot(c, s)
           \/ CancelBooking(c)          \* typed
           \/ Press(c)
           \/ GiveName(c) \/ Browse(c) \/ Shop(c) \/ PlaceOrder(c)
           \/ CancelOrder(c) \/ ResolveOrder(c)
    \/ \E b \in BookingIds : ConfirmPayment(b) \/ PosCancels(b)
    \/ \E s \in Slots, room \in Rooms : WalkIn(s, room)

Spec == Init /\ [][Next]_vars
-----------------------------------------------------------------------------
(* Properties.                                                             *)

TypeOK ==
    /\ conv \in [Customers ->
           [state: States \cup OrderStates, flow: {"none", "order", "booking"},
            unit: Units \cup {None}, from: Nat, to: Nat,
            room: Rooms \cup {None}, bookingId: BookingIds \cup {None},
            ordered: BOOLEAN]]
    /\ named \in [Customers -> BOOLEAN]
    /\ owes \in [Customers -> BOOLEAN]
    /\ bookings \in [BookingIds ->
           [status: {"NONE", "AWAITING_PAYMENT", "PAID", "CANCELLED"},
            customerId: Customers \cup {Walkin, None},
            room: Rooms \cup {None}, from: Nat, to: Nat]]
    /\ lost \subseteq BookingIds
    /\ dropped \subseteq BookingIds
    /\ told \subseteq Customers
    /\ faults \in 0 .. MaxFaults

(* The two services never hold the shared record at once: a conversation   *)
(* inside a booking has no order that awaits payment, and a conversation   *)
(* whose customer owes for an order is at that order, so that the payment  *)
(* finds it.                                                               *)
FlowsStayApart ==
    \A c \in Customers :
        /\ InBooking(c) => /\ ~owes[c] /\ ~conv[c].ordered
                           /\ conv[c].state \in States \ TerminalOrderStates
        /\ ~InBooking(c) => conv[c].state \in OrderStates
        /\ owes[c] => conv[c].state = "AWAITING_PAYMENT" /\ conv[c].ordered

(* The record the two services share is well formed and has one owner.     *)
BookingInv == TypeOK /\ FlowsStayApart

(* No room is held for a customer whose conversation has lost sight of it, *)
(* but for the two ways the code leaves open: an answer of the POS that    *)
(* was lost, and /huydon after the booking.                                *)
HeldRoomsAreKnown ==
    \A b \in BookingIds :
        LET c == bookings[b].customerId IN
        bookings[b].status = "AWAITING_PAYMENT" /\ c \in Customers =>
            \/ conv[c].state = "AWAITING_PAYMENT" /\ conv[c].bookingId = b
            \/ b \in lost \cup dropped

(* A payment meets the booking it was made for.  A conversation that names *)
(* a booking names one of this customer, for the room and the time the     *)
(* customer was shown; and it waits for the payment, or thanks for it,     *)
(* just as that booking does, although staff may confirm, at any time, an  *)
(* earlier booking: one whose answer was lost, or that /huydon has left    *)
(* behind at the POS.                                                      *)
PaymentsMeetTheirBooking ==
    \A c \in Customers :
        LET b == conv[c].bookingId IN
        b # None =>
            /\ bookings[b].status # "NONE"
            /\ bookings[b].customerId = c
            /\ bookings[b].room = conv[c].room
            /\ bookings[b].from = conv[c].from /\ bookings[b].to = conv[c].to
            /\ conv[c].state = "AWAITING_PAYMENT" => bookings[b].status # "PAID"
            /\ conv[c].state = "PAID" => bookings[b].status # "AWAITING_PAYMENT"

(* A customer is told that somebody else was faster only when the room is  *)
(* held by somebody else, or by a booking of their own whose answer was    *)
(* lost.                                                                   *)
TakenMeansTaken ==
    [][\A c \in told' \ told :
          \E b \in BookingIds :
              /\ Blocking(b)
              /\ Overlaps(b, conv[c].room, conv[c].from, conv[c].to)
              /\ bookings[b].customerId # c \/ b \in lost
      ]_vars

(* The answers whose buttons all work on a platform.                       *)
Legible ==
    [platform \in Platforms |->
        {content \in Contents :
            \A p \in Rendered(platform, content) : Works(platform, p)}]

(* The buttons under the last answer of either service arrive, from both   *)
(* platforms, as the payloads they were made from: nobody is left with a   *)
(* screen that does nothing.                                               *)
ScreensWork ==
    \A c \in Customers : Screens(c) \subseteq Legible[PlatformOf[c]]
=============================================================================
