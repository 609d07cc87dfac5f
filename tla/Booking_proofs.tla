--------------------------- MODULE Booking_proofs ---------------------------
(***************************************************************************)
(* Theorems about Booking for every set of customers, rooms, bookings and  *)
(* slots, on any platforms: the two services keep apart on the record they *)
(* share, a payment meets the booking it was made for, and who is told     *)
(* that a room is taken is told the truth.                                 *)
(***************************************************************************)
EXTENDS Booking, SequenceTheorems, TLAPS

-----------------------------------------------------------------------------
(* What the properties rest on.                                            *)

Asking == {"SELECTING_UNIT", "SELECTING_SLOT", "SELECTING_ROOM",
           "CONFIRMING"}

Record == [state: States \cup OrderStates, flow: {"none", "order", "booking"},
           unit: Units \cup {None}, from: Nat, to: Nat,
           room: Rooms \cup {None}, bookingId: BookingIds \cup {None},
           ordered: BOOLEAN]

Held == [status: {"NONE", "AWAITING_PAYMENT", "PAID", "CANCELLED"},
         customerId: Customers \cup {Walkin, None},
         room: Rooms \cup {None}, from: Nat, to: Nat]

-----------------------------------------------------------------------------
(* Every button that names a unit arrives with a unit.                     *)
LEMMA PressedUnits ==
    ASSUME NEW platform, NEW p, Pressable(platform, p),
           Pressed(platform, p).action = "select_unit"
    PROVE  Pressed(platform, p).unit \in Units
  <1> DEFINE data == Encode(platform, p)
  <1>1. Decode(platform, data).action = data.action
    BY DEF Decode, Action, Field
  <1>2. data.action = "select_unit"
    BY <1>1 DEF Pressed
  <1>3. Field(platform, data.action) = "unit"
    BY <1>2 DEF Field, TakesProduct, TakesCategory
  <1>4. data.args[1] \in Units
    BY <1>2, <1>3 DEF Pressable, Accepts
  <1> HIDE DEF data
  <1>5. Decode(platform, data).unit = data.args[1]
    BY <1>3 DEF Decode, Action
  <1> QED
    BY <1>4, <1>5 DEF Pressed, data

LEMMA SlotTypes ==
    ASSUME NEW s \in Slots, NEW unit \in Units
    PROVE  s.startAt \in Nat /\ EndOf(unit, s) \in Nat
  <1>1. s \in SlotPayloads /\ NightLength \in Nat
    BY BookingAssumption DEF BookingAssumption
  <1>2. s.startAt \in Nat /\ s.durationHours \in Nat /\ s.nights \in Nat
    BY <1>1 DEF SlotPayloads
  <1>3. s.nights * NightLength \in Nat
    BY <1>1, <1>2
  <1> QED
    BY <1>1, <1>2, <1>3 DEF EndOf, Quantity, Units

(* Whom a step concerns: its conversation is another record, the others    *)
(* are as before.                                                          *)
LEMMA MoveTypes ==
    ASSUME TypeOK, NEW c \in Customers, NEW event, NEW context \in Record,
           Move(c, event, context)
    PROVE  \E next \in States :
               /\ <<context.state, event, next>> \in TRANSITIONS
               /\ conv' = [conv EXCEPT ![c] = [context EXCEPT !.state = next]]
               /\ conv' \in [Customers -> Record]
  <1>1. PICK next \in States :
            /\ <<context.state, event, next>> \in TRANSITIONS
            /\ conv' = [conv EXCEPT ![c] = [context EXCEPT !.state = next]]
    BY DEF Move
  <1>2. [context EXCEPT !.state = next] \in Record
    BY DEF Record
  <1>3. conv \in [Customers -> Record]
    BY DEF TypeOK, Record
  <1> QED
    BY <1>1, <1>2, <1>3

(* Where each event of the table leads.                                    *)
LEMMA EventTargets ==
    ASSUME NEW from, NEW event, NEW next, <<from, event, next>> \in TRANSITIONS
    PROVE  /\ event \in {"START_BOOKING", "START_NEW_BOOKING"} =>
                  from \notin Asking /\ next = "SELECTING_UNIT"
           /\ event = "SELECT_UNIT" => next = "SELECTING_SLOT"
           /\ event = "SELECT_SLOT" => next = "SELECTING_ROOM"
           /\ event = "SELECT_ROOM" => next = "CONFIRMING"
           /\ event = "CONFIRM_BOOKING" => next = "AWAITING_PAYMENT"
           /\ event = "CANCEL" => next = "CANCELLED"
           /\ event = "PAYMENT_CONFIRMED" => next = "PAID"
  BY DEF TRANSITIONS, Asking

-----------------------------------------------------------------------------
(* The invariant, customer by customer.  Beside the two properties it says *)
(* that a booking under way has no id yet; that the id of a booking leaves *)
(* the record before the order service writes an order into it; and that   *)
(* who is asked to confirm was offered a room that no booking of their own *)
(* has taken since, unless they did not hear of it.                        *)
CustomerInv(c) ==
    /\ InBooking(c) => /\ ~owes[c] /\ ~conv[c].ordered
                       /\ conv[c].state \in Asking
                       /\ conv[c].bookingId = None
    /\ ~InBooking(c) => conv[c].state \in OrderStates
    /\ owes[c] => conv[c].state = "AWAITING_PAYMENT" /\ conv[c].ordered
    /\ conv[c].ordered => conv[c].bookingId = None
    /\ ~InBooking(c) /\ conv[c].state \in {"BROWSING", "CART", "CONFIRMING"}
           => conv[c].bookingId = None
    /\ InBooking(c) /\ conv[c].state = "CONFIRMING" =>
           /\ conv[c].room \in Rooms
           /\ \A b \in BookingIds :
                 Blocking(b) /\ bookings[b].customerId = c /\ b \notin lost
                     => ~Overlaps(b, conv[c].room, conv[c].from, conv[c].to)
    /\ \A b \in BookingIds :
           bookings[b].status = "AWAITING_PAYMENT"
               /\ bookings[b].customerId = c =>
           \/ conv[c].state = "AWAITING_PAYMENT" /\ conv[c].bookingId = b
           \/ b \in lost \cup dropped

RecordInv == TypeOK /\ \A c \in Customers : CustomerInv(c)

LEMMA InvImplies == RecordInv => FlowsStayApart /\ HeldRoomsAreKnown
  <1>1. RecordInv => FlowsStayApart
    BY DEF RecordInv, CustomerInv, FlowsStayApart, Asking, States,
           TerminalOrderStates
  <1>2. RecordInv => HeldRoomsAreKnown
    BY DEF RecordInv, CustomerInv, HeldRoomsAreKnown
  <1> QED
    BY <1>1, <1>2

(* A step that concerns somebody else.                                     *)
SparesBookings(d) ==
    /\ \A b \in BookingIds :
          bookings'[b].customerId = d
              /\ bookings'[b].status \in {"AWAITING_PAYMENT", "PAID"} =>
          bookings'[b] = bookings[b]
    /\ lost \subseteq lost' /\ dropped \subseteq dropped'

SparesRecord(d) == conv'[d] = conv[d] /\ owes'[d] = owes[d]

LEMMA SparedKeepInv ==
    ASSUME NEW d \in Customers, CustomerInv(d), SparesRecord(d),
           SparesBookings(d)
    PROVE  CustomerInv(d)'
  <1>1. \A b \in BookingIds :
           Blocking(b)' /\ bookings'[b].customerId = d /\ b \notin lost' =>
               /\ Blocking(b) /\ bookings[b].customerId = d /\ b \notin lost
               /\ bookings'[b] = bookings[b]
    BY DEF SparesBookings, Blocking
  <1>2. \A b \in BookingIds :
           bookings'[b].status = "AWAITING_PAYMENT"
               /\ bookings'[b].customerId = d =>
           /\ bookings[b].status = "AWAITING_PAYMENT"
           /\ bookings[b].customerId = d
    BY DEF SparesBookings
  <1> QED
    BY <1>1, <1>2
    DEF CustomerInv, SparesRecord, SparesBookings, InBooking, Overlaps

LEMMA SameBookingsSpare ==
    ASSUME UNCHANGED <<bookings, lost>>, dropped \subseteq dropped'
    PROVE  \A d \in Customers : SparesBookings(d)
  BY DEF SparesBookings

-----------------------------------------------------------------------------
(* A step of one customer that leaves the POS alone: what is to be shown   *)
(* of it is the customer's own record.                                     *)
LEMMA OwnStep ==
    ASSUME RecordInv, NEW c \in Customers, NEW r \in Record,
           conv' = [conv EXCEPT ![c] = r],
           named' \in [Customers -> BOOLEAN],
           owes' \in [Customers -> BOOLEAN],
           \A d \in Customers \ {c} : owes'[d] = owes[d],
           UNCHANGED <<bookings, lost, faults>>,
           dropped \subseteq dropped', dropped' \subseteq BookingIds,
           told' \subseteq Customers,
           CustomerInv(c)'
    PROVE  RecordInv'
  <1>1. TypeOK /\ \A d \in Customers : CustomerInv(d)
    BY DEF RecordInv
  <1>2. TypeOK'
    BY <1>1 DEF TypeOK, Record
  <1>3. ASSUME NEW d \in Customers \ {c}
        PROVE  CustomerInv(d)'
    <2>1. SparesRecord(d)
      BY <1>1 DEF SparesRecord, TypeOK
    <2>2. SparesBookings(d)
      BY SameBookingsSpare
    <2> QED
      BY <1>1, <2>1, <2>2, SparedKeepInv
  <1>4. \A d \in Customers : CustomerInv(d)'
    BY <1>3
  <1> QED
    BY <1>2, <1>4 DEF RecordInv

(* The record that a move leaves.                                          *)
LEMMA Moved ==
    ASSUME TypeOK, NEW c \in Customers, NEW event, NEW context \in Record,
           Move(c, event, context)
    PROVE  \E r \in Record :
               /\ conv' = [conv EXCEPT ![c] = r]
               /\ conv'[c] = r
               /\ <<context.state, event, r.state>> \in TRANSITIONS
               /\ r.flow = context.flow /\ r.room = context.room
               /\ r.from = context.from /\ r.to = context.to
               /\ r.bookingId = context.bookingId
               /\ r.ordered = context.ordered
  <1>1. PICK next \in States :
            /\ <<context.state, event, next>> \in TRANSITIONS
            /\ conv' = [conv EXCEPT ![c] = [context EXCEPT !.state = next]]
    BY DEF Move
  <1> DEFINE r == [context EXCEPT !.state = next]
  <1>2. /\ r \in Record
        /\ r.state = next
        /\ r.flow = context.flow /\ r.room = context.room
        /\ r.from = context.from /\ r.to = context.to
        /\ r.bookingId = context.bookingId /\ r.ordered = context.ordered
    BY DEF Record
  <1>3. conv'[c] = r
    BY <1>1 DEF TypeOK
  <1> QED
    BY <1>1, <1>2, <1>3

LEMMA FreshRecord == Fresh \in Record
  BY DEF Fresh, Record, States

LEMMA StartKeepsInv ==
    ASSUME RecordInv, NEW c \in Customers, StartBooking(c)
    PROVE  RecordInv'
  <1> DEFINE loaded == LoadState(c)
             context == [loaded EXCEPT !.flow = "booking"]
             event == IF loaded.state = "IDLE" THEN "START_BOOKING"
                                               ELSE "START_NEW_BOOKING"
  <1>1. TypeOK /\ CustomerInv(c)
    BY DEF RecordInv
  <1>2. loaded \in Record
    BY <1>1, FreshRecord DEF TypeOK, Record, LoadState
  <1>3. /\ context \in Record
        /\ context.state = loaded.state /\ context.flow = "booking"
        /\ context.bookingId = loaded.bookingId
        /\ context.ordered = loaded.ordered
    BY <1>2 DEF Record
  <1>4. Move(c, event, context)
    BY DEF StartBooking
  <1> HIDE DEF context, event
  <1>5. PICK r \in Record :
            /\ conv' = [conv EXCEPT ![c] = r]
            /\ conv'[c] = r
            /\ <<context.state, event, r.state>> \in TRANSITIONS
            /\ r.flow = context.flow
            /\ r.bookingId = context.bookingId /\ r.ordered = context.ordered
    BY <1>1, <1>3, <1>4, Moved
  <1>6. context.state \notin Asking /\ r.state = "SELECTING_UNIT"
    BY <1>5, EventTargets DEF event
  <1>7. ~InBooking(c)
    BY <1>1, <1>3, <1>6 DEF CustomerInv, LoadState
  <1>8. loaded = Fresh
    BY <1>7 DEF LoadState
  <1>9. conv[c].state \in TerminalOrderStates
    BY <1>7 DEF StartBooking, MayStart
  <1>10. ~owes[c]
    BY <1>1, <1>9 DEF CustomerInv, TerminalOrderStates
  <1>11. /\ conv'[c].state = "SELECTING_UNIT" /\ conv'[c].flow = "booking"
         /\ conv'[c].bookingId = None /\ ~conv'[c].ordered
    <2>1. Fresh.bookingId = None /\ ~Fresh.ordered
      BY DEF Fresh
    <2>2. context.bookingId = None /\ ~context.ordered
      BY <1>3, <1>8, <2>1, Zenon
    <2> QED
      BY <1>3, <1>5, <1>6, <2>2, Zenon
  <1>12. UNCHANGED <<named, owes, bookings, lost, dropped, faults>>
         /\ told' \subseteq Customers
    BY <1>1 DEF StartBooking, TypeOK
  <1>13. CustomerInv(c)'
    <2>1. \A b \in BookingIds :
             bookings[b].status = "AWAITING_PAYMENT"
                 /\ bookings[b].customerId = c => b \in lost \cup dropped
      BY <1>1, <1>9 DEF CustomerInv, TerminalOrderStates
    <2> QED
      BY <1>10, <1>11, <1>12, <2>1 DEF CustomerInv, InBooking, Asking
  <1> QED
    BY <1>1, <1>5, <1>12, <1>13, OwnStep DEF TypeOK

(* Whoever is inside a booking holds no room that they know of.            *)
LEMMA BookingHoldsNothing ==
    ASSUME NEW c \in Customers, CustomerInv(c), InBooking(c)
    PROVE  \A b \in BookingIds :
               bookings[b].status = "AWAITING_PAYMENT"
                   /\ bookings[b].customerId = c => b \in lost \cup dropped
  BY DEF CustomerInv, Asking

(* The moves of a booking that leave the POS alone.                        *)
LEMMA BookingMoveKeepsInv ==
    ASSUME RecordInv, NEW c \in Customers, InBooking(c),
           NEW event, NEW context \in Record, Move(c, event, context),
           context.bookingId = None, ~context.ordered,
           \/ event \in {"SELECT_UNIT", "SELECT_SLOT"}
              /\ context.flow = "booking"
           \/ event = "SELECT_ROOM" /\ context.flow = "booking"
              /\ context.room \in Available(context.from, context.to)
           \/ event = "CANCEL" /\ context.flow = "none",
           UNCHANGED <<named, owes, bookings, lost, dropped, faults>>,
           told' \subseteq Customers
    PROVE  RecordInv'
  <1>1. TypeOK /\ CustomerInv(c)
    BY DEF RecordInv
  <1>2. PICK r \in Record :
            /\ conv' = [conv EXCEPT ![c] = r]
            /\ conv'[c] = r
            /\ <<context.state, event, r.state>> \in TRANSITIONS
            /\ r.flow = context.flow /\ r.room = context.room
            /\ r.from = context.from /\ r.to = context.to
            /\ r.bookingId = context.bookingId
            /\ r.ordered = context.ordered
    BY <1>1, Moved
  <1>3. /\ conv'[c].bookingId = None /\ ~conv'[c].ordered
        /\ conv'[c].flow = context.flow /\ conv'[c].state = r.state
    BY <1>2, Zenon
  <1>4. /\ event = "SELECT_UNIT" => r.state = "SELECTING_SLOT"
        /\ event = "SELECT_SLOT" => r.state = "SELECTING_ROOM"
        /\ event = "SELECT_ROOM" => r.state = "CONFIRMING"
        /\ event = "CANCEL" => r.state = "CANCELLED"
    BY <1>2, EventTargets
  <1>5. ~owes[c] /\ ~owes'[c]
    BY <1>1 DEF CustomerInv
  <1>6. ASSUME InBooking(c)', r.state = "CONFIRMING"
        PROVE  /\ conv'[c].room \in Rooms
               /\ \A b \in BookingIds :
                     Blocking(b)' =>
                         ~Overlaps(b, conv[c].room, conv[c].from, conv[c].to)'
    <2>1. event = "SELECT_ROOM"
      BY <1>3, <1>4, <1>6 DEF InBooking
    <2>2. context.room \in Available(context.from, context.to)
      BY <2>1
    <2>3. /\ context.room \in Rooms
          /\ \A b \in BookingIds :
                Blocking(b) =>
                    ~Overlaps(b, context.room, context.from, context.to)
      BY <2>2, Zenon DEF Available
    <2>4. /\ conv'[c].room = context.room
          /\ conv'[c].from = context.from /\ conv'[c].to = context.to
      BY <1>2
    <2> QED
      BY <2>3, <2>4 DEF Blocking, Overlaps
  <1>7. CustomerInv(c)'
    <2>1. \A b \in BookingIds :
             bookings[b].status = "AWAITING_PAYMENT"
                 /\ bookings[b].customerId = c => b \in lost \cup dropped
      BY <1>1, BookingHoldsNothing
    <2> QED
      BY <1>3, <1>4, <1>5, <1>6, <2>1
      DEF CustomerInv, InBooking, Asking, OrderStates
  <1> QED
    BY <1>1, <1>2, <1>7, OwnStep DEF TypeOK

(* The record of somebody inside a booking.                                *)
LEMMA BookingRecord ==
    ASSUME RecordInv, NEW c \in Customers, InBooking(c)
    PROVE  /\ TypeOK
           /\ conv[c] \in Record
           /\ conv[c].flow = "booking" /\ conv[c].bookingId = None
           /\ ~conv[c].ordered
           /\ told \subseteq Customers
  <1>1. TypeOK /\ CustomerInv(c)
    BY DEF RecordInv
  <1> QED
    BY <1>1 DEF TypeOK, Record, CustomerInv, InBooking

LEMMA ChooseUnitKeepsInv ==
    ASSUME RecordInv, NEW c \in Customers, NEW platform, NEW p,
           Pressable(platform, p), ChooseUnit(c, Pressed(platform, p))
    PROVE  RecordInv'
  <1> DEFINE unit == Pressed(platform, p).unit
             context == [conv[c] EXCEPT !.unit = unit]
  <1>1. InBooking(c)
    BY DEF ChooseUnit
  <1>2. unit \in Units
    BY PressedUnits DEF ChooseUnit
  <1> HIDE DEF unit
  <1>3. context \in Record /\ context.flow = "booking"
           /\ context.bookingId = None
    BY <1>1, <1>2, BookingRecord DEF Record
  <1>4. ~context.ordered
    <2>1. context.ordered = conv[c].ordered
      BY <1>1, BookingRecord DEF Record
    <2> QED
      BY <1>1, <2>1, BookingRecord, Zenon
  <1>5. Move(c, "SELECT_UNIT", context)
    BY DEF ChooseUnit, unit
  <1> HIDE DEF context
  <1>6. UNCHANGED <<named, owes, bookings, lost, dropped, told, faults>>
    BY DEF ChooseUnit
  <1> QED
    BY <1>1, <1>3, <1>4, <1>5, <1>6, BookingRecord, BookingMoveKeepsInv

LEMMA ChooseSlotKeepsInv ==
    ASSUME RecordInv, NEW c \in Customers, NEW s \in Slots, ChooseSlot(c, s)
    PROVE  RecordInv'
  <1> DEFINE end == EndOf(conv[c].unit, s)
             context == [conv[c] EXCEPT !.from = s.startAt, !.to = end]
  <1>1. InBooking(c) /\ conv[c].unit # None
    BY DEF ChooseSlot
  <1>2. s.startAt \in Nat /\ end \in Nat
    BY <1>1, BookingRecord, SlotTypes DEF Record
  <1> HIDE DEF end
  <1>3. context \in Record /\ context.flow = "booking"
           /\ context.bookingId = None
    BY <1>1, <1>2, BookingRecord DEF Record
  <1>4. ~context.ordered
    <2>1. context.ordered = conv[c].ordered
      BY <1>1, BookingRecord DEF Record
    <2> QED
      BY <1>1, <2>1, BookingRecord, Zenon
  <1>5. Move(c, "SELECT_SLOT", context)
    BY DEF ChooseSlot, end
  <1> HIDE DEF context
  <1>6. UNCHANGED <<named, owes, bookings, lost, dropped, told, faults>>
    BY DEF ChooseSlot
  <1> QED
    BY <1>1, <1>3, <1>4, <1>5, <1>6, BookingRecord, BookingMoveKeepsInv

LEMMA ChooseRoomKeepsInv ==
    ASSUME RecordInv, NEW c \in Customers, NEW m, ChooseRoom(c, m)
    PROVE  RecordInv'
  <1> DEFINE context == [conv[c] EXCEPT !.room = m.roomId]
  <1>1. InBooking(c) /\ m.roomId \in Available(conv[c].from, conv[c].to)
    BY DEF ChooseRoom
  <1>2. m.roomId \in Rooms
    BY <1>1 DEF Available
  <1>3. /\ context \in Record /\ context.flow = "booking"
        /\ context.bookingId = None
        /\ context.room = m.roomId
        /\ context.from = conv[c].from /\ context.to = conv[c].to
    BY <1>1, <1>2, BookingRecord DEF Record
  <1>4. ~context.ordered
    <2>1. context.ordered = conv[c].ordered
      BY <1>1, BookingRecord DEF Record
    <2> QED
      BY <1>1, <2>1, BookingRecord, Zenon
  <1>5. Move(c, "SELECT_ROOM", context)
    BY DEF ChooseRoom
  <1> HIDE DEF context
  <1>6. context.room \in Available(context.from, context.to)
    BY <1>1, <1>3
  <1>7. UNCHANGED <<named, owes, bookings, lost, dropped, told, faults>>
    BY DEF ChooseRoom
  <1> QED
    BY <1>1, <1>3, <1>4, <1>5, <1>6, <1>7, BookingRecord,
       BookingMoveKeepsInv

(* A booking that is given up, by the customer or for a room that is gone. *)
LEMMA LeavingKeepsInv ==
    ASSUME RecordInv, NEW c \in Customers, InBooking(c),
           Move(c, "CANCEL", [conv[c] EXCEPT !.flow = "none"]),
           UNCHANGED <<named, owes, bookings, lost, dropped, faults>>,
           told' \subseteq Customers
    PROVE  RecordInv'
  <1> DEFINE context == [conv[c] EXCEPT !.flow = "none"]
  <1>1. context \in Record /\ context.flow = "none"
           /\ context.bookingId = None
    BY BookingRecord DEF Record
  <1>2. ~context.ordered
    <2>1. context.ordered = conv[c].ordered
      BY BookingRecord DEF Record
    <2> QED
      BY <2>1, BookingRecord, Zenon
  <1>3. Move(c, "CANCEL", context)
    OBVIOUS
  <1> HIDE DEF context
  <1> QED
    BY <1>1, <1>2, <1>3, BookingMoveKeepsInv

LEMMA TakenKeepsInv ==
    ASSUME RecordInv, NEW c \in Customers, NEW m, Taken(c, m)
    PROVE  RecordInv'
  <1>1. InBooking(c)
    BY DEF Taken, Confirms
  <1>2. told' \subseteq Customers
    BY <1>1, BookingRecord DEF Taken
  <1> QED
    BY <1>1, <1>2, LeavingKeepsInv DEF Taken

LEMMA CancelBookingKeepsInv ==
    ASSUME RecordInv, NEW c \in Customers, CancelBooking(c)
    PROVE  RecordInv'
  <1>1. InBooking(c)
    BY DEF CancelBooking
  <1>2. UNCHANGED bookings /\ told' \subseteq Customers
    BY <1>1, BookingRecord DEF CancelBooking
  <1> QED
    BY <1>1, <1>2, LeavingKeepsInv DEF CancelBooking

-----------------------------------------------------------------------------
(* The order service.                                                      *)

(* An order step that only changes the state of the record.                *)
LEMMA StateChange ==
    ASSUME TypeOK, NEW c \in Customers, NEW state \in OrderStates,
           conv' = [conv EXCEPT ![c].state = state]
    PROVE  \E r \in Record :
               /\ conv' = [conv EXCEPT ![c] = r]
               /\ conv'[c] = r
               /\ r.state = state
               /\ r.flow = conv[c].flow
               /\ r.bookingId = conv[c].bookingId
               /\ r.ordered = conv[c].ordered
  <1> DEFINE r == [conv[c] EXCEPT !.state = state]
  <1>1. conv \in [Customers -> Record] /\ conv[c] \in Record
    BY DEF TypeOK, Record
  <1>2. r \in Record
    BY <1>1 DEF Record
  <1>3. conv' = [conv EXCEPT ![c] = r] /\ conv'[c] = r
    BY <1>1
  <1>4. /\ r.state = state /\ r.flow = conv[c].flow
        /\ r.bookingId = conv[c].bookingId /\ r.ordered = conv[c].ordered
    BY <1>1 DEF Record
  <1> QED
    BY <1>2, <1>3, <1>4

LEMMA BrowseKeepsInv ==
    ASSUME RecordInv, NEW c \in Customers, Browse(c)
    PROVE  RecordInv'
  <1> DEFINE r == [Fresh EXCEPT !.state = "BROWSING", !.flow = "order"]
  <1>1. TypeOK /\ CustomerInv(c)
    BY DEF RecordInv
  <1>2. r \in Record
    BY FreshRecord DEF Record, OrderStates
  <1>3. /\ conv' = [conv EXCEPT ![c] = r]
        /\ conv'[c] = r
    BY <1>1 DEF Browse, TypeOK
  <1>4. /\ conv'[c].state = "BROWSING" /\ conv'[c].flow = "order"
        /\ conv'[c].bookingId = None
    <2>1. r.state = "BROWSING" /\ r.flow = "order" /\ r.bookingId = None
      BY DEF Fresh
    <2> QED
      BY ONLY <1>3, <2>1
  <1>5. ~conv'[c].ordered
    <2>1. ~r.ordered
      BY DEF Fresh
    <2> QED
      BY <1>3, <2>1, Zenon
  <1>6. /\ UNCHANGED <<named, owes, bookings, lost, dropped, told, faults>>
        /\ ~owes[c] /\ conv[c].state \in TerminalOrderStates
    BY DEF Browse
  <1>7. CustomerInv(c)'
    <2>1. \A b \in BookingIds :
             bookings[b].status = "AWAITING_PAYMENT"
                 /\ bookings[b].customerId = c => b \in lost \cup dropped
      BY <1>1, <1>6 DEF CustomerInv, TerminalOrderStates
    <2> QED
      BY <1>4, <1>5, <1>6, <2>1 DEF CustomerInv, InBooking, OrderStates
  <1> QED
    BY <1>1, <1>2, <1>3, <1>6, <1>7, OwnStep DEF TypeOK

LEMMA ShopKeepsInv ==
    ASSUME RecordInv, NEW c \in Customers, Shop(c)
    PROVE  RecordInv'
  <1>1. TypeOK /\ CustomerInv(c) /\ ~InBooking(c)
    BY DEF RecordInv, Shop, Ordering
  <1>2. PICK state \in {"CART", "CONFIRMING"} :
            /\ conv[c].state \in {"BROWSING", "CART", "CONFIRMING"}
            /\ conv' = [conv EXCEPT ![c].state = state]
    <2>1. PICK step \in {<<"BROWSING", "CART">>, <<"CART", "CONFIRMING">>,
                         <<"CONFIRMING", "CART">>} :
              /\ conv[c].state = step[1]
              /\ conv' = [conv EXCEPT ![c].state = step[2]]
      BY DEF Shop
    <2>2. /\ step[1] \in {"BROWSING", "CART", "CONFIRMING"}
          /\ step[2] \in {"CART", "CONFIRMING"}
      BY <2>1
    <2> QED
      BY <2>1, <2>2
  <1>3. PICK r \in Record :
            /\ conv' = [conv EXCEPT ![c] = r]
            /\ conv'[c] = r
            /\ r.state = state
            /\ r.flow = conv[c].flow
            /\ r.bookingId = conv[c].bookingId
            /\ r.ordered = conv[c].ordered
    <2>1. state \in OrderStates
      BY DEF OrderStates
    <2> QED
      BY <1>1, <1>2, <2>1, StateChange
  <1>4. UNCHANGED <<named, owes, bookings, lost, dropped, told, faults>>
    BY DEF Shop
  <1>5. /\ conv'[c].state = state /\ conv'[c].flow = conv[c].flow
        /\ conv'[c].bookingId = None
    BY <1>1, <1>2, <1>3 DEF CustomerInv
  <1>6. ~owes[c]
    BY <1>1, <1>2 DEF CustomerInv
  <1>7. CustomerInv(c)'
    BY <1>1, <1>2, <1>4, <1>5, <1>6 DEF CustomerInv, InBooking, OrderStates
  <1> QED
    BY <1>1, <1>3, <1>4, <1>7, OwnStep DEF TypeOK

LEMMA PlaceOrderKeepsInv ==
    ASSUME RecordInv, NEW c \in Customers, PlaceOrder(c)
    PROVE  RecordInv'
  <1> DEFINE r == [conv[c] EXCEPT !.state = "AWAITING_PAYMENT",
                                  !.ordered = TRUE]
  <1>1. TypeOK /\ CustomerInv(c) /\ ~InBooking(c)
           /\ conv[c].state = "CONFIRMING"
    BY DEF RecordInv, PlaceOrder, Ordering
  <1>2. conv \in [Customers -> Record] /\ conv[c] \in Record
    BY <1>1 DEF TypeOK, Record
  <1>3. r \in Record
    BY <1>2 DEF Record, OrderStates
  <1>4. conv' = [conv EXCEPT ![c] = r] /\ conv'[c] = r
    BY <1>2 DEF PlaceOrder
  <1>5. /\ r.state = "AWAITING_PAYMENT" /\ r.flow = conv[c].flow
        /\ r.bookingId = None /\ r.ordered
    BY <1>1, <1>2 DEF Record, CustomerInv
  <1>6. UNCHANGED <<named, bookings, lost, dropped, told, faults>>
    BY DEF PlaceOrder
  <1>7. /\ owes' \in [Customers -> BOOLEAN]
        /\ \A d \in Customers \ {c} : owes'[d] = owes[d]
    BY <1>1 DEF PlaceOrder, TypeOK
  <1>8. CustomerInv(c)'
    <2>1. \A b \in BookingIds :
             bookings[b].status = "AWAITING_PAYMENT"
                 /\ bookings[b].customerId = c => b \in lost \cup dropped
      BY <1>1 DEF CustomerInv
    <2>2. /\ conv'[c].state = "AWAITING_PAYMENT"
          /\ conv'[c].flow = conv[c].flow
          /\ conv'[c].bookingId = None /\ conv'[c].ordered
      BY <1>4, <1>5, Zenon
    <2> QED
      BY <1>1, <1>6, <2>1, <2>2 DEF CustomerInv, InBooking, OrderStates
  <1> QED
    BY <1>1, <1>3, <1>4, <1>6, <1>7, <1>8, OwnStep DEF TypeOK

LEMMA CancelOrderKeepsInv ==
    ASSUME RecordInv, NEW c \in Customers, CancelOrder(c)
    PROVE  RecordInv'
  <1>1. TypeOK /\ CustomerInv(c) /\ ~InBooking(c)
    BY DEF RecordInv, CancelOrder, Ordering
  <1>2. PICK r \in Record :
            /\ conv' = [conv EXCEPT ![c] = r]
            /\ conv'[c] = r
            /\ r.state = "CANCELLED"
            /\ r.flow = conv[c].flow
            /\ r.bookingId = conv[c].bookingId
            /\ r.ordered = conv[c].ordered
    BY <1>1, StateChange DEF CancelOrder, OrderStates
  <1>3. /\ UNCHANGED <<named, bookings, lost, faults, told>>
        /\ dropped' = dropped \cup ({conv[c].bookingId} \ {None})
    BY DEF CancelOrder
  <1>4. /\ owes' \in [Customers -> BOOLEAN]
        /\ \A d \in Customers \ {c} : owes'[d] = owes[d]
    BY <1>1 DEF CancelOrder, TypeOK
  <1>5. ~owes'[c]
    <2>1. owes'[c] = (owes[c] /\ ~conv[c].ordered)
      BY <1>1 DEF CancelOrder, TypeOK
    <2> QED
      BY <1>1, <2>1, Zenon DEF CustomerInv
  <1>6. dropped \subseteq dropped' /\ dropped' \subseteq BookingIds
    BY <1>1, <1>3 DEF TypeOK
  <1>7. CustomerInv(c)'
    <2>1. /\ conv'[c].state = "CANCELLED" /\ conv'[c].flow = conv[c].flow
          /\ conv'[c].bookingId = conv[c].bookingId
          /\ conv'[c].ordered = conv[c].ordered
      BY <1>2, Zenon
    <2>2. conv[c].ordered => conv[c].bookingId = None
      BY <1>1 DEF CustomerInv
    <2>3. conv'[c].ordered => conv'[c].bookingId = None
      BY <2>1, <2>2, Zenon
    <2>4. \A b \in BookingIds :
             bookings[b].status = "AWAITING_PAYMENT"
                 /\ bookings[b].customerId = c => b \in lost \cup dropped'
      BY <1>1, <1>3, BookingAssumption DEF CustomerInv, BookingAssumption
    <2> QED
      BY <1>1, <1>3, <1>5, <2>1, <2>3, <2>4
      DEF CustomerInv, InBooking, OrderStates
  <1> QED
    BY <1>1, <1>2, <1>3, <1>4, <1>6, <1>7, OwnStep DEF TypeOK

LEMMA ResolveOrderKeepsInv ==
    ASSUME RecordInv, NEW c \in Customers, ResolveOrder(c)
    PROVE  RecordInv'
  <1>1. TypeOK /\ CustomerInv(c) /\ owes[c]
    BY DEF RecordInv, ResolveOrder
  <1>2. /\ conv[c].state = "AWAITING_PAYMENT" /\ conv[c].ordered
        /\ ~InBooking(c) /\ conv[c].bookingId = None
    BY <1>1 DEF CustomerInv
  <1>3. PICK state \in {"PAID", "EXPIRED"} :
            conv' = [conv EXCEPT ![c].state = state]
    BY <1>2 DEF ResolveOrder
  <1>4. PICK r \in Record :
            /\ conv' = [conv EXCEPT ![c] = r]
            /\ conv'[c] = r
            /\ r.state = state
            /\ r.flow = conv[c].flow
            /\ r.bookingId = conv[c].bookingId
            /\ r.ordered = conv[c].ordered
    <2>1. state \in OrderStates
      BY DEF OrderStates
    <2> QED
      BY <1>1, <1>3, <2>1, StateChange
  <1>5. UNCHANGED <<named, bookings, lost, dropped, told, faults>>
    BY DEF ResolveOrder
  <1>6. /\ owes' \in [Customers -> BOOLEAN] /\ ~owes'[c]
        /\ \A d \in Customers \ {c} : owes'[d] = owes[d]
    BY <1>1 DEF ResolveOrder, TypeOK
  <1>7. CustomerInv(c)'
    <2>1. /\ conv'[c].state = state /\ conv'[c].flow = conv[c].flow
          /\ conv'[c].bookingId = None
      BY <1>2, <1>4
    <2>2. \A b \in BookingIds :
             bookings[b].status = "AWAITING_PAYMENT"
                 /\ bookings[b].customerId = c => b \in lost \cup dropped
      BY <1>1, <1>2, BookingAssumption DEF CustomerInv, BookingAssumption
    <2> QED
      BY <1>2, <1>3, <1>5, <1>6, <2>1, <2>2
      DEF CustomerInv, InBooking, OrderStates
  <1> QED
    BY <1>1, <1>4, <1>5, <1>6, <1>7, OwnStep DEF TypeOK

LEMMA GiveNameKeepsInv ==
    ASSUME RecordInv, NEW c \in Customers, GiveName(c)
    PROVE  RecordInv'
  <1>1. TypeOK'
    BY DEF RecordInv, TypeOK, GiveName
  <1>2. ASSUME NEW d \in Customers
        PROVE  CustomerInv(d)'
    <2>1. SparesRecord(d) /\ SparesBookings(d) /\ CustomerInv(d)
      BY SameBookingsSpare DEF GiveName, SparesRecord, RecordInv
    <2> QED
      BY <2>1, SparedKeepInv
  <1> QED
    BY <1>1, <1>2 DEF RecordInv

-----------------------------------------------------------------------------
(* Steps at the POS.                                                       *)

(* A new booking is its owner's concern alone.                             *)
LEMMA CreateSparesOthers ==
    ASSUME TypeOK, NEW b \in BookingIds, NEW owner \in Customers \cup {Walkin},
           NEW room, NEW from \in Nat, NEW to \in Nat,
           Create(b, owner, room, from, to),
           lost \subseteq lost', UNCHANGED dropped,
           NEW d \in Customers, d # owner
    PROVE  SparesBookings(d)
  <1>1. /\ bookings'[b].customerId = owner
        /\ \A x \in BookingIds \ {b} : bookings'[x] = bookings[x]
    BY DEF Create, TypeOK
  <1> QED
    BY <1>1 DEF SparesBookings

LEMMA CreateTypes ==
    ASSUME TypeOK, NEW b \in BookingIds, NEW owner \in Customers \cup {Walkin},
           NEW room, NEW from \in Nat, NEW to \in Nat,
           Create(b, owner, room, from, to)
    PROVE  bookings' \in [BookingIds -> Held]
  <1>1. room \in Rooms
    BY DEF Create, Available
  <1>2. bookings \in [BookingIds -> Held]
    BY DEF TypeOK, Held
  <1> QED
    BY <1>1, <1>2 DEF Create, Held

LEMMA BookedKeepsInv ==
    ASSUME RecordInv, NEW c \in Customers, NEW m, Booked(c, m)
    PROVE  RecordInv'
  <1>1. TypeOK /\ CustomerInv(c) /\ InBooking(c)
    BY DEF RecordInv, Booked, Confirms
  <1>2. PICK b \in BookingIds :
            /\ Request(c, b)
            /\ Move(c, "CONFIRM_BOOKING",
                    [conv[c] EXCEPT !.bookingId = b, !.flow = "none"])
    BY DEF Booked
  <1> DEFINE context == [conv[c] EXCEPT !.bookingId = b, !.flow = "none"]
  <1>3. Create(b, c, conv[c].room, conv[c].from, conv[c].to)
    BY <1>2 DEF Request
  <1>4. conv[c].from \in Nat /\ conv[c].to \in Nat /\ conv[c] \in Record
    BY <1>1 DEF TypeOK, Record
  <1>5. context \in Record /\ context.flow = "none" /\ context.bookingId = b
           /\ context.ordered = conv[c].ordered
    BY <1>4 DEF Record
  <1>6. Move(c, "CONFIRM_BOOKING", context)
    BY <1>2
  <1> HIDE DEF context
  <1>7. PICK r \in Record :
            /\ conv' = [conv EXCEPT ![c] = r]
            /\ conv'[c] = r
            /\ <<context.state, "CONFIRM_BOOKING", r.state>> \in TRANSITIONS
            /\ r.flow = context.flow
            /\ r.bookingId = context.bookingId
            /\ r.ordered = context.ordered
    BY <1>1, <1>5, <1>6, Moved
  <1>8. /\ conv'[c].state = "AWAITING_PAYMENT" /\ conv'[c].flow = "none"
        /\ conv'[c].bookingId = b
    BY <1>5, <1>7, EventTargets
  <1>9. ~conv'[c].ordered
    BY <1>1, <1>5, <1>7, Zenon DEF CustomerInv
  <1>10. UNCHANGED <<named, owes, lost, dropped, told, faults>>
    BY DEF Booked
  <1>11. bookings' \in [BookingIds -> Held]
    BY <1>1, <1>3, <1>4, CreateTypes
  <1>12. TypeOK'
    BY <1>1, <1>7, <1>10, <1>11 DEF TypeOK, Record, Held
  <1>13. CustomerInv(c)'
    <2>1. \A x \in BookingIds \ {b} : bookings'[x] = bookings[x]
      BY <1>1, <1>3 DEF Create, TypeOK
    <2>2. \A x \in BookingIds :
             bookings[x].status = "AWAITING_PAYMENT"
                 /\ bookings[x].customerId = c => x \in lost \cup dropped
      BY <1>1, BookingHoldsNothing
    <2>3. \A x \in BookingIds :
             bookings'[x].status = "AWAITING_PAYMENT"
                 /\ bookings'[x].customerId = c =>
             x = b \/ x \in lost \cup dropped
      BY <2>1, <2>2
    <2>4. ~owes[c]
      BY <1>1 DEF CustomerInv
    <2> QED
      BY <1>8, <1>9, <1>10, <2>3, <2>4
      DEF CustomerInv, InBooking, OrderStates
  <1>14. ASSUME NEW d \in Customers \ {c}
         PROVE  CustomerInv(d)'
    <2>1. SparesRecord(d) /\ CustomerInv(d)
      BY <1>1, <1>7, <1>10 DEF SparesRecord, TypeOK, RecordInv
    <2>2. SparesBookings(d)
      BY <1>1, <1>3, <1>4, <1>10, CreateSparesOthers
    <2> QED
      BY <2>1, <2>2, SparedKeepInv
  <1> QED
    BY <1>12, <1>13, <1>14 DEF RecordInv

(* A booking the customer did not hear of is not in the record, and is     *)
(* known to be lost.                                                       *)
LEMMA BookedUnansweredKeepsInv ==
    ASSUME RecordInv, NEW c \in Customers, NEW m, BookedUnanswered(c, m)
    PROVE  RecordInv'
  <1>1. TypeOK /\ CustomerInv(c) /\ InBooking(c)
    BY DEF RecordInv, BookedUnanswered, Confirms
  <1>2. PICK b \in BookingIds : Request(c, b) /\ lost' = lost \cup {b}
    BY DEF BookedUnanswered
  <1>3. Create(b, c, conv[c].room, conv[c].from, conv[c].to)
    BY <1>2 DEF Request
  <1>4. conv[c].from \in Nat /\ conv[c].to \in Nat
    BY <1>1 DEF TypeOK
  <1>5. UNCHANGED <<conv, named, owes, dropped, told>>
           /\ faults' \in 0 .. MaxFaults
    BY <1>1, BookingAssumption
    DEF BookedUnanswered, BookingAssumption, TypeOK
  <1>6. bookings' \in [BookingIds -> Held]
    BY <1>1, <1>3, <1>4, CreateTypes
  <1>7. TypeOK'
    BY <1>1, <1>2, <1>5, <1>6 DEF TypeOK, Held
  <1>8. CustomerInv(c)'
    <2>1. \A x \in BookingIds \ {b} : bookings'[x] = bookings[x]
      BY <1>1, <1>3 DEF Create, TypeOK
    <2> QED
      BY <1>1, <1>2, <1>5, <2>1
      DEF CustomerInv, InBooking, Blocking, Overlaps
  <1>9. ASSUME NEW d \in Customers \ {c}
        PROVE  CustomerInv(d)'
    <2>1. SparesRecord(d) /\ CustomerInv(d)
      BY <1>5 DEF SparesRecord, RecordInv
    <2>2. SparesBookings(d)
      BY <1>1, <1>2, <1>3, <1>4, <1>5, CreateSparesOthers
    <2> QED
      BY <2>1, <2>2, SparedKeepInv
  <1> QED
    BY <1>7, <1>8, <1>9 DEF RecordInv

LEMMA WalkInKeepsInv ==
    ASSUME RecordInv, NEW s \in Slots, NEW room \in Rooms, WalkIn(s, room)
    PROVE  RecordInv'
  <1>1. PICK b \in BookingIds, unit \in Units :
            Create(b, Walkin, room, s.startAt, EndOf(unit, s))
    BY DEF WalkIn
  <1> DEFINE end == EndOf(unit, s)
  <1>2. TypeOK /\ s.startAt \in Nat /\ end \in Nat
    BY SlotTypes DEF RecordInv
  <1> HIDE DEF end
  <1>3. Create(b, Walkin, room, s.startAt, end)
    BY <1>1 DEF end
  <1>4. UNCHANGED <<conv, named, owes, lost, dropped, told, faults>>
    BY DEF WalkIn
  <1>5. bookings' \in [BookingIds -> Held]
    BY <1>2, <1>3, CreateTypes
  <1>6. TypeOK'
    BY <1>2, <1>4, <1>5 DEF TypeOK, Held
  <1>7. ASSUME NEW d \in Customers
        PROVE  CustomerInv(d)'
    <2>1. SparesRecord(d) /\ CustomerInv(d)
      BY <1>4 DEF SparesRecord, RecordInv
    <2>2. d # Walkin
      BY BookingAssumption DEF BookingAssumption
    <2>3. SparesBookings(d)
      BY <1>2, <1>3, <1>4, <2>2, CreateSparesOthers
    <2> QED
      BY <2>1, <2>3, SparedKeepInv
  <1> QED
    BY <1>6, <1>7 DEF RecordInv

(* What a change of status leaves.                                         *)
LEMMA SetStatusShape ==
    ASSUME TypeOK, NEW b \in BookingIds, NEW status \in {"PAID", "CANCELLED"},
           SetStatus(b, status)
    PROVE  /\ bookings' \in [BookingIds -> Held]
           /\ bookings'[b].status = status
           /\ bookings'[b].customerId = bookings[b].customerId
           /\ bookings'[b].room = bookings[b].room
           /\ bookings'[b].from = bookings[b].from
           /\ bookings'[b].to = bookings[b].to
           /\ \A x \in BookingIds \ {b} : bookings'[x] = bookings[x]
  <1>1. bookings \in [BookingIds -> Held] /\ bookings[b] \in Held
    BY DEF TypeOK, Held
  <1>2. bookings' = [bookings EXCEPT ![b] = [bookings[b] EXCEPT
                                                 !.status = status]]
    BY <1>1 DEF SetStatus
  <1> QED
    BY <1>1, <1>2 DEF Held

(* A booking that is cancelled holds no room; nobody's record changes.     *)
LEMMA PosCancelsKeepsInv ==
    ASSUME RecordInv, NEW b \in BookingIds, PosCancels(b)
    PROVE  RecordInv'
  <1>1. TypeOK
    BY DEF RecordInv
  <1>2. /\ bookings' \in [BookingIds -> Held]
        /\ bookings'[b].status = "CANCELLED"
        /\ \A x \in BookingIds \ {b} : bookings'[x] = bookings[x]
    BY <1>1, SetStatusShape DEF PosCancels
  <1>3. UNCHANGED <<conv, named, owes, lost, dropped, told, faults>>
    BY DEF PosCancels
  <1>4. TypeOK'
    BY <1>1, <1>2, <1>3 DEF TypeOK, Held
  <1>5. ASSUME NEW d \in Customers
        PROVE  CustomerInv(d)'
    BY <1>2, <1>3, SparedKeepInv DEF SparesRecord, SparesBookings, RecordInv
  <1> QED
    BY <1>4, <1>5 DEF RecordInv

LEMMA ConfirmPaymentKeepsInv ==
    ASSUME RecordInv, NEW b \in BookingIds, ConfirmPayment(b)
    PROVE  RecordInv'
  <1>1. PICK c \in Customers : c = bookings[b].customerId
    BY DEF ConfirmPayment
  <1> DEFINE here == conv[c].state = "AWAITING_PAYMENT"
                        /\ conv[c].bookingId = b
  <1>2. /\ TypeOK /\ CustomerInv(c)
        /\ bookings[b].status = "AWAITING_PAYMENT"
        /\ SetStatus(b, "PAID")
        /\ UNCHANGED <<named, owes, lost, dropped, told, faults>>
        /\ here => Move(c, "PAYMENT_CONFIRMED", conv[c])
        /\ ~here => UNCHANGED conv
    BY <1>1 DEF ConfirmPayment, RecordInv
  <1>3. /\ bookings' \in [BookingIds -> Held]
        /\ bookings'[b].status = "PAID" /\ bookings'[b].customerId = c
        /\ bookings'[b].room = bookings[b].room
        /\ bookings'[b].from = bookings[b].from
        /\ bookings'[b].to = bookings[b].to
        /\ \A x \in BookingIds \ {b} : bookings'[x] = bookings[x]
    BY <1>1, <1>2, SetStatusShape
  <1>4. CASE here
    <2>1. conv[c] \in Record
      BY <1>2 DEF TypeOK, Record
    <2>2. PICK r \in Record :
              /\ conv' = [conv EXCEPT ![c] = r]
              /\ conv'[c] = r
              /\ <<conv[c].state, "PAYMENT_CONFIRMED", r.state>>
                     \in TRANSITIONS
              /\ r.flow = conv[c].flow
              /\ r.bookingId = conv[c].bookingId
              /\ r.ordered = conv[c].ordered
      <3>1. TypeOK /\ Move(c, "PAYMENT_CONFIRMED", conv[c])
        BY <1>2, <1>4
      <3> QED
        BY <2>1, <3>1, Moved
    <2>3. /\ conv'[c].state = "PAID" /\ conv'[c].flow = conv[c].flow
          /\ conv'[c].bookingId = b
      BY <1>4, <2>2, EventTargets
    <2>4. b # None
      BY BookingAssumption DEF BookingAssumption
    <2>5. ~InBooking(c) /\ ~conv[c].ordered /\ ~owes[c]
      BY <1>2, <1>4, <2>4 DEF CustomerInv
    <2>6. ~conv'[c].ordered
      BY <2>2, <2>5, Zenon
    <2>7. TypeOK'
      BY <1>2, <1>3, <2>2 DEF TypeOK, Record, Held
    <2>8. CustomerInv(c)'
      <3>1. \A x \in BookingIds :
               bookings'[x].status = "AWAITING_PAYMENT"
                   /\ bookings'[x].customerId = c => x \in lost \cup dropped
        BY <1>2, <1>3, <1>4 DEF CustomerInv
      <3> QED
        BY <1>2, <2>3, <2>5, <2>6, <3>1
        DEF CustomerInv, InBooking, OrderStates
    <2>9. ASSUME NEW d \in Customers \ {c}
          PROVE  CustomerInv(d)'
      <3>1. SparesRecord(d) /\ CustomerInv(d)
        BY <1>2, <2>2 DEF SparesRecord, TypeOK, RecordInv
      <3>2. SparesBookings(d)
        BY <1>2, <1>3 DEF SparesBookings
      <3> QED
        BY <3>1, <3>2, SparedKeepInv
    <2> QED
      BY <2>7, <2>8, <2>9 DEF RecordInv
  <1>5. CASE ~here
    <2>1. UNCHANGED conv
      BY <1>2, <1>5
    <2>2. TypeOK'
      BY <1>2, <1>3, <2>1 DEF TypeOK, Held
    <2>3. CustomerInv(c)'
      <3>1. \A x \in BookingIds :
               /\ Blocking(x)' => Blocking(x)
               /\ bookings'[x].customerId = bookings[x].customerId
               /\ bookings'[x].room = bookings[x].room
               /\ bookings'[x].from = bookings[x].from
               /\ bookings'[x].to = bookings[x].to
        BY <1>1, <1>2, <1>3 DEF Blocking
      <3>2. \A x \in BookingIds :
               bookings'[x].status = "AWAITING_PAYMENT" =>
                   bookings[x].status = "AWAITING_PAYMENT"
        BY <1>2, <1>3
      <3> QED
        BY <1>2, <2>1, <3>1, <3>2 DEF CustomerInv, InBooking, Overlaps
    <2>4. ASSUME NEW d \in Customers \ {c}
          PROVE  CustomerInv(d)'
      <3>1. SparesRecord(d) /\ CustomerInv(d)
        BY <1>2, <2>1 DEF SparesRecord, RecordInv
      <3>2. SparesBookings(d)
        BY <1>2, <1>3 DEF SparesBookings
      <3> QED
        BY <3>1, <3>2, SparedKeepInv
    <2> QED
      BY <2>2, <2>3, <2>4 DEF RecordInv
  <1> QED
    BY <1>4, <1>5

LEMMA InitRecord == Init => RecordInv
  <1> SUFFICES ASSUME Init PROVE RecordInv
    OBVIOUS
  <1>1. \A c \in Customers :
           /\ conv[c].state = "IDLE" /\ conv[c].flow = "none"
           /\ conv[c].bookingId = None /\ ~owes[c]
    BY DEF Init, Fresh
  <1>2. \A c \in Customers : ~conv[c].ordered
    <2>1. ~Fresh.ordered
      BY DEF Fresh
    <2> QED
      BY <2>1, Zenon DEF Init
  <1>3. \A b \in BookingIds : bookings[b].status = "NONE"
    BY DEF Init, NoBooking
  <1>4. TypeOK
    <2>1. conv \in [Customers -> Record] /\ bookings \in [BookingIds -> Held]
      BY FreshRecord DEF Init, NoBooking, Held
    <2>2. faults \in 0 .. MaxFaults
      BY BookingAssumption DEF Init, BookingAssumption
    <2> QED
      BY <2>1, <2>2 DEF Init, TypeOK, Record, Held
  <1> QED
    BY <1>1, <1>2, <1>3, <1>4
    DEF RecordInv, CustomerInv, InBooking, OrderStates

LEMMA PressKeepsInv ==
    ASSUME RecordInv, NEW c \in Customers, Press(c)
    PROVE  RecordInv'
  <1>1. PICK m \in ButtonMessages[PlatformOf[c]] :
            \/ ChooseUnit(c, m) \/ ChooseRoom(c, m) \/ Taken(c, m)
            \/ Booked(c, m) \/ BookedUnanswered(c, m)
            \/ CancelBooking(c)
    BY Zenon DEF Press
  <1>2. PICK platform \in Platforms : platform = PlatformOf[c]
    BY BookingAssumption DEF BookingAssumption
  <1>3. PICK p : Pressable(platform, p) /\ m = Pressed(platform, p)
    <2>1. m \in {Pressed(platform, q) :
                    q \in {r \in UNION {Rendered(platform, content) :
                                           content \in BookingContents} :
                              Pressable(platform, r)}}
      BY <1>2 DEF ButtonMessages
    <2> QED
      BY <2>1
  <1>4. ChooseUnit(c, m) => RecordInv'
    BY <1>3, ChooseUnitKeepsInv, Zenon
  <1> QED
    BY <1>1, <1>4, ChooseRoomKeepsInv, BookedKeepsInv,
       BookedUnansweredKeepsInv, TakenKeepsInv, CancelBookingKeepsInv, Zenon

LEMMA NextKeepsRecord == RecordInv /\ [Next]_vars => RecordInv'
  <1> SUFFICES ASSUME RecordInv, [Next]_vars PROVE RecordInv'
    OBVIOUS
  <1>1. CASE UNCHANGED vars
    BY <1>1 DEF vars, RecordInv, TypeOK, CustomerInv, InBooking, Blocking,
                Overlaps
  <1>2. ASSUME NEW c \in Customers,
               \/ StartBooking(c) \/ \E s \in Slots : ChooseSlot(c, s)
               \/ CancelBooking(c) \/ Press(c)
        PROVE  RecordInv'
    BY <1>2, StartKeepsInv, ChooseSlotKeepsInv, CancelBookingKeepsInv,
       PressKeepsInv, Zenon
  <1>3. ASSUME NEW c \in Customers,
               \/ GiveName(c) \/ Browse(c) \/ Shop(c) \/ PlaceOrder(c)
               \/ CancelOrder(c) \/ ResolveOrder(c)
        PROVE  RecordInv'
    BY <1>3, GiveNameKeepsInv, BrowseKeepsInv, ShopKeepsInv,
       PlaceOrderKeepsInv, CancelOrderKeepsInv, ResolveOrderKeepsInv, Zenon
  <1>4. ASSUME NEW b \in BookingIds, ConfirmPayment(b) \/ PosCancels(b)
        PROVE  RecordInv'
    BY <1>4, ConfirmPaymentKeepsInv, PosCancelsKeepsInv, Zenon
  <1>5. ASSUME NEW s \in Slots, NEW room \in Rooms, WalkIn(s, room)
        PROVE  RecordInv'
    BY <1>5, WalkInKeepsInv, Zenon
  <1> QED
    BY <1>1, <1>2, <1>3, <1>4, <1>5, Zenon DEF Next

-----------------------------------------------------------------------------
(* Theorems.                                                               *)

(* For any customers, rooms, slots and faults: no conversation serves two  *)
(* masters, and every room that is held is known to who holds it, but for  *)
(* answers that were lost and bookings dropped by /huydon.                 *)
THEOREM RecordsKept == Spec => []RecordInv
  BY InitRecord, NextKeepsRecord, PTL DEF Spec

(* routeToService.js and the two services' loadState: booking and ordering *)
(* never act on each other's record.                                       *)
THEOREM FlowsKeptApart == Spec => []BookingInv
  <1>1. RecordInv => BookingInv
    BY InvImplies DEF RecordInv, BookingInv
  <1> QED
    BY <1>1, RecordsKept, PTL

(* bookingService.js: a room that the POS holds for a customer is in the   *)
(* customer's conversation.                                                *)
THEOREM HeldRoomsStayKnown == Spec => []HeldRoomsAreKnown
  BY InvImplies, RecordsKept, PTL

-----------------------------------------------------------------------------
(* Bookings and conversations.                                             *)

(* PaymentsMeetTheirBooking, customer by customer.                         *)
Met(c) ==
    LET b == conv[c].bookingId IN
    b # None =>
        /\ bookings[b].status # "NONE"
        /\ bookings[b].customerId = c
        /\ bookings[b].room = conv[c].room
        /\ bookings[b].from = conv[c].from /\ bookings[b].to = conv[c].to
        /\ conv[c].state = "AWAITING_PAYMENT" => bookings[b].status # "PAID"
        /\ conv[c].state = "PAID" => bookings[b].status # "AWAITING_PAYMENT"

AllMet == \A c \in Customers : Met(c)

LEMMA MetCustomers == PaymentsMeetTheirBooking <=> AllMet
  BY DEF PaymentsMeetTheirBooking, AllMet, Met

(* A step that leaves the POS alone, and one record at most is another:    *)
(* one that names no booking, or that names the same and waits no more.    *)
LEMMA RecordStepMeets ==
    ASSUME AllMet, NEW c \in Customers, UNCHANGED bookings,
           \A d \in Customers \ {c} : conv'[d] = conv[d],
           \/ conv'[c] = conv[c]
           \/ conv'[c].bookingId = None
           \/ /\ conv'[c].bookingId = conv[c].bookingId
              /\ conv'[c].room = conv[c].room
              /\ conv'[c].from = conv[c].from /\ conv'[c].to = conv[c].to
              /\ conv'[c].state \notin {"AWAITING_PAYMENT", "PAID"}
    PROVE  AllMet'
  <1>1. ASSUME NEW d \in Customers \ {c} PROVE Met(d)'
    BY DEF AllMet, Met
  <1>2. Met(c)'
    BY DEF AllMet, Met
  <1> QED
    BY <1>1, <1>2 DEF AllMet

(* A move changes a record in its state only.                              *)
LEMMA MoveKeepsId ==
    ASSUME TypeOK, NEW c \in Customers, NEW event, NEW context,
           Move(c, event, context),
           \A next : [context EXCEPT !.state = next].bookingId = None
    PROVE  /\ conv'[c].bookingId = None
           /\ \A d \in Customers \ {c} : conv'[d] = conv[d]
  <1>1. PICK next :
            conv' = [conv EXCEPT ![c] = [context EXCEPT !.state = next]]
    BY DEF Move
  <1>2. /\ conv'[c] = [context EXCEPT !.state = next]
        /\ \A d \in Customers \ {c} : conv'[d] = conv[d]
    BY <1>1 DEF TypeOK
  <1> QED
    BY <1>2

(* A move of a record that names no booking.                               *)
LEMMA MoveMeets ==
    ASSUME TypeOK, AllMet, NEW c \in Customers, NEW event,
           NEW context \in Record, Move(c, event, context),
           context.bookingId = None, UNCHANGED bookings
    PROVE  AllMet'
  <1>1. \A next : [context EXCEPT !.state = next].bookingId = None
    BY DEF Record
  <1>2. /\ conv'[c].bookingId = None
        /\ \A d \in Customers \ {c} : conv'[d] = conv[d]
    BY <1>1, MoveKeepsId
  <1> QED
    BY <1>2, RecordStepMeets

LEMMA StartMeets ==
    ASSUME RecordInv, AllMet, NEW c \in Customers, StartBooking(c)
    PROVE  AllMet'
  <1> DEFINE loaded == LoadState(c)
             context == [loaded EXCEPT !.flow = "booking"]
             event == IF loaded.state = "IDLE" THEN "START_BOOKING"
                                               ELSE "START_NEW_BOOKING"
  <1>1. TypeOK /\ CustomerInv(c)
    BY DEF RecordInv
  <1>2. loaded \in Record /\ loaded.bookingId = None
    BY <1>1, FreshRecord DEF TypeOK, Record, LoadState, CustomerInv, Fresh
  <1>3. context \in Record /\ context.bookingId = None
    BY <1>2 DEF Record
  <1>4. Move(c, event, context) /\ UNCHANGED bookings
    BY DEF StartBooking
  <1> QED
    BY <1>1, <1>3, <1>4, MoveMeets

(* Inside a booking the record names none yet.                             *)
LEMMA BookingMoveMeets ==
    ASSUME RecordInv, AllMet, NEW c \in Customers,
           \/ \E s \in Slots : ChooseSlot(c, s)
           \/ \E m : ChooseUnit(c, m) \/ ChooseRoom(c, m) \/ Taken(c, m)
           \/ CancelBooking(c)
    PROVE  AllMet'
  <1>1. InBooking(c) /\ TypeOK
    BY DEF RecordInv, ChooseSlot, ChooseUnit, ChooseRoom, Taken, Confirms,
           CancelBooking
  <1>2. conv[c].bookingId = None /\ conv[c] \in Record
    BY <1>1 DEF RecordInv, CustomerInv, TypeOK, Record
  <1>3. UNCHANGED bookings
    BY <1>2 DEF ChooseSlot, ChooseUnit, ChooseRoom, Taken, CancelBooking
  <1>4. /\ conv'[c].bookingId = None
        /\ \A d \in Customers \ {c} : conv'[d] = conv[d]
    <2>1. CASE \E s \in Slots : ChooseSlot(c, s)
      <3>1. PICK from, to :
                Move(c, "SELECT_SLOT",
                     [conv[c] EXCEPT !.from = from, !.to = to])
        BY <2>1 DEF ChooseSlot
      <3>2. \A next :
               [[conv[c] EXCEPT !.from = from, !.to = to]
                   EXCEPT !.state = next].bookingId = None
        BY <1>2 DEF Record
      <3> QED
        BY <1>1, <3>1, <3>2, MoveKeepsId
    <2>2. CASE \E m : ChooseUnit(c, m)
      <3>1. PICK unit :
                Move(c, "SELECT_UNIT", [conv[c] EXCEPT !.unit = unit])
        BY <2>2 DEF ChooseUnit
      <3>2. \A next :
               [[conv[c] EXCEPT !.unit = unit]
                   EXCEPT !.state = next].bookingId = None
        BY <1>2 DEF Record
      <3> QED
        BY <1>1, <3>1, <3>2, MoveKeepsId
    <2>3. CASE \E m : ChooseRoom(c, m)
      <3>1. PICK room :
                Move(c, "SELECT_ROOM", [conv[c] EXCEPT !.room = room])
        BY <2>3 DEF ChooseRoom
      <3>2. \A next :
               [[conv[c] EXCEPT !.room = room]
                   EXCEPT !.state = next].bookingId = None
        BY <1>2 DEF Record
      <3> QED
        BY <1>1, <3>1, <3>2, MoveKeepsId
    <2>4. CASE (\E m : Taken(c, m)) \/ CancelBooking(c)
      <3>1. Move(c, "CANCEL", [conv[c] EXCEPT !.flow = "none"])
        BY <2>4 DEF Taken, CancelBooking
      <3>2. \A next :
               [[conv[c] EXCEPT !.flow = "none"]
                   EXCEPT !.state = next].bookingId = None
        BY <1>2 DEF Record
      <3> QED
        BY <1>1, <3>1, <3>2, MoveKeepsId
    <2> QED
      BY <2>1, <2>2, <2>3, <2>4
  <1> QED
    BY <1>3, <1>4, RecordStepMeets

(* The order service writes over a record that names no booking, or takes  *)
(* it to CANCELLED.                                                        *)
LEMMA OrderStepMeets ==
    ASSUME RecordInv, AllMet, NEW c \in Customers,
           \/ GiveName(c) \/ Browse(c) \/ Shop(c) \/ PlaceOrder(c)
           \/ CancelOrder(c) \/ ResolveOrder(c)
    PROVE  AllMet'
  <1>1. TypeOK /\ CustomerInv(c) /\ conv \in [Customers -> Record]
    BY DEF RecordInv, TypeOK, Record
  <1>2. UNCHANGED bookings
    BY DEF GiveName, Browse, Shop, PlaceOrder, CancelOrder, ResolveOrder
  <1>3. \A d \in Customers \ {c} : conv'[d] = conv[d]
    BY <1>1
    DEF GiveName, Browse, Shop, PlaceOrder, CancelOrder, ResolveOrder
  <1>4. CASE GiveName(c)
    BY <1>2, <1>3, <1>4, RecordStepMeets DEF GiveName
  <1>5. CASE Browse(c)
    <2>1. conv'[c].bookingId = None
      BY <1>1, <1>5 DEF Browse, Fresh
    <2> QED
      BY <1>2, <1>3, <2>1, RecordStepMeets
  <1>6. CASE Shop(c) \/ PlaceOrder(c)
    <2>1. ~InBooking(c) /\ conv[c].state \in {"BROWSING", "CART", "CONFIRMING"}
      BY <1>6 DEF Shop, PlaceOrder, Ordering
    <2>2. conv[c].bookingId = None
      BY <1>1, <2>1 DEF CustomerInv
    <2>3. conv'[c].bookingId = conv[c].bookingId
      BY <1>1, <1>6 DEF Shop, PlaceOrder, Record
    <2> QED
      BY <1>2, <1>3, <2>2, <2>3, RecordStepMeets
  <1>7. CASE CancelOrder(c)
    <2>1. /\ conv'[c].bookingId = conv[c].bookingId
          /\ conv'[c].room = conv[c].room
          /\ conv'[c].from = conv[c].from /\ conv'[c].to = conv[c].to
          /\ conv'[c].state = "CANCELLED"
      BY <1>1, <1>7 DEF CancelOrder, Record
    <2> QED
      BY <1>2, <1>3, <2>1, RecordStepMeets
  <1>8. CASE ResolveOrder(c)
    <2>1. conv[c].bookingId = None
      BY <1>1, <1>8 DEF ResolveOrder, CustomerInv
    <2>2. conv'[c].bookingId = conv[c].bookingId
      BY <1>1, <1>8 DEF ResolveOrder, Record
    <2> QED
      BY <1>2, <1>3, <2>1, <2>2, RecordStepMeets
  <1> QED
    BY <1>4, <1>5, <1>6, <1>7, <1>8

(* No conversation names a booking before the POS has made it.             *)
LEMMA CreateMeets ==
    ASSUME TypeOK, AllMet, NEW b \in BookingIds, NEW owner, NEW room,
           NEW from, NEW to, Create(b, owner, room, from, to)
    PROVE  \A d \in Customers :
               /\ conv[d].bookingId # b
               /\ conv'[d] = conv[d] => Met(d)'
  <1>1. /\ bookings[b].status = "NONE" /\ b # None
        /\ \A x \in BookingIds \ {b} : bookings'[x] = bookings[x]
    BY BookingAssumption DEF Create, TypeOK, BookingAssumption
  <1> SUFFICES ASSUME NEW d \in Customers
               PROVE  /\ conv[d].bookingId # b
                      /\ conv'[d] = conv[d] => Met(d)'
    OBVIOUS
  <1>2. Met(d) /\ conv[d].bookingId \in BookingIds \cup {None}
    BY DEF AllMet, TypeOK
  <1>3. conv[d].bookingId # b
    BY <1>1, <1>2 DEF Met
  <1> QED
    BY <1>1, <1>2, <1>3 DEF Met

LEMMA BookedMeets ==
    ASSUME RecordInv, AllMet, NEW c \in Customers, NEW m, Booked(c, m)
    PROVE  AllMet'
  <1>1. TypeOK /\ conv[c] \in Record
    BY DEF RecordInv, TypeOK, Record
  <1>2. PICK b \in BookingIds :
            /\ Create(b, c, conv[c].room, conv[c].from, conv[c].to)
            /\ Move(c, "CONFIRM_BOOKING",
                    [conv[c] EXCEPT !.bookingId = b, !.flow = "none"])
    BY DEF Booked, Request
  <1> DEFINE context == [conv[c] EXCEPT !.bookingId = b, !.flow = "none"]
  <1>3. /\ context \in Record /\ context.bookingId = b
        /\ context.room = conv[c].room
        /\ context.from = conv[c].from /\ context.to = conv[c].to
    BY <1>1 DEF Record
  <1>4. Move(c, "CONFIRM_BOOKING", context)
    BY <1>2
  <1> HIDE DEF context
  <1>5. PICK r \in Record :
            /\ conv' = [conv EXCEPT ![c] = r]
            /\ conv'[c] = r
            /\ <<context.state, "CONFIRM_BOOKING", r.state>> \in TRANSITIONS
            /\ r.room = context.room
            /\ r.from = context.from /\ r.to = context.to
            /\ r.bookingId = context.bookingId
    BY <1>1, <1>3, <1>4, Moved
  <1>6. r.state = "AWAITING_PAYMENT"
    BY <1>5, EventTargets
  <1>7. bookings'[b] = [status |-> "AWAITING_PAYMENT", customerId |-> c,
                        room |-> conv[c].room, from |-> conv[c].from,
                        to |-> conv[c].to]
    BY <1>1, <1>2 DEF Create, TypeOK
  <1>8. Met(c)'
    BY <1>3, <1>5, <1>6, <1>7 DEF Met
  <1>9. ASSUME NEW d \in Customers \ {c} PROVE Met(d)'
    <2>1. conv'[d] = conv[d]
      BY <1>1, <1>5 DEF TypeOK
    <2> QED
      BY <1>1, <1>2, <2>1, CreateMeets
  <1> QED
    BY <1>8, <1>9 DEF AllMet

LEMMA UnnamedBookingMeets ==
    ASSUME RecordInv, AllMet,
           \/ \E c \in Customers : \E m : BookedUnanswered(c, m)
           \/ \E s \in Slots, room \in Rooms : WalkIn(s, room)
    PROVE  AllMet'
  <1>1. TypeOK /\ UNCHANGED conv
    BY DEF RecordInv, BookedUnanswered, WalkIn
  <1>2. PICK b \in BookingIds :
            \E owner, room, from, to : Create(b, owner, room, from, to)
    BY DEF BookedUnanswered, Request, WalkIn
  <1>3. PICK owner, room, from, to : Create(b, owner, room, from, to)
    BY <1>2
  <1> QED
    BY <1>1, <1>3, CreateMeets DEF AllMet

(* A booking that is cancelled is not paid, and not waited for in vain.    *)
LEMMA PosCancelsMeets ==
    ASSUME RecordInv, AllMet, NEW b \in BookingIds, PosCancels(b)
    PROVE  AllMet'
  <1>1. TypeOK /\ UNCHANGED conv
    BY DEF RecordInv, PosCancels
  <1>2. /\ bookings'[b].status = "CANCELLED"
        /\ bookings'[b].customerId = bookings[b].customerId
        /\ bookings'[b].room = bookings[b].room
        /\ bookings'[b].from = bookings[b].from
        /\ bookings'[b].to = bookings[b].to
        /\ \A x \in BookingIds \ {b} : bookings'[x] = bookings[x]
    BY <1>1, SetStatusShape DEF PosCancels
  <1>3. ASSUME NEW d \in Customers PROVE Met(d)'
    <2>1. Met(d) /\ conv[d].bookingId \in BookingIds \cup {None}
      BY <1>1 DEF AllMet, TypeOK
    <2> QED
      BY <1>1, <1>2, <2>1 DEF Met
  <1> QED
    BY <1>3 DEF AllMet

(* A booking that is paid is thanked for where it is waited for, and       *)
(* nowhere else: whoever names it is its customer.                         *)
LEMMA ConfirmPaymentMeets ==
    ASSUME RecordInv, AllMet, NEW b \in BookingIds, ConfirmPayment(b)
    PROVE  AllMet'
  <1>1. PICK c \in Customers : c = bookings[b].customerId
    BY DEF ConfirmPayment
  <1> DEFINE here == conv[c].state = "AWAITING_PAYMENT"
                        /\ conv[c].bookingId = b
  <1>2. /\ TypeOK /\ b # None /\ conv[c] \in Record
        /\ SetStatus(b, "PAID")
        /\ here => Move(c, "PAYMENT_CONFIRMED", conv[c])
        /\ ~here => UNCHANGED conv
    BY <1>1, BookingAssumption
    DEF ConfirmPayment, RecordInv, TypeOK, Record, BookingAssumption
  <1>3. /\ bookings'[b].status = "PAID"
        /\ bookings'[b].customerId = c
        /\ bookings'[b].room = bookings[b].room
        /\ bookings'[b].from = bookings[b].from
        /\ bookings'[b].to = bookings[b].to
        /\ \A x \in BookingIds \ {b} : bookings'[x] = bookings[x]
    BY <1>1, <1>2, SetStatusShape
  <1>4. ASSUME NEW d \in Customers, conv'[d] = conv[d],
               ~(conv[d].state = "AWAITING_PAYMENT" /\ conv[d].bookingId = b)
        PROVE  Met(d)'
    <2>1. Met(d) /\ conv[d].bookingId \in BookingIds \cup {None}
      BY <1>2 DEF AllMet, TypeOK
    <2> QED
      BY <1>1, <1>3, <1>4, <2>1 DEF Met
  <1>5. CASE here
    <2>1. PICK r \in Record :
              /\ conv' = [conv EXCEPT ![c] = r]
              /\ conv'[c] = r
              /\ <<conv[c].state, "PAYMENT_CONFIRMED", r.state>>
                     \in TRANSITIONS
              /\ r.room = conv[c].room
              /\ r.from = conv[c].from /\ r.to = conv[c].to
              /\ r.bookingId = conv[c].bookingId
      BY <1>2, <1>5, Moved
    <2>2. r.state = "PAID"
      BY <2>1, EventTargets
    <2>3. Met(c)'
      BY <1>2, <1>3, <1>5, <2>1, <2>2 DEF AllMet, Met
    <2>4. ASSUME NEW d \in Customers \ {c} PROVE Met(d)'
      <3>1. conv'[d] = conv[d]
        BY <1>2, <2>1 DEF TypeOK
      <3>2. conv[d].bookingId # b
        BY <1>1, <1>2, <2>4 DEF AllMet, Met
      <3> QED
        BY <1>4, <3>1, <3>2
    <2> QED
      BY <2>3, <2>4 DEF AllMet
  <1>6. CASE ~here
    <2>1. ASSUME NEW d \in Customers
          PROVE  ~(conv[d].state = "AWAITING_PAYMENT" /\ conv[d].bookingId = b)
      BY <1>1, <1>2, <1>6 DEF AllMet, Met
    <2> QED
      BY <1>2, <1>4, <1>6, <2>1 DEF AllMet
  <1> QED
    BY <1>5, <1>6

LEMMA PressMeets ==
    ASSUME RecordInv, AllMet, NEW c \in Customers, Press(c)
    PROVE  AllMet'
  <1>1. PICK m : \/ ChooseUnit(c, m) \/ ChooseRoom(c, m) \/ Taken(c, m)
                 \/ Booked(c, m) \/ BookedUnanswered(c, m)
                 \/ CancelBooking(c)
    BY Zenon DEF Press
  <1> QED
    BY <1>1, BookingMoveMeets, BookedMeets, UnnamedBookingMeets, Zenon

LEMMA NextMeets ==
    ASSUME RecordInv, AllMet, [Next]_vars
    PROVE  AllMet'
  <1>1. CASE UNCHANGED vars
    BY <1>1 DEF vars, AllMet, Met
  <1>2. CASE Next
    BY <1>2, StartMeets, BookingMoveMeets, PressMeets, OrderStepMeets,
       ConfirmPaymentMeets, PosCancelsMeets, UnnamedBookingMeets, Zenon
    DEF Next
  <1> QED
    BY <1>1, <1>2

(* bookingService.js, confirmPayment: whichever of a customer's bookings   *)
(* is paid, and however the conversation has moved on meanwhile, it waits  *)
(* and thanks for the booking it names, which is the one it has shown.     *)
THEOREM PaymentsMeet == Spec => []PaymentsMeetTheirBooking
  <1>1. Init => AllMet
    BY DEF Init, Fresh, AllMet, Met
  <1>2. RecordInv /\ AllMet /\ [Next]_vars => AllMet'
    BY NextMeets
  <1>3. Spec => []AllMet
    BY <1>1, <1>2, RecordsKept, PTL DEF Spec
  <1> QED
    BY <1>3, MetCustomers, PTL

-----------------------------------------------------------------------------
(* What a customer is told.                                                *)

Truth(c) ==
    \E b \in BookingIds :
        /\ Blocking(b)
        /\ Overlaps(b, conv[c].room, conv[c].from, conv[c].to)
        /\ bookings[b].customerId # c \/ b \in lost

LEMMA TakenIsTrue ==
    ASSUME RecordInv, NEW c \in Customers, NEW m, Taken(c, m)
    PROVE  Truth(c)
  <1>1. /\ InBooking(c) /\ conv[c].state = "CONFIRMING"
        /\ conv[c].room \notin Available(conv[c].from, conv[c].to)
    BY DEF Taken, Confirms
  <1>2. /\ conv[c].room \in Rooms
        /\ \A b \in BookingIds :
              Blocking(b) /\ bookings[b].customerId = c /\ b \notin lost
                  => ~Overlaps(b, conv[c].room, conv[c].from, conv[c].to)
    BY <1>1, Zenon DEF RecordInv, CustomerInv
  <1>3. PICK b \in BookingIds :
            Blocking(b)
                /\ Overlaps(b, conv[c].room, conv[c].from, conv[c].to)
    BY <1>1, <1>2, Zenon DEF Available
  <1> QED
    BY <1>2, <1>3, Zenon DEF Truth

LEMMA OnlyTakenTells ==
    ASSUME RecordInv, [Next]_vars, NEW c \in told' \ told
    PROVE  c \in Customers /\ \E m : Taken(c, m)
  <1>1. CASE UNCHANGED told
    BY <1>1
  <1>2. ASSUME NEW d \in Customers, Press(d)
        PROVE  UNCHANGED told \/ (d = c /\ \E m : Taken(d, m))
    <2>1. PICK m : \/ ChooseUnit(d, m) \/ ChooseRoom(d, m) \/ Taken(d, m)
                   \/ Booked(d, m) \/ BookedUnanswered(d, m)
                   \/ CancelBooking(d)
      BY <1>2, Zenon DEF Press
    <2>2. CASE Taken(d, m)
      <3>1. told' = told \cup {d}
        BY <2>2 DEF Taken
      <3> QED
        BY <2>2, <3>1
    <2> QED
      BY <2>1, <2>2
      DEF ChooseUnit, ChooseRoom, Booked, BookedUnanswered, CancelBooking
  <1>3. ASSUME NEW d \in Customers, StartBooking(d)
        PROVE  told' \subseteq told
    BY <1>3 DEF StartBooking
  <1>4. ASSUME NEW d \in Customers,
               \/ \E s \in Slots : ChooseSlot(d, s)
               \/ GiveName(d) \/ Browse(d) \/ Shop(d) \/ PlaceOrder(d)
               \/ CancelOrder(d) \/ ResolveOrder(d) \/ CancelBooking(d)
        PROVE  UNCHANGED told
    BY <1>4 DEF ChooseSlot, GiveName, Browse, Shop, PlaceOrder, CancelOrder,
                ResolveOrder, CancelBooking
  <1>5. ASSUME \/ \E b \in BookingIds : ConfirmPayment(b) \/ PosCancels(b)
               \/ \E s \in Slots, room \in Rooms : WalkIn(s, room)
        PROVE  UNCHANGED told
    BY <1>5 DEF ConfirmPayment, PosCancels, WalkIn
  <1>6. CASE UNCHANGED vars
    BY <1>1, <1>6 DEF vars
  <1>7. CASE Next
    <2>1. PICK d \in Customers : Press(d) \/ StartBooking(d) \/ UNCHANGED told
      BY <1>4, <1>5, <1>7 DEF Next
    <2> QED
      BY <1>1, <1>2, <1>3, <2>1
  <1> QED
    BY <1>6, <1>7

(* bookingService.js, the catch of ROOM_OVERLAP: who is told that somebody *)
(* else was faster is told so of a room that is held indeed.               *)
THEOREM TakenIsAlwaysTrue == Spec => TakenMeansTaken
  <1> DEFINE Tells == \A c \in told' \ told : Truth(c)
  <1>1. RecordInv /\ [Next]_vars => [Tells]_vars
    BY OnlyTakenTells, TakenIsTrue
  <1>2. TakenMeansTaken <=> [][Tells]_vars
    BY DEF TakenMeansTaken, Truth
  <1> HIDE DEF Tells
  <1> QED
    BY <1>1, <1>2, RecordsKept, PTL DEF Spec

-----------------------------------------------------------------------------
(* The buttons.                                                            *)

(* The payloads that the services put under their answers, as they are     *)
(* rendered on a platform.                                                 *)
PlainActions ==
    {"cart", "checkout", "catalog", "cancel", "confirm_order", "resend_qr",
     "status", "update_profile", "help", "new_order", "confirm_booking",
     "cancel_booking"}

CartChanges ==
    {[Action(a) EXCEPT !.productId = p] :
        a \in {"decrease_item", "remove_item"}, p \in Products}

Payloads(platform) ==
         {Action(a) : a \in PlainActions}
    \cup {SelectUnit(u) : u \in Units}
    \cup {SelectRoom(r) : r \in Rooms}
    \cup {SelectCategory(k) : k \in Categories}
    \cup {AddItem(p, n) : p \in Products, n \in {1, 2, 3, 5}}
    \cup CartChanges
    \cup (IF platform = "telegram" THEN {ViewProduct(p) : p \in Products}
                                   ELSE {})

LEMMA TwoArguments ==
    ASSUME NEW e, NEW q
    PROVE  <<e>> \o <<q>> = <<e, q>>
  <1>1. PICK s : s = <<e>> \o <<q>>
    OBVIOUS
  <1>2. /\ <<e>> \in Seq({e, q}) /\ Len(<<e>>) = 1
        /\ <<q>> \in Seq({e, q}) /\ Len(<<q>>) = 1
    OBVIOUS
  <1>3. s \in Seq({e, q}) /\ Len(s) = 2 /\ s[1] = e /\ s[2] = q
    BY <1>1, <1>2
  <1>4. /\ <<e, q>> \in Seq({e, q}) /\ Len(<<e, q>>) = 2
        /\ <<e, q>>[1] = e /\ <<e, q>>[2] = q
    OBVIOUS
  <1>5. \A i \in 1 .. 2 : s[i] = <<e, q>>[i]
    <2>1. \A i \in 1 .. 2 : i = 1 \/ i = 2
      OBVIOUS
    <2> QED
      BY <1>3, <1>4, <2>1
  <1> QED
    BY <1>1, <1>3, <1>4, <1>5, SeqEqual

(* What is packed of a payload without an id, with one, and with an id and *)
(* a quantity.                                                             *)
LEMMA EncodeShapes ==
    ASSUME NEW platform, NEW p,
           ~(platform = "zalo" /\ p.action = "select_category")
    PROVE  /\ EntityId(p) = None /\ ~(p.quantity > 0) =>
                 Encode(platform, p) = [action |-> p.action, args |-> <<>>]
           /\ EntityId(p) # None /\ ~(p.quantity > 0) =>
                 Encode(platform, p) = [action |-> p.action,
                                        args |-> <<EntityId(p)>>]
           /\ EntityId(p) # None /\ p.quantity > 0 =>
                 Encode(platform, p) = [action |-> p.action,
                                        args |-> <<EntityId(p), p.quantity>>]
  <1>1. PICK e : e = EntityId(p)
    OBVIOUS
  <1>2. PICK q : q = p.quantity
    OBVIOUS
  <1>3. Encode(platform, p) =
           [action |-> p.action,
            args |-> (IF e = None THEN <<>> ELSE <<e>>)
                        \o (IF q > 0 THEN <<q>> ELSE <<>>)]
    BY <1>1, <1>2 DEF Encode
  <1>4. <<>> \o <<>> = <<>>
    OBVIOUS
  <1>5. <<e>> \o <<>> = <<e>>
    OBVIOUS
  <1>6. <<e>> \o <<q>> = <<e, q>>
    BY TwoArguments
  <1> QED
    BY <1>1, <1>2, <1>3, <1>4, <1>5, <1>6

LEMMA PlainWorks ==
    ASSUME NEW platform, NEW a \in PlainActions
    PROVE  Works(platform, Action(a))
  <1>1. PICK p : p = Action(a)
    OBVIOUS
  <1>2. /\ p.action = a /\ p.productId = None /\ p.categoryId = None
        /\ p.roomId = None /\ p.unit = None /\ p.quantity = 0
    BY <1>1 DEF Action
  <1>3. PICK data : data = Encode(platform, p)
    OBVIOUS
  <1>4. EntityId(p) = None /\ ~(p.quantity > 0) /\ p.action # "select_category"
    BY <1>2 DEF EntityId, PlainActions
  <1>5. data = [action |-> a, args |-> <<>>]
    BY <1>2, <1>3, <1>4, EncodeShapes
  <1>6. data.action = a /\ data.args = <<>>
    BY <1>5
  <1>7. Field(platform, a) = "none"
    BY DEF Field, TakesProduct, TakesCategory, PlainActions
  <1>8. Encodable(platform, p)
    BY <1>4 DEF Encodable
  <1>9. Accepts(platform, data) /\ Decode(platform, data) = p
    BY <1>1, <1>6, <1>7 DEF Accepts, Decode
  <1> QED
    BY <1>1, <1>3, <1>8, <1>9 DEF Works, Pressable, Pressed

LEMMA UnitWorks ==
    ASSUME NEW platform, NEW u \in Units
    PROVE  Works(platform, SelectUnit(u))
  <1>1. PICK p : p = SelectUnit(u)
    OBVIOUS
  <1>2. /\ p.action = "select_unit" /\ p.quantity = 0
        /\ p.productId = None /\ p.categoryId = None
        /\ p.roomId = None /\ p.unit = u
    BY <1>1 DEF SelectUnit, Action
  <1>3. PICK data : data = Encode(platform, p)
    OBVIOUS
  <1>4. u # None
    BY ChannelAssumption DEF ChannelAssumption
  <1>5. EntityId(p) = u /\ ~(p.quantity > 0)
    BY <1>2, <1>4 DEF EntityId
  <1>6. data = [action |-> "select_unit", args |-> <<u>>]
    BY <1>2, <1>3, <1>4, <1>5, EncodeShapes
  <1>7. data.action = "select_unit" /\ data.args[1] = u /\ Len(data.args) = 1
    BY <1>6
  <1>8. Field(platform, "select_unit") = "unit"
    BY DEF Field, TakesProduct, TakesCategory
  <1>9. Encodable(platform, p)
    BY <1>2, <1>4, <1>5 DEF Encodable
  <1>10. Accepts(platform, data)
    BY <1>7, <1>8 DEF Accepts
  <1>11. Decode(platform, data) =
            [Action("select_unit") EXCEPT !.unit = u, !.quantity = 0]
    BY <1>7, <1>8 DEF Decode
  <1>12. p = [action |-> "select_unit", productId |-> None,
               categoryId |-> None, roomId |-> None,
               unit |-> u, quantity |-> 0]
    BY <1>1 DEF SelectUnit, Action
  <1>13. [Action("select_unit") EXCEPT !.unit = u, !.quantity = 0] =
              [action |-> "select_unit", productId |-> None,
               categoryId |-> None, roomId |-> None,
               unit |-> u, quantity |-> 0]
    <2>1. PICK b : b = [Action("select_unit") EXCEPT !.unit = u]
      OBVIOUS
    <2>2. b = [action |-> "select_unit", productId |-> None,
               categoryId |-> None, roomId |-> None,
               unit |-> u, quantity |-> 0]
      BY <2>1 DEF Action
    <2>3. [b EXCEPT !.quantity = 0] = b
      BY <2>2
    <2>4. [Action("select_unit") EXCEPT !.unit = u, !.quantity = 0]
            = [b EXCEPT !.quantity = 0]
      BY <2>1
    <2> QED
      BY <2>2, <2>3, <2>4
  <1>14. Decode(platform, data) = p
    BY <1>11, <1>12, <1>13
  <1> QED
    BY <1>1, <1>3, <1>9, <1>10, <1>14 DEF Works, Pressable, Pressed

LEMMA RoomWorks ==
    ASSUME NEW platform, NEW r \in Rooms
    PROVE  Works(platform, SelectRoom(r))
  <1>1. PICK p : p = SelectRoom(r)
    OBVIOUS
  <1>2. /\ p.action = "select_room" /\ p.quantity = 0
        /\ p.productId = None /\ p.categoryId = None
        /\ p.roomId = r /\ p.unit = None
    BY <1>1 DEF SelectRoom, Action
  <1>3. PICK data : data = Encode(platform, p)
    OBVIOUS
  <1>4. r # None
    BY ChannelAssumption DEF ChannelAssumption
  <1>5. EntityId(p) = r /\ ~(p.quantity > 0)
    BY <1>2, <1>4 DEF EntityId
  <1>6. data = [action |-> "select_room", args |-> <<r>>]
    BY <1>2, <1>3, <1>4, <1>5, EncodeShapes
  <1>7. data.action = "select_room" /\ data.args[1] = r /\ Len(data.args) = 1
    BY <1>6
  <1>8. Field(platform, "select_room") = "roomId"
    BY DEF Field, TakesProduct, TakesCategory
  <1>9. Encodable(platform, p)
    BY <1>2, <1>4, <1>5 DEF Encodable
  <1>10. Accepts(platform, data)
    BY <1>7, <1>8 DEF Accepts
  <1>11. Decode(platform, data) =
            [Action("select_room") EXCEPT !.roomId = r, !.quantity = 0]
    BY <1>7, <1>8 DEF Decode
  <1>12. p = [action |-> "select_room", productId |-> None,
               categoryId |-> None, roomId |-> r,
               unit |-> None, quantity |-> 0]
    BY <1>1 DEF SelectRoom, Action
  <1>13. [Action("select_room") EXCEPT !.roomId = r, !.quantity = 0] =
              [action |-> "select_room", productId |-> None,
               categoryId |-> None, roomId |-> r,
               unit |-> None, quantity |-> 0]
    <2>1. PICK b : b = [Action("select_room") EXCEPT !.roomId = r]
      OBVIOUS
    <2>2. b = [action |-> "select_room", productId |-> None,
               categoryId |-> None, roomId |-> r,
               unit |-> None, quantity |-> 0]
      BY <2>1 DEF Action
    <2>3. [b EXCEPT !.quantity = 0] = b
      BY <2>2
    <2>4. [Action("select_room") EXCEPT !.roomId = r, !.quantity = 0]
            = [b EXCEPT !.quantity = 0]
      BY <2>1
    <2> QED
      BY <2>2, <2>3, <2>4
  <1>14. Decode(platform, data) = p
    BY <1>11, <1>12, <1>13
  <1> QED
    BY <1>1, <1>3, <1>9, <1>10, <1>14 DEF Works, Pressable, Pressed

LEMMA CategoryWorks ==
    ASSUME NEW platform, NEW k \in Categories
    PROVE  Works(platform, SelectCategory(k))
  <1>1. PICK p : p = SelectCategory(k)
    OBVIOUS
  <1>2. /\ p.action = "select_category" /\ p.quantity = 0
        /\ p.productId = None /\ p.categoryId = k
        /\ p.roomId = None /\ p.unit = None
    BY <1>1 DEF SelectCategory, Action
  <1>3. PICK data : data = Encode(platform, p)
    OBVIOUS
  <1>4. k # None
    BY ChannelAssumption DEF ChannelAssumption
  <1>5. EntityId(p) = k /\ ~(p.quantity > 0)
    BY <1>2, <1>4 DEF EntityId
  <1>6. data = [action |-> "select_category", args |-> <<k>>]
    <2>1. CASE platform = "zalo"
      BY <1>2, <1>3, <2>1 DEF Encode
    <2>2. CASE platform # "zalo"
      BY <1>2, <1>3, <1>4, <1>5, <2>2, EncodeShapes
    <2> QED
      BY <2>1, <2>2
  <1>7. data.action = "select_category" /\ data.args[1] = k /\ Len(data.args) = 1
    BY <1>6
  <1>8. Field(platform, "select_category") = "categoryId"
    BY DEF Field, TakesProduct, TakesCategory
  <1>9. Encodable(platform, p)
    BY <1>2, <1>4, <1>5 DEF Encodable
  <1>10. Accepts(platform, data)
    BY <1>7, <1>8 DEF Accepts
  <1>11. Decode(platform, data) =
            [Action("select_category") EXCEPT !.categoryId = k, !.quantity = 0]
    BY <1>7, <1>8 DEF Decode
  <1>12. p = [action |-> "select_category", productId |-> None,
               categoryId |-> k, roomId |-> None,
               unit |-> None, quantity |-> 0]
    BY <1>1 DEF SelectCategory, Action
  <1>13. [Action("select_category") EXCEPT !.categoryId = k, !.quantity = 0] =
              [action |-> "select_category", productId |-> None,
               categoryId |-> k, roomId |-> None,
               unit |-> None, quantity |-> 0]
    <2>1. PICK b : b = [Action("select_category") EXCEPT !.categoryId = k]
      OBVIOUS
    <2>2. b = [action |-> "select_category", productId |-> None,
               categoryId |-> k, roomId |-> None,
               unit |-> None, quantity |-> 0]
      BY <2>1 DEF Action
    <2>3. [b EXCEPT !.quantity = 0] = b
      BY <2>2
    <2>4. [Action("select_category") EXCEPT !.categoryId = k, !.quantity = 0]
            = [b EXCEPT !.quantity = 0]
      BY <2>1
    <2> QED
      BY <2>2, <2>3, <2>4
  <1>14. Decode(platform, data) = p
    BY <1>11, <1>12, <1>13
  <1> QED
    BY <1>1, <1>3, <1>9, <1>10, <1>14 DEF Works, Pressable, Pressed

LEMMA CartChangeWorks ==
    ASSUME NEW platform, NEW product \in Products,
           NEW a \in {"decrease_item", "remove_item"}
    PROVE  Works(platform, [Action(a) EXCEPT !.productId = product])
  <1>1. PICK p : p = [Action(a) EXCEPT !.productId = product]
    OBVIOUS
  <1>2. /\ p.action = a /\ p.quantity = 0
        /\ p.productId = product /\ p.categoryId = None
        /\ p.roomId = None /\ p.unit = None
    BY <1>1 DEF Action
  <1>3. PICK data : data = Encode(platform, p)
    OBVIOUS
  <1>4. product # None
    BY ChannelAssumption DEF ChannelAssumption
  <1>5. EntityId(p) = product /\ ~(p.quantity > 0)
    BY <1>2, <1>4 DEF EntityId
  <1>6. data = [action |-> a, args |-> <<product>>]
    BY <1>2, <1>3, <1>4, <1>5, EncodeShapes
  <1>7. data.action = a /\ data.args[1] = product /\ Len(data.args) = 1
    BY <1>6
  <1>8. Field(platform, a) = "productId"
    BY DEF Field, TakesProduct, TakesCategory
  <1>9. Encodable(platform, p)
    BY <1>2, <1>4, <1>5 DEF Encodable
  <1>10. Accepts(platform, data)
    BY <1>7, <1>8 DEF Accepts
  <1>11. Decode(platform, data) =
            [Action(a) EXCEPT !.productId = product, !.quantity = 0]
    BY <1>7, <1>8 DEF Decode
  <1>12. p = [action |-> a, productId |-> product,
               categoryId |-> None, roomId |-> None,
               unit |-> None, quantity |-> 0]
    BY <1>1 DEF Action
  <1>13. [Action(a) EXCEPT !.productId = product, !.quantity = 0] =
              [action |-> a, productId |-> product,
               categoryId |-> None, roomId |-> None,
               unit |-> None, quantity |-> 0]
    <2>1. PICK b : b = [Action(a) EXCEPT !.productId = product]
      OBVIOUS
    <2>2. b = [action |-> a, productId |-> product,
               categoryId |-> None, roomId |-> None,
               unit |-> None, quantity |-> 0]
      BY <2>1 DEF Action
    <2>3. [b EXCEPT !.quantity = 0] = b
      BY <2>2
    <2>4. [Action(a) EXCEPT !.productId = product, !.quantity = 0]
            = [b EXCEPT !.quantity = 0]
      BY <2>1
    <2> QED
      BY <2>2, <2>3, <2>4
  <1>14. Decode(platform, data) = p
    BY <1>11, <1>12, <1>13
  <1> QED
    BY <1>1, <1>3, <1>9, <1>10, <1>14 DEF Works, Pressable, Pressed

LEMMA ViewWorks ==
    ASSUME NEW platform, platform = "telegram", NEW product \in Products
    PROVE  Works(platform, ViewProduct(product))
  <1>1. PICK p : p = ViewProduct(product)
    OBVIOUS
  <1>2. /\ p.action = "view_product" /\ p.quantity = 0
        /\ p.productId = product /\ p.categoryId = None
        /\ p.roomId = None /\ p.unit = None
    BY <1>1 DEF ViewProduct, Action
  <1>3. PICK data : data = Encode(platform, p)
    OBVIOUS
  <1>4. product # None
    BY ChannelAssumption DEF ChannelAssumption
  <1>5. EntityId(p) = product /\ ~(p.quantity > 0)
    BY <1>2, <1>4 DEF EntityId
  <1>6. data = [action |-> "view_product", args |-> <<product>>]
    BY <1>2, <1>3, <1>4, <1>5, EncodeShapes
  <1>7. /\ data.action = "view_product"
        /\ data.args[1] = product /\ Len(data.args) = 1
    BY <1>6
  <1>8. Field(platform, "view_product") = "productId"
    BY DEF Field, TakesProduct, TakesCategory
  <1>9. Encodable(platform, p)
    BY <1>2, <1>4, <1>5 DEF Encodable
  <1>10. Accepts(platform, data)
    BY <1>7, <1>8 DEF Accepts
  <1>11. Decode(platform, data) =
            [Action("view_product") EXCEPT !.productId = product, !.quantity = 0]
    BY <1>7, <1>8 DEF Decode
  <1>12. p = [action |-> "view_product", productId |-> product,
               categoryId |-> None, roomId |-> None,
               unit |-> None, quantity |-> 0]
    BY <1>1 DEF ViewProduct, Action
  <1>13. [Action("view_product") EXCEPT !.productId = product, !.quantity = 0] =
              [action |-> "view_product", productId |-> product,
               categoryId |-> None, roomId |-> None,
               unit |-> None, quantity |-> 0]
    <2>1. PICK b : b = [Action("view_product") EXCEPT !.productId = product]
      OBVIOUS
    <2>2. b = [action |-> "view_product", productId |-> product,
               categoryId |-> None, roomId |-> None,
               unit |-> None, quantity |-> 0]
      BY <2>1 DEF Action
    <2>3. [b EXCEPT !.quantity = 0] = b
      BY <2>2
    <2>4. [Action("view_product") EXCEPT !.productId = product, !.quantity = 0]
            = [b EXCEPT !.quantity = 0]
      BY <2>1
    <2> QED
      BY <2>2, <2>3, <2>4
  <1>14. Decode(platform, data) = p
    BY <1>11, <1>12, <1>13
  <1> QED
    BY <1>1, <1>3, <1>9, <1>10, <1>14 DEF Works, Pressable, Pressed

LEMMA AddItemWorks ==
    ASSUME NEW platform, NEW product \in Products, NEW n \in {1, 2, 3, 5}
    PROVE  Works(platform, AddItem(product, n))
  <1>1. PICK p : p = AddItem(product, n)
    OBVIOUS
  <1>2. /\ p.action = "add_item" /\ p.quantity = n
        /\ p.productId = product /\ p.categoryId = None
        /\ p.roomId = None /\ p.unit = None
    BY <1>1 DEF AddItem, Action
  <1>3. PICK data : data = Encode(platform, p)
    OBVIOUS
  <1>4. product # None
    BY ChannelAssumption DEF ChannelAssumption
  <1>5. EntityId(p) = product /\ p.quantity > 0
    BY <1>2, <1>4 DEF EntityId
  <1>6. data = [action |-> "add_item", args |-> <<product, n>>]
    BY <1>2, <1>3, <1>4, <1>5, EncodeShapes
  <1>7. /\ data.action = "add_item" /\ data.args[1] = product
        /\ Len(data.args) = 2 /\ data.args[2] = n
    BY <1>6
  <1>8. Field(platform, "add_item") = "productId"
    BY DEF Field, TakesProduct, TakesCategory
  <1>9. Encodable(platform, p)
    BY <1>2, <1>4 DEF Encodable
  <1>10. Accepts(platform, data)
    BY <1>7, <1>8 DEF Accepts
  <1>11. Decode(platform, data) =
            [Action("add_item") EXCEPT !.productId = product, !.quantity = n]
    BY <1>7, <1>8 DEF Decode
  <1>12. Decode(platform, data) = p
    BY <1>1, <1>11 DEF AddItem
  <1> QED
    BY <1>1, <1>3, <1>9, <1>10, <1>12 DEF Works, Pressable, Pressed

LEMMA PayloadsWork ==
    ASSUME NEW platform, NEW p \in Payloads(platform)
    PROVE  Works(platform, p)
  <1>1. CASE \E a \in PlainActions : p = Action(a)
    BY <1>1, PlainWorks
  <1>2. CASE \E u \in Units : p = SelectUnit(u)
    BY <1>2, UnitWorks
  <1>3. CASE \E r \in Rooms : p = SelectRoom(r)
    BY <1>3, RoomWorks
  <1>4. CASE \E k \in Categories : p = SelectCategory(k)
    BY <1>4, CategoryWorks
  <1>5. CASE \E x \in Products, n \in {1, 2, 3, 5} : p = AddItem(x, n)
    BY <1>5, AddItemWorks
  <1>6. CASE p \in CartChanges
    <2>1. PICK a \in {"decrease_item", "remove_item"}, x \in Products :
              p = [Action(a) EXCEPT !.productId = x]
      BY <1>6 DEF CartChanges
    <2> QED
      BY <2>1, CartChangeWorks
  <1>7. CASE platform = "telegram" /\ \E x \in Products : p = ViewProduct(x)
    BY <1>7, ViewWorks
  <1> QED
    BY <1>1, <1>2, <1>3, <1>4, <1>5, <1>6, <1>7 DEF Payloads

(* What is on the screens. *)
LEMMA ScreensShowContents ==
    ASSUME NEW c \in Customers
    PROVE  Screens(c) \subseteq Contents
  <1>1. Available(conv[c].from, conv[c].to) \in SUBSET Rooms
    BY DEF Available
  <1>2. PICK list : list = RoomList(Available(conv[c].from, conv[c].to))
    OBVIOUS
  <1>3. /\ list \in BookingContents /\ UnitQuestion \in BookingContents
        /\ RoomSummary \in BookingContents
    BY <1>1, <1>2 DEF BookingContents
  <1>4. Screens(c) \in {BrowsingContents, CartContents, StatusContents,
                        {UnitQuestion}, {}, {list}, {RoomSummary}}
    BY <1>2 DEF Screens
  <1> QED
    BY <1>3, <1>4 DEF Contents

(* Buttons that all platforms show. *)
Common == Payloads("zalo")

LEMMA CommonPayloads ==
    ASSUME NEW platform
    PROVE  Common \subseteq Payloads(platform)
  BY DEF Common, Payloads

LEMMA ButtonsShown ==
    ASSUME NEW platform \in Platforms, NEW buttons
    PROVE  Rendered(platform, Buttons(buttons)) = buttons
  BY DEF Rendered, Buttons

LEMMA ContentsRender ==
    ASSUME NEW platform \in Platforms, NEW content \in Contents
    PROVE  Rendered(platform, content) \subseteq Payloads(platform)
  <1>1. CASE \E buttons : content = Buttons(buttons) /\ buttons \subseteq Common
    BY <1>1, ButtonsShown, CommonPayloads
  <1>2. CASE content \in BookingContents
    <2>1. CASE content = UnitQuestion
      <3>1. {SelectUnit(u) : u \in Units} \subseteq Common
        BY DEF Common, Payloads
      <3> QED
        BY <1>1, <2>1, <3>1 DEF UnitQuestion
    <2>2. CASE content = RoomSummary
      <3>1. {Action("confirm_booking"), Action("cancel_booking")}
               \subseteq Common
        BY DEF Common, Payloads, PlainActions
      <3> QED
        BY <1>1, <2>2, <3>1 DEF RoomSummary
    <2>3. CASE \E rooms \in SUBSET Rooms : content = RoomList(rooms)
      <3>1. PICK rooms \in SUBSET Rooms : content = RoomList(rooms)
        BY <2>3
      <3>2. /\ content.type = "list" /\ content.rooms = rooms
            /\ content.products = {}
            /\ content.buttons = {SelectRoom(r) : r \in rooms}
        BY <3>1 DEF RoomList
      <3>3. {SelectRoom(r) : r \in rooms} \subseteq Common
        BY DEF Common, Payloads
      <3>4. Rendered(platform, content) \subseteq {SelectRoom(r) : r \in rooms}
        BY <3>2 DEF Rendered
      <3> QED
        BY <3>3, <3>4, CommonPayloads
    <2> QED
      BY <1>2, <2>1, <2>2, <2>3 DEF BookingContents
  <1>3. CASE content \in BrowsingContents
    <2>1. CASE content = Menu(Categories)
      <3>1. {SelectCategory(k) : k \in Categories} \cup {Action("cart")}
               \subseteq Common
        BY DEF Common, Payloads, PlainActions
      <3> QED
        BY <1>1, <2>1, <3>1 DEF Menu
    <2>2. CASE \E products \in SUBSET Products :
                  content = ProductList(products,
                                        {Action("catalog"), Action("cart")})
      <3>1. PICK products \in SUBSET Products :
                content = ProductList(products,
                                      {Action("catalog"), Action("cart")})
        BY <2>2
      <3>2. /\ content.type = "list" /\ content.rooms = {}
            /\ content.products = products
            /\ content.buttons = {Action("catalog"), Action("cart")}
        BY <3>1 DEF ProductList
      <3>3. {Action("catalog"), Action("cart")} \subseteq Payloads(platform)
        BY DEF Payloads, PlainActions
      <3>4. CASE platform = "telegram"
        <4>1. Rendered(platform, content) =
                 {SelectRoom(r) : r \in {}}
                    \cup {ViewProduct(p) : p \in products}
                    \cup {Action("catalog"), Action("cart")}
          BY <3>2, <3>4 DEF Rendered
        <4>2. {ViewProduct(p) : p \in products} \subseteq Payloads(platform)
          BY <3>4 DEF Payloads
        <4> QED
          BY <3>3, <4>1, <4>2
      <3>5. CASE platform # "telegram"
        <4>1. Rendered(platform, content) =
                 {SelectRoom(r) : r \in {}}
                    \cup {AddItem(p, 1) : p \in products}
          BY <3>2, <3>5 DEF Rendered
        <4>2. {AddItem(p, 1) : p \in products} \subseteq Payloads(platform)
          BY DEF Payloads
        <4> QED
          BY <4>1, <4>2
      <3> QED
        BY <3>4, <3>5
    <2>3. CASE \E p \in Products, k \in Categories : content = ProductPage(p, k)
      <3>1. PICK p \in Products, k \in Categories : content = ProductPage(p, k)
        BY <2>3
      <3>2. {AddItem(p, n) : n \in {1, 2, 3, 5}} \subseteq Common
        BY DEF Common, Payloads
      <3>3. {SelectCategory(k), Action("cart")} \subseteq Common
        BY DEF Common, Payloads, PlainActions
      <3> QED
        BY <1>1, <3>1, <3>2, <3>3 DEF ProductPage
    <2> DEFINE Lists == {ProductList(products, {Action("catalog"),
                                                Action("cart")}) :
                            products \in SUBSET Products \ {{}}}
               Pages == {ProductPage(p, k) : p \in Products, k \in Categories}
    <2>4. content \in Lists =>
             \E products \in SUBSET Products :
                content = ProductList(products,
                                      {Action("catalog"), Action("cart")})
      BY Zenon
    <2>5. content \in Pages =>
             \E p \in Products, k \in Categories : content = ProductPage(p, k)
      OBVIOUS
    <2>6. BrowsingContents = {Menu(Categories)} \cup Lists \cup Pages
      BY DEF BrowsingContents
    <2> HIDE DEF Lists, Pages
    <2>7. content = Menu(Categories) \/ content \in Lists \/ content \in Pages
      BY <1>3, <2>6
    <2> QED
      BY <2>1, <2>2, <2>3, <2>4, <2>5, <2>7
  <1>4. ASSUME NEW actions \in SUBSET PlainActions, content = Plain(actions)
        PROVE  Rendered(platform, content) \subseteq Payloads(platform)
    <2>1. {Action(a) : a \in actions} \subseteq Common
      BY DEF Common, Payloads
    <2> QED
      BY <1>1, <1>4, <2>1 DEF Plain
  <1>5. CASE content \in CartContents
    <2>1. CASE \E p \in Products : content = CartLine(p)
      <3>1. PICK p \in Products : content = CartLine(p)
        BY <2>1
      <3>2. {[Action(a) EXCEPT !.productId = p] :
                 a \in {"decrease_item", "remove_item"}} \subseteq Common
        BY DEF Common, Payloads, CartChanges
      <3>3. {Action(a) : a \in {"cart", "checkout", "catalog"}} \subseteq Common
        BY DEF Common, Payloads, PlainActions
      <3> QED
        BY <1>1, <3>1, <3>2, <3>3 DEF CartLine
    <2>2. CASE content \in {Plain({"checkout", "catalog", "cancel"}),
                            Plain({"confirm_order", "cancel"})}
      BY <1>4, <2>2 DEF PlainActions
    <2> QED
      BY <1>5, <2>1, <2>2 DEF CartContents
  <1>6. CASE content \in StatusContents
    BY <1>4, <1>6 DEF StatusContents, PlainActions
  <1> QED
    BY <1>2, <1>3, <1>5, <1>6 DEF Contents

(* The buttons under the last answer of either service come back as they   *)
(* were made, from both platforms and with any products, categories and    *)
(* rooms: the encoders and decoders of the four adapter files fit.         *)
THEOREM EveryScreenWorks == Spec => []ScreensWork
  <1>1. ScreensWork
    <2>1. \A c \in Customers : PlatformOf[c] \in Platforms
      BY BookingAssumption DEF BookingAssumption
    <2>2. ASSUME NEW platform \in Platforms, NEW content \in Contents,
                 NEW p \in Rendered(platform, content)
          PROVE  Works(platform, p)
      BY <2>2, ContentsRender, PayloadsWork
    <2>3. \A platform \in Platforms : Legible[platform] = Contents
      BY <2>2 DEF Legible
    <2> QED
      BY <2>1, <2>3, ScreensShowContents DEF ScreensWork
  <1> QED
    BY <1>1, PTL
=============================================================================
