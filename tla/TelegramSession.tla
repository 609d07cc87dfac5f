--------------------------- MODULE TelegramSession ---------------------------
(***************************************************************************)
(* The Telegram fast path: telegram-gateway/src/fastpath.ts.  Each chat    *)
(* (customer) is a TelegramSession Durable Object whose SQLite tables      *)
(* change in synchronous transactions; the stock of the day and its        *)
(* reservations live in D1, shared by all chats and reached by awaited     *)
(* calls.  An object handles one update at a time (processingTail), but    *)
(* payment decisions, alarms and the draining of inventory effects run     *)
(* whenever the handler awaits.  Telegram delivers an update again until   *)
(* it is answered with 200, an object may be evicted at any await, and a   *)
(* D1 call may fail with or without having been applied.                   *)
(*                                                                         *)
(* Left out: what is sent to the chat, the snapshot and notification       *)
(* outboxes, admin messages, the clock (a retried effect, a lease and the  *)
(* payment timeout may come due at any time).  A D1 call is one step: a    *)
(* call of an evicted object is applied before the eviction or never.      *)
(***************************************************************************)
EXTENDS OrderService, FiniteSetsExt

CONSTANTS
    Updates,        \* Telegram update ids
    NoUpdate,       \* an update not sent yet
    Workers,        \* drains of one object that may be in flight together
    InitialStock,   \* products with a daily_inventory row -> quantity
    MaxCrashes,     \* bound: evictions of an object
    MaxAborts,      \* bound: state transactions that throw
    MaxD1Failures   \* bound: D1 calls that fail

Stocked == DOMAIN InitialStock

ASSUME TelegramSessionAssumption ==
    /\ IsFiniteSet(Updates) /\ IsFiniteSet(OrderIds) /\ Workers # {}
    /\ NoUpdate \notin [customer: Customers, message: Messages] \cup Updates
    /\ Stocked \subseteq Products
    /\ InitialStock \in [Stocked -> Nat]
    /\ MaxCrashes \in Nat /\ MaxAborts \in Nat /\ MaxD1Failures \in Nat

VARIABLES
    inbox,          \* inbox[u]: chat and message of update u
    processed,      \* processed_updates: the update ids answered for good
    handler,        \* handler[c]: where process() of chat c is waiting
    effects,        \* inventory_effects of all the objects
    links,          \* order_inventory_links: order -> reservation
    drain,          \* drain[c][w]: a drainInventoryEffects() in flight
    remaining,      \* D1 daily_inventory.remaining_quantity
    reservations,   \* D1 inventory_reservations, by reservation and product
    faults          \* how many faults have happened, for the bounds

sessionVars == <<inbox, processed, handler, effects, links, drain>>
d1Vars      == <<remaining, reservations>>
vars        == <<serviceVars, sessionVars, d1Vars, faults>>

(* A reservation id is derived from chat and update id, so the update      *)
(* stands for it.                                                          *)
EffectIds ==
         [type: {"COMMIT_RESERVATION", "RELEASE_RESERVATION"}, key: Updates]
    \cup [type: {"RELEASE_ORDER"}, key: OrderIds]

EffectStatuses == {"NONE", "PENDING", "PROCESSING", "DONE"}

Effect == [status: EffectStatuses,
           tried: BOOLEAN,              \* attempts > 0
           born: Nat,                   \* order of created_at
           chat: Customers \cup {NoCustomer},
           orderId: OrderIds \cup {NoOrder}]

NoEffect == [status |-> "NONE", tried |-> FALSE, born |-> 0,
             chat |-> NoCustomer, orderId |-> NoOrder]

Row == [status: {"NONE", "RESERVED", "COMMITTED", "RELEASED"},
        quantity: 0 .. MaxQuantity, orderId: OrderIds \cup {NoOrder}]

NoRow == [status |-> "NONE", quantity |-> 0, orderId |-> NoOrder]

HandlerSteps == {"idle", "exists", "batch", "undo", "refuse", "apologise",
                 "transact"}

Handler == [step: HandlerSteps, update: Updates \cup {NoUpdate},
            cart: Carts,          \* currentCart() as read before the calls
            reserved: BOOLEAN]    \* reservationId is set

IdleHandler == [step |-> "idle", update |-> NoUpdate, cart |-> EmptyCart,
                reserved |-> FALSE]

NoClaim == [type |-> "NONE", key |-> NoUpdate]

Drain == [step: {"idle", "call", "verify", "settle"},
          effect: EffectIds \cup {NoClaim}]

IdleDrain == [step |-> "idle", effect |-> NoClaim]

TypeOK ==
    /\ ServiceTypeOK
    /\ inbox \in [Updates ->
           [customer: Customers, message: Messages] \cup {NoUpdate}]
    /\ processed \subseteq Updates
    /\ handler \in [Customers -> Handler]
    /\ effects \in [EffectIds -> Effect]
    /\ links \in [OrderIds -> Updates \cup {NoUpdate}]
    /\ drain \in [Customers -> [Workers -> Drain]]
    /\ remaining \in [Stocked -> Nat]
    /\ reservations \in [Updates -> [Products -> Row]]
    /\ faults \in [crash: 0 .. MaxCrashes, abort: 0 .. MaxAborts,
                   d1: 0 .. MaxD1Failures]

SessionInit ==
    /\ inbox = [u \in Updates |-> NoUpdate]
    /\ processed = {}
    /\ handler = [c \in Customers |-> IdleHandler]
    /\ effects = [e \in EffectIds |-> NoEffect]
    /\ links = [o \in OrderIds |-> NoUpdate]
    /\ drain = [c \in Customers |-> [w \in Workers |-> IdleDrain]]
    /\ remaining = InitialStock
    /\ reservations = [u \in Updates |-> [p \in Products |-> NoRow]]
    /\ faults = [crash |-> 0, abort |-> 0, d1 |-> 0]

Init == ServiceInit /\ SessionInit

-----------------------------------------------------------------------------
(* The D1 statements.  Each batch is one transaction.                      *)

HasRows(u) == \E p \in Products : reservations[u][p].status # "NONE"

Wanted(cart) == {p \in Products : cart[p] > 0}

(* Products whose conditional INSERT finds no stock row or enough stock.   *)
InStock(cart) ==
    {p \in Wanted(cart) : p \in Stocked => remaining[p] >= cart[p]}

(* Mutant: the stock is taken whether or not the row was inserted. *)
ReserveBatchUnguarded(u, cart) ==
    /\ reservations' = [reservations EXCEPT ![u] =
           [p \in Products |->
               IF p \in InStock(cart)
               THEN [status |-> "RESERVED", quantity |-> cart[p],
                     orderId |-> NoOrder]
               ELSE @[p]]]
    /\ remaining' = [p \in Stocked |-> remaining[p] - cart[p]]

ReserveBatch(u, cart) ==
    /\ reservations' = [reservations EXCEPT ![u] =
           [p \in Products |->
               IF p \in InStock(cart)
               THEN [status |-> "RESERVED", quantity |-> cart[p],
                     orderId |-> NoOrder]
               ELSE @[p]]]
    /\ remaining' = [p \in Stocked |->
           IF p \in InStock(cart) THEN remaining[p] - cart[p]
                                  ELSE remaining[p]]

Held(row) == row.status \in {"RESERVED", "COMMITTED"}

HeldQuantity(row) == IF Held(row) THEN row.quantity ELSE 0

(* releaseInventory: give back what the selected rows still hold and mark  *)
(* them RELEASED.                                                          *)
ReleaseRows(selected) ==
    /\ remaining' = [p \in Stocked |->
           remaining[p] + SumFunctionOnSet(
               [u \in Updates |-> HeldQuantity(reservations[u][p])],
               {u \in Updates : <<u, p>> \in selected})]
    /\ reservations' = [u \in Updates |-> [p \in Products |->
           IF <<u, p>> \in selected /\ Held(reservations[u][p])
           THEN [reservations[u][p] EXCEPT !.status = "RELEASED"]
           ELSE reservations[u][p]]]

(* Mutant: rows already released are given back again. *)
ReleaseTwice(r) ==
    /\ remaining' = [p \in Stocked |->
           remaining[p] + reservations[r][p].quantity]
    /\ reservations' = [reservations EXCEPT ![r] =
           [p \in Products |-> IF Held(@[p])
                               THEN [@[p] EXCEPT !.status = "RELEASED"]
                               ELSE @[p]]]

ReleaseReservation(r) == ReleaseRows({r} \X Products)

ReleaseOrder(o) ==
    IF links[o] # NoUpdate
    THEN ReleaseReservation(links[o])
    ELSE ReleaseRows({r \in Updates \X Products :
                        reservations[r[1]][r[2]].orderId = o})

(* Mutant: the UPDATE does not ask for status RESERVED. *)
CommitAnyRow(r, o) ==
    /\ reservations' = [reservations EXCEPT ![r] =
           [p \in Products |->
               IF @[p].status # "NONE"
               THEN [@[p] EXCEPT !.status = "COMMITTED", !.orderId = o]
               ELSE @[p]]]
    /\ UNCHANGED remaining

CommitRows(r, o) ==
    /\ reservations' = [reservations EXCEPT ![r] =
           [p \in Products |->
               IF @[p].status = "RESERVED"
               THEN [@[p] EXCEPT !.status = "COMMITTED", !.orderId = o]
               ELSE @[p]]]
    /\ UNCHANGED remaining

Committed(r, o) ==
    /\ HasRows(r)
    /\ \A p \in Products :
          reservations[r][p].status = "NONE"
              \/ (reservations[r][p].status = "COMMITTED"
                    /\ reservations[r][p].orderId = o)

(* A failing call spends the bound; it may have been applied all the same. *)
D1Fails ==
    /\ faults.d1 < MaxD1Failures
    /\ faults' = [faults EXCEPT !.d1 = @ + 1]

-----------------------------------------------------------------------------
(* enqueueInventoryEffect: INSERT OR IGNORE of the effects in ids.         *)

NextBorn(c) ==
    1 + Max({0} \cup {effects[e].born : e \in
                        {x \in EffectIds : effects[x].chat = c}})

Enqueue(c, ids, o) ==
    effects' = [e \in EffectIds |->
        IF e \in ids /\ effects[e].status = "NONE"
        THEN [status |-> "PENDING", tried |-> FALSE, born |-> NextBorn(c),
              chat |-> c,
              orderId |-> IF e.type = "COMMIT_RESERVATION" THEN o
                                                           ELSE NoOrder]
        ELSE effects[e]]

CommitEffect(u)       == [type |-> "COMMIT_RESERVATION", key |-> u]
ReleaseEffect(u)      == [type |-> "RELEASE_RESERVATION", key |-> u]
ReleaseOrderEffect(o) == [type |-> "RELEASE_ORDER", key |-> o]

-----------------------------------------------------------------------------
(* process(): one update of one chat.                                      *)

Goto(c, step) == handler' = [handler EXCEPT ![c].step = step]
Return(c)     == handler' = [handler EXCEPT ![c] = IdleHandler]

(* Telegram delivers u for the first time, or again while it has not been  *)
(* answered; an update already processed is answered from its stored       *)
(* commands and changes nothing.                                           *)
Receive(c, u, m) ==
    /\ handler[c].step = "idle"
    /\ u \notin processed
    /\ inbox[u] \in {NoUpdate, [customer |-> c, message |-> m]}
    /\ inbox' = [inbox EXCEPT ![u] = [customer |-> c, message |-> m]]
    /\ LET reserves == /\ m.action = "confirm_order" /\ ~m.typed
                       /\ conv[c].state = "CONFIRMING"
                       /\ conv[c].cart # EmptyCart
       IN handler' = [handler EXCEPT ![c] =
              [step |-> IF reserves THEN "exists" ELSE "transact",
               update |-> u,
               cart |-> IF reserves THEN conv[c].cart ELSE EmptyCart,
               reserved |-> reserves]]
    /\ UNCHANGED <<serviceVars, processed, effects, links, drain, d1Vars,
                   faults>>

(* reserveInventory: any row of this reservation, whatever its status,     *)
(* passes for a reservation made.                                          *)
FindReservation(c) ==
    /\ handler[c].step = "exists"
    /\ Goto(c, IF HasRows(handler[c].update) THEN "transact" ELSE "batch")
    /\ UNCHANGED <<serviceVars, inbox, processed, effects, links, drain,
                   d1Vars, faults>>

(* Mutant: nobody counts the rows that were inserted. *)
ReserveUnchecked(c) ==
    /\ handler[c].step = "batch"
    /\ ReserveBatch(handler[c].update, handler[c].cart)
    /\ Goto(c, "transact")
    /\ UNCHANGED <<serviceVars, inbox, processed, effects, links, drain,
                   faults>>

Reserve(c) ==
    LET u == handler[c].update
        cart == handler[c].cart
    IN
    /\ handler[c].step = "batch"
    /\ ReserveBatch(u, cart)
    /\ Goto(c, IF InStock(cart) = Wanted(cart) THEN "transact" ELSE "undo")
    /\ UNCHANGED <<serviceVars, inbox, processed, effects, links, drain,
                   faults>>

UndoReserve(c) ==
    /\ handler[c].step = "undo"
    /\ ReleaseReservation(handler[c].update)
    /\ Goto(c, "refuse")
    /\ UNCHANGED <<serviceVars, inbox, processed, effects, links, drain,
                   faults>>

ReserveFails(c) ==
    /\ D1Fails
    /\ \/ handler[c].step \in {"exists", "batch", "undo"} /\ UNCHANGED d1Vars
       \/ /\ handler[c].step = "batch"
          /\ ReserveBatch(handler[c].update, handler[c].cart)
       \/ /\ handler[c].step = "undo"
          /\ ReleaseReservation(handler[c].update)
    /\ Goto(c, "refuse")
    /\ UNCHANGED <<serviceVars, inbox, processed, effects, links, drain>>

(* Mutant: a failed reservation leaves no release effect behind. *)
RefuseOnly(c) ==
    /\ handler[c].step = "refuse"
    /\ Goto(c, "apologise")
    /\ UNCHANGED <<serviceVars, inbox, processed, effects, links, drain,
                   d1Vars, faults>>

(* The catch block: make the release durable, drain, then answer.          *)
Refuse(c) ==
    /\ handler[c].step = "refuse"
    /\ Enqueue(c, {ReleaseEffect(handler[c].update)}, NoOrder)
    /\ Goto(c, "apologise")
    /\ UNCHANGED <<serviceVars, inbox, processed, links, drain, d1Vars,
                   faults>>

Apologise(c) ==
    /\ handler[c].step = "apologise"
    /\ processed' = processed \cup {handler[c].update}
    /\ Return(c)
    /\ UNCHANGED <<serviceVars, inbox, effects, links, drain, d1Vars, faults>>

(* Effects of the state transaction, from the orders as it leaves them.    *)
ClosedOrders(c) ==
    {o \in OrderIds : /\ orders[o].customerId = c
                      /\ orders[o].status \in {"CANCELLED", "EXPIRED"}}

Bookkeep(c, u, reserved, awaiting, closed) ==
    LET releases == {ReleaseOrderEffect(o) : o \in closed} IN
    \/ /\ ~reserved
       /\ Enqueue(c, releases, NoOrder)
       /\ UNCHANGED links
    \/ /\ reserved /\ awaiting = {}
       /\ Enqueue(c, releases \cup {ReleaseEffect(u)}, NoOrder)
       /\ UNCHANGED links
    \/ /\ reserved
       /\ \E o \in awaiting :
            /\ links' = [links EXCEPT ![o] = u]
            /\ Enqueue(c, releases \cup {CommitEffect(u)}, o)

(* Mutant: storeProcessed is left out of the transaction. *)
TransactUnrecorded(c) ==
    LET u == handler[c].update IN
    /\ handler[c].step = "transact"
    /\ HandleMessage(c, inbox[u].message)
    /\ Bookkeep(c, u, handler[c].reserved, AwaitingOrders(c)',
                ClosedOrders(c)')
    /\ Return(c)
    /\ UNCHANGED <<inbox, processed, drain, d1Vars, faults>>

Transact(c) ==
    LET u == handler[c].update IN
    /\ handler[c].step = "transact"
    /\ HandleMessage(c, inbox[u].message)
    /\ Bookkeep(c, u, handler[c].reserved, AwaitingOrders(c)',
                ClosedOrders(c)')
    /\ processed' = processed \cup {u}
    /\ Return(c)
    /\ UNCHANGED <<inbox, drain, d1Vars, faults>>

(* The transaction throws: nothing it did remains, the reservation is      *)
(* released by an effect, and Telegram will deliver the update again.      *)
RollBack(c) ==
    /\ handler[c].step = "transact"
    /\ Enqueue(c, IF handler[c].reserved
                  THEN {ReleaseEffect(handler[c].update)} ELSE {}, NoOrder)
    /\ Return(c)
    /\ UNCHANGED <<serviceVars, inbox, processed, links, drain, d1Vars>>

(* Because handleMessage throws ...                                        *)
Reject(c) ==
    /\ RollBack(c)
    /\ Throws(c, inbox[handler[c].update].message)
    /\ UNCHANGED faults

(* ... or by a fault of the storage.                                       *)
Abort(c) ==
    /\ faults.abort < MaxAborts
    /\ faults' = [faults EXCEPT !.abort = @ + 1]
    /\ RollBack(c)

-----------------------------------------------------------------------------
(* resolvePayment(): staff confirmation, and expiry by the alarm.          *)

StaffConfirms(o) ==
    /\ ConfirmPayment(o)
    /\ UNCHANGED <<sessionVars, d1Vars, faults>>

(* Mutants: the alarm trusts the order it read before its awaits, or       *)
(* leaves the stock of an expired order to somebody else.                  *)
AlarmExpiresUnchecked(o) ==
    /\ orders[o].status # "NONE"
    /\ orders' = [orders EXCEPT ![o].status = "EXPIRED"]
    /\ Enqueue(orders[o].customerId, {ReleaseOrderEffect(o)}, NoOrder)
    /\ UNCHANGED <<conv, named, inbox, processed, handler, links, drain,
                   d1Vars, faults>>

AlarmOnlyExpires(o) ==
    /\ ExpireOrder(o)
    /\ UNCHANGED <<sessionVars, d1Vars, faults>>

AlarmExpires(o) ==
    /\ ExpireOrder(o)
    /\ Enqueue(orders[o].customerId, {ReleaseOrderEffect(o)}, NoOrder)
    /\ UNCHANGED <<inbox, processed, handler, links, drain, d1Vars, faults>>

-----------------------------------------------------------------------------
(* drainInventoryEffects(), run by every handler, payment call and alarm.  *)

(* The oldest effect that is due: new ones are due at once, retried ones   *)
(* after a delay, claimed ones when their lease has run out.               *)
Claim(c, w, e) ==
    /\ drain[c][w].step = "idle"
    /\ effects[e].chat = c
    /\ effects[e].status \in {"PENDING", "PROCESSING"}
    /\ \A f \in EffectIds :
          /\ effects[f].chat = c
          /\ effects[f].status = "PENDING" /\ ~effects[f].tried
          => effects[e].born <= effects[f].born
    /\ effects' = [effects EXCEPT ![e].status = "PROCESSING"]
    /\ drain' = [drain EXCEPT ![c][w] = [step |-> "call", effect |-> e]]
    /\ UNCHANGED <<serviceVars, inbox, processed, handler, links, d1Vars,
                   faults>>

(* The D1 call of the claimed effect.                                      *)
Perform(e) ==
    \/ e.type = "COMMIT_RESERVATION" /\ CommitRows(e.key, effects[e].orderId)
    \/ e.type = "RELEASE_RESERVATION" /\ ReleaseReservation(e.key)
    \/ e.type = "RELEASE_ORDER" /\ ReleaseOrder(e.key)

Call(c, w) ==
    LET e == drain[c][w].effect IN
    /\ drain[c][w].step = "call"
    /\ Perform(e)
    /\ drain' = [drain EXCEPT ![c][w].step =
           IF e.type = "COMMIT_RESERVATION" THEN "verify" ELSE "settle"]
    /\ UNCHANGED <<serviceVars, inbox, processed, handler, effects, links,
                   faults>>

Retry(c, w) ==
    /\ effects' = [effects EXCEPT ![drain[c][w].effect].status = "PENDING",
                                  ![drain[c][w].effect].tried = TRUE]
    /\ drain' = [drain EXCEPT ![c][w] = IdleDrain]

(* commitReservation reads the rows back and throws unless all of them are *)
(* COMMITTED for this order.                                               *)
Verify(c, w) ==
    LET e == drain[c][w].effect IN
    /\ drain[c][w].step = "verify"
    /\ \/ /\ Committed(e.key, effects[e].orderId)
          /\ drain' = [drain EXCEPT ![c][w].step = "settle"]
          /\ UNCHANGED effects
       \/ /\ ~Committed(e.key, effects[e].orderId)
          /\ Retry(c, w)
    /\ UNCHANGED <<serviceVars, inbox, processed, handler, links, d1Vars,
                   faults>>

(* Mutant: an error of D1 passes for success. *)
CallErrorIgnored(c, w) ==
    /\ D1Fails
    /\ drain[c][w].step \in {"call", "verify"}
    /\ drain' = [drain EXCEPT ![c][w].step = "settle"]
    /\ UNCHANGED <<serviceVars, inbox, processed, handler, effects, links,
                   d1Vars>>

CallFails(c, w) ==
    /\ D1Fails
    /\ \/ drain[c][w].step \in {"call", "verify"} /\ UNCHANGED d1Vars
       \/ drain[c][w].step = "call" /\ Perform(drain[c][w].effect)
    /\ Retry(c, w)
    /\ UNCHANGED <<serviceVars, inbox, processed, handler, links>>

Settle(c, w) ==
    /\ drain[c][w].step = "settle"
    /\ effects' = [effects EXCEPT ![drain[c][w].effect].status = "DONE"]
    /\ drain' = [drain EXCEPT ![c][w] = IdleDrain]
    /\ UNCHANGED <<serviceVars, inbox, processed, handler, links, d1Vars,
                   faults>>

-----------------------------------------------------------------------------
(* The object of chat c is evicted: what it was awaiting is forgotten.     *)
Crash(c) ==
    /\ handler[c] # IdleHandler \/ \E w \in Workers : drain[c][w] # IdleDrain
    /\ faults.crash < MaxCrashes
    /\ faults' = [faults EXCEPT !.crash = @ + 1]
    /\ Return(c)
    /\ drain' = [drain EXCEPT ![c] = [w \in Workers |-> IdleDrain]]
    /\ UNCHANGED <<serviceVars, inbox, processed, effects, links, d1Vars>>

-----------------------------------------------------------------------------
Process(c) ==
    \/ FindReservation(c) \/ Reserve(c) \/ UndoReserve(c)
    \/ Refuse(c) \/ Apologise(c) \/ Transact(c) \/ Reject(c)

Next ==
    \/ \E c \in Customers, u \in Updates, m \in Messages : Receive(c, u, m)
    \/ \E c \in Customers :
          Process(c) \/ ReserveFails(c) \/ Abort(c) \/ Crash(c)
    \/ \E o \in OrderIds : StaffConfirms(o) \/ AlarmExpires(o)
    \/ \E c \in Customers, w \in Workers :
          \/ \E e \in EffectIds : Claim(c, w, e)
          \/ Call(c, w) \/ Verify(c, w) \/ CallFails(c, w) \/ Settle(c, w)

Spec == Init /\ [][Next]_vars

(* What keeps things moving.  A running handler and a running drain go on; *)
(* Telegram repeats an update until it is answered; scheduleNextAlarm      *)
(* leaves an alarm set while an order waits or an effect is not DONE, and  *)
(* the alarm drains.  An effect can be passed over while older ones are    *)
(* due, but a failed one comes due only after a growing delay, so every    *)
(* effect gets its turn: strong fairness.  No message, staff decision,     *)
(* crash or failure is fair.                                               *)
Redeliver(c, u) ==
    /\ inbox[u] # NoUpdate
    /\ Receive(c, u, inbox[u].message)

Fairness ==
    /\ \A c \in Customers :
          /\ WF_vars(Process(c))
          /\ \A u \in Updates : SF_vars(Redeliver(c, u))
          /\ \A w \in Workers : WF_vars(Call(c, w) \/ Verify(c, w) \/ Settle(c, w))
          /\ \A e \in EffectIds : SF_vars(\E w \in Workers : Claim(c, w, e))
    /\ \A o \in OrderIds : WF_vars(AlarmExpires(o))

FairSpec == Spec /\ Fairness

-----------------------------------------------------------------------------
(* Properties.                                                             *)

Outstanding(e) == effects[e].status \in {"PENDING", "PROCESSING"}

HeldOf(u) == {p \in Products : Held(reservations[u][p])}

HeldFor(o) == IF links[o] = NoUpdate THEN {} ELSE HeldOf(links[o])

(* Stock is neither created nor lost: what remains of a product and what   *)
(* its reservations hold add up to the stock of the day, whatever calls    *)
(* fail, are repeated or are cut short by an eviction.                     *)
StockConserved ==
    \A p \in Stocked :
        remaining[p] + SumFunctionOnSet(
            [u \in Updates |-> HeldQuantity(reservations[u][p])], Updates)
        = InitialStock[p]

(* Together with the types: no product is sold below zero, and no          *)
(* reservation lies outside the stock of the day.                          *)
StockInv == TypeOK /\ StockConserved

(* A confirmed update makes at most one order, however often Telegram      *)
(* delivers it and wherever its handling was interrupted.                  *)
OneOrderPerConfirmation ==
    Cardinality({o \in OrderIds : orders[o].status # "NONE"})
        <= Cardinality({u \in processed :
                           inbox[u].message.action = "confirm_order"})

(* An order that waits for payment or is paid holds, in a reservation that *)
(* no other order rests on, every product it contains in the quantity      *)
(* ordered.                                                                *)
LiveOrdersAreBacked ==
    \A o \in OrderIds :
        orders[o].status \in {"AWAITING_PAYMENT", "PAID"} =>
            /\ links[o] # NoUpdate
            /\ \A other \in OrderIds : links[other] = links[o] => other = o
            /\ \A p \in Products :
                  HeldQuantity(reservations[links[o]][p]) = orders[o].items[p]

(* Held stock is never forgotten: it belongs to a live order, or an effect *)
(* that releases it is outstanding, or the update that took it is being    *)
(* handled.                                                                *)
HeldStockHasAnOwner ==
    \A u \in Updates :
        HeldOf(u) # {} =>
            \/ \E c \in Customers : handler[c].update = u
            \/ Outstanding(ReleaseEffect(u))
            \/ \E o \in OrderIds :
                  /\ links[o] = u
                  /\ \/ orders[o].status \in {"AWAITING_PAYMENT", "PAID"}
                     \/ Outstanding(ReleaseOrderEffect(o))

(* An effect that is DONE has had its result: a DONE release leaves        *)
(* nothing of its reservation held, a DONE commit leaves nothing RESERVED, *)
(* even when two drains ran the same effect.                               *)
DoneEffectsHold ==
    /\ \A u \in Updates :
          /\ effects[ReleaseEffect(u)].status = "DONE" => HeldOf(u) = {}
          /\ effects[CommitEffect(u)].status = "DONE" =>
                \A p \in Products : reservations[u][p].status # "RESERVED"
    /\ \A o \in OrderIds :
          effects[ReleaseOrderEffect(o)].status = "DONE" => HeldFor(o) = {}

LiveOrders == {o \in OrderIds : orders[o].status \in {"AWAITING_PAYMENT", "PAID"}}

AtRest == /\ \A c \in Customers : handler[c] = IdleHandler
          /\ \A u \in Updates : ~Outstanding(ReleaseEffect(u))
          /\ \A o \in OrderIds : ~Outstanding(ReleaseOrderEffect(o))

(* The books of the day balance against the orders, not only against the   *)
(* reservations: when no update is being handled and every release has     *)
(* been performed, each product that is gone is in an order that waits for *)
(* payment or is paid.  Nothing is sold twice, leaks or is given back too  *)
(* often over the whole way from confirm_order to drainInventoryEffects.   *)
BooksBalanceAtRest ==
    AtRest =>
        \A p \in Stocked :
            remaining[p] + SumFunctionOnSet(
                [o \in OrderIds |-> orders[o].items[p]], LiveOrders)
            = InitialStock[p]

(* A reservation row only moves forward, and a released row never holds    *)
(* stock again or changes its quantity.                                    *)
RowsMoveForward ==
    [][\A u \in Updates, p \in Products :
          LET old == reservations[u][p]
              new == reservations'[u][p]
          IN  old.status # "NONE" =>
                 /\ new.quantity = old.quantity
                 /\ \/ new = old
                    \/ old.status = "RESERVED" /\ new.status = "COMMITTED"
                    \/ Held(old) /\ new.status = "RELEASED"
      ]_vars

(* Whatever the handlers, drains and payment calls of all the objects do   *)
(* between the awaits, the sessions behave as the ordering core specifies: *)
(* no state read before an await is used to change it after.               *)
RefinesService == ServiceSpec

ServiceSteps == [][ServiceNext]_serviceVars

(* An update is answered in the end, whatever interrupts its handling.     *)
UpdatesAreAnswered ==
    \A u \in Updates : inbox[u] # NoUpdate ~> u \in processed

(* The stock of a cancelled or expired order comes back for good.          *)
StockComesBack ==
    \A o \in OrderIds :
        orders[o].status \in {"CANCELLED", "EXPIRED"} ~> [](HeldFor(o) = {})
=============================================================================
