------------------------ MODULE PaymentNotification ------------------------
(***************************************************************************)
(* How a customer learns that an order is paid or expired.  One object     *)
(* TelegramSession of telegram-gateway/src/fastpath.ts: resolvePayment     *)
(* writes the decision and its message (notification_outbox) in one        *)
(* transaction; flushOutbox sends the message to Telegram, called by the   *)
(* endpoint /internal/payment of index.ts and by the object's alarm, which *)
(* is also what expires an order nobody pays.  The handlers interleave at  *)
(* every await, a send may fail or its answer be lost, and the platform    *)
(* may evict the object at any time.                                       *)
(*                                                                         *)
(* Abstracted data: confirmPayment and expireOrder answer with exactly one *)
(* message, so the progress index of an outbox says no more than that it   *)
(* is delivered.  The clock is left out: a retry delay, the time to pay    *)
(* and the time of the alarm may come at any moment.                       *)
(***************************************************************************)
EXTENDS Naturals, FiniteSets

CONSTANTS
    Calls,         \* requests to /internal/payment under way together
    Alarm,         \* the handler alarm() of the object
    MaxOrders,     \* bound: orders the chat places
    MaxCalls,      \* bound: requests in all
    MaxFaults      \* bound: failed sends, lost answers and evictions

Orders == 1 .. MaxOrders

ASSUME PaymentAssumption ==
    /\ IsFiniteSet(Calls) /\ Alarm \notin Calls
    /\ MaxOrders \in Nat /\ MaxCalls \in Nat /\ MaxFaults \in Nat

VARIABLES
    order,    \* order[o]: its status
    outbox,   \* outbox[o]: the message about o, and what became of it
    alarm,    \* an alarm is stored
    chat,     \* the update of the chat that is being processed
    handler,  \* handler[h]: a request, or the alarm handler
    calls,    \* requests made so far, for the bound
    told,     \* told[o][k]: messages of kind k about o the customer has got
    again,    \* again[o]: history: what may make the customer hear again
    faults    \* how many faults have happened, for the bound

vars == <<order, outbox, alarm, chat, handler, calls, told, again, faults>>

Decisions == {"PAID", "EXPIRED"}
Statuses  == {"NONE", "AWAITING_PAYMENT", "CANCELLED"} \cup Decisions

(* A message is new until its first attempt fails: only then does a delay  *)
(* keep the alarm from picking it.                                         *)
Outbox == [state: {"none", "new", "delayed", "delivered"},
           kind: {"none"} \cup Decisions]

(* outcome and delivery are what the endpoint will answer.                 *)
Handler == [step: {"idle", "asked", "draining", "flushing", "sending",
                   "received", "waking", "looking", "answered"},
            order: Orders \cup {0},
            action: {"none"} \cup Decisions,
            outcome: {"none", "resolved", "already_resolved",
                      "unavailable"},
            delivery: {"none", "pending", "delivered"}]

Idle == [step |-> "idle", order |-> 0, action |-> "none",
         outcome |-> "none", delivery |-> "none"]

Handlers == Calls \cup {Alarm}

TypeOK ==
    /\ order \in [Orders -> Statuses]
    /\ outbox \in [Orders -> Outbox]
    /\ alarm \in BOOLEAN
    /\ chat \in {"idle", "draining", "unanswered"}
    /\ handler \in [Handlers -> Handler]
    /\ calls \in Nat
    /\ told \in [Orders -> [Decisions -> Nat]]
    /\ again \in [Orders -> Nat]
    /\ faults \in Nat

Init ==
    /\ order = [o \in Orders |-> "NONE"]
    /\ outbox = [o \in Orders |-> [state |-> "none", kind |-> "none"]]
    /\ alarm = FALSE
    /\ chat = "idle"
    /\ handler = [h \in Handlers |-> Idle]
    /\ calls = 0
    /\ told = [o \in Orders |-> [k \in Decisions |-> 0]]
    /\ again = [o \in Orders |-> 0]
    /\ faults = 0

Fails ==
    /\ faults < MaxFaults                                          \* bound
    /\ faults' = faults + 1

-----------------------------------------------------------------------------
Pending(o) == outbox[o].state \in {"new", "delayed"}

Awaiting == {o \in Orders : order[o] = "AWAITING_PAYMENT"}

(* Mutant: only messages are scheduled, not the end of the time to pay. *)
SetAlarmForMessages(obx, ord) ==
    alarm' = (\E o \in Orders : obx[o].state \in {"new", "delayed"})

(* scheduleNextAlarm: an alarm for a pending message or an awaiting order. *)
(* Its other reasons, stock and snapshots, are left out: an alarm set for  *)
(* them alone finds nothing to do here.                                    *)
SetAlarm(obx, ord) ==
    alarm' = (\E o \in Orders : \/ obx[o].state \in {"new", "delayed"}
                                \/ ord[o] = "AWAITING_PAYMENT")

-----------------------------------------------------------------------------
(* The chat.                                                               *)

(* confirm_order: the order is placed, and the effects are drained.        *)
Place(o) ==
    /\ chat = "idle" /\ Awaiting = {}
    /\ order[o] = "NONE" /\ \A p \in 1 .. o - 1 : order[p] # "NONE"
    /\ order' = [order EXCEPT ![o] = "AWAITING_PAYMENT"]
    /\ chat' = "draining"
    /\ UNCHANGED <<outbox, alarm, handler, calls, told, again, faults>>

Cancel(o) ==
    /\ chat = "idle" /\ order[o] = "AWAITING_PAYMENT"
    /\ order' = [order EXCEPT ![o] = "CANCELLED"]
    /\ chat' = "draining"
    /\ UNCHANGED <<outbox, alarm, handler, calls, told, again, faults>>

(* The drain has ended; the update is answered.                            *)
ChatSchedules ==
    /\ chat = "draining" /\ chat' = "idle"
    /\ SetAlarm(outbox, order)
    /\ UNCHANGED <<order, outbox, handler, calls, told, again, faults>>

(* Telegram delivers the update again; the object only drains.             *)
Redeliver ==
    /\ chat = "unanswered" /\ chat' = "draining"
    /\ UNCHANGED <<order, outbox, alarm, handler, calls, told, again,
                   faults>>

-----------------------------------------------------------------------------
(* resolvePayment.                                                         *)

(* The decision and its message, in one transaction.                       *)
DecideOrder(o, k) ==
    /\ order' = [order EXCEPT ![o] = k]
    /\ outbox' = [outbox EXCEPT ![o] = [state |-> "new", kind |-> k]]

(* Mutant: the status of the order is not looked at. *)
ResolveAnyStatus(h) ==
    LET o == handler[h].order IN
    /\ DecideOrder(o, handler[h].action)
    /\ handler' = [handler EXCEPT ![h].step = "draining",
                                  ![h].outcome = "resolved",
                                  ![h].delivery = "pending"]

(* An order that is not awaiting payment is answered with what became of   *)
(* its message, if it has one.                                             *)
Resolve(h) ==
    LET o == handler[h].order IN
    \/ /\ order[o] = "AWAITING_PAYMENT"
       /\ DecideOrder(o, handler[h].action)
       /\ handler' = [handler EXCEPT ![h].step = "draining",
                                     ![h].outcome = "resolved",
                                     ![h].delivery = "pending"]
    \/ /\ order[o] # "AWAITING_PAYMENT"
       /\ handler' = [handler EXCEPT
              ![h].step = "draining",
              ![h].outcome = "already_resolved",
              ![h].delivery = CASE Pending(o) -> "pending"
                                [] outbox[o].state = "delivered" -> "delivered"
                                [] OTHER -> "none"]
       /\ UNCHANGED <<order, outbox>>

(* drainDurableEffectsBestEffort ends with scheduleNextAlarm.  A message   *)
(* that is pending goes on to flushOutbox.                                 *)
DrainEnds(h) ==
    /\ handler[h].step = "draining"
    /\ handler' = [handler EXCEPT ![h].step =
                       IF handler[h].delivery = "pending" THEN "flushing"
                                                          ELSE "answered"]
    /\ SetAlarm(outbox, order)
    /\ UNCHANGED <<order, outbox, chat, calls, told, again, faults>>

-----------------------------------------------------------------------------
(* flushOutbox.                                                            *)

(* Where the alarm handler goes on after a flush: the first flush is       *)
(* followed by the look at the time to pay, the second one by the end.     *)
AfterFlush(h) ==
    IF h = Alarm /\ handler[h].outcome = "none" THEN "looking"
                                                ELSE "answered"

InFlush(h, o) ==
    handler[h].order = o /\ handler[h].step \in {"sending", "received"}

(* The message is read and its sending begins with a drain of the queue    *)
(* outbox; history: whether another flush of it is under way.              *)
BeginSending(h, o) ==
    /\ handler' = [handler EXCEPT ![h].step = "sending", ![h].order = o]
    /\ again' = [again EXCEPT ![o] =
           @ + (IF \E g \in Handlers : InFlush(g, o) THEN 1 ELSE 0)]

(* Mutant: whether the message is delivered is not looked at. *)
FlushReadsNothing(h) ==
    /\ handler[h].step = "flushing"
    /\ BeginSending(h, handler[h].order)
    /\ UNCHANGED <<order, outbox, alarm, chat, calls, told, faults>>

FlushReads(h) ==
    LET o == handler[h].order IN
    /\ handler[h].step = "flushing"
    /\ \/ /\ ~Pending(o)
          /\ handler' = [handler EXCEPT ![h].step = AfterFlush(h),
                                        ![h].delivery = "delivered"]
          /\ SetAlarm(outbox, order)
          /\ UNCHANGED again
       \/ /\ Pending(o)
          /\ BeginSending(h, o)
          /\ UNCHANGED alarm
    /\ UNCHANGED <<order, outbox, chat, calls, told, faults>>

(* Telegram takes the message that the flush had read.                     *)
Receive(h) ==
    LET o == handler[h].order IN
    /\ handler[h].step = "sending"
    /\ handler' = [handler EXCEPT ![h].step = "received"]
    /\ told' = [told EXCEPT ![o][outbox[o].kind] = @ + 1]
    /\ UNCHANGED <<order, outbox, alarm, chat, calls, again, faults>>

(* Its answer arrives: delivered = 1.                                      *)
RecordDelivery(h) ==
    LET o == handler[h].order IN
    /\ handler[h].step = "received"
    /\ outbox' = [outbox EXCEPT ![o].state = "delivered"]
    /\ handler' = [handler EXCEPT ![h].step = AfterFlush(h),
                                  ![h].delivery = "delivered"]
    /\ SetAlarm(outbox', order)
    /\ UNCHANGED <<order, chat, calls, told, again, faults>>

(* Mutant: the answer of flushOutbox is not looked at. *)
RecordFailureAsDelivered(h) ==
    LET o == handler[h].order IN
    /\ outbox' = [outbox EXCEPT ![o].state =
                      IF @ = "delivered" THEN @ ELSE "delayed"]
    /\ handler' = [handler EXCEPT ![h].step = AfterFlush(h),
                                  ![h].delivery = "delivered"]
    /\ SetAlarm(outbox', order)

(* The catch of flushOutbox: a later attempt, unless another flush has     *)
(* delivered the message meanwhile.                                        *)
RecordFailure(h) ==
    LET o == handler[h].order IN
    /\ outbox' = [outbox EXCEPT ![o].state =
                      IF @ = "delivered" THEN @ ELSE "delayed"]
    /\ handler' = [handler EXCEPT ![h].step = AfterFlush(h),
                                  ![h].delivery = "pending"]
    /\ SetAlarm(outbox', order)

(* The queue drain throws, or Telegram is down or says no.                 *)
SendFails(h) ==
    /\ handler[h].step = "sending"
    /\ Fails
    /\ RecordFailure(h)
    /\ UNCHANGED <<order, chat, calls, told, again>>

(* Telegram has the message, but its answer does not come in 5 seconds.    *)
AnswerLost(h) ==
    /\ handler[h].step = "received"
    /\ Fails
    /\ again' = [again EXCEPT ![handler[h].order] = @ + 1]
    /\ RecordFailure(h)
    /\ UNCHANGED <<order, chat, calls, told>>

-----------------------------------------------------------------------------
(* The endpoint.                                                           *)

(* Staff confirm an order, or the scan of Apps Script expires it.          *)
Ask(c, o, k) ==
    /\ handler[c].step = "idle" /\ calls < MaxCalls                \* bound
    /\ order[o] # "NONE"
    /\ handler' = [handler EXCEPT ![c] =
           [Idle EXCEPT !.step = "asked", !.order = o, !.action = k]]
    /\ calls' = calls + 1
    /\ UNCHANGED <<order, outbox, alarm, chat, told, again, faults>>

CallResolves(c) ==
    /\ handler[c].step = "asked"
    /\ Resolve(c)
    /\ UNCHANGED <<alarm, chat, calls, told, again, faults>>

(* The answer has been read by whoever asked.                              *)
CallEnds(c) ==
    /\ handler[c].step = "answered"
    /\ handler' = [handler EXCEPT ![c] = Idle]
    /\ UNCHANGED <<order, outbox, alarm, chat, calls, told, again, faults>>

-----------------------------------------------------------------------------
(* alarm().                                                                *)

(* The platform takes the alarm away and starts the handler, which drains. *)
AlarmFires ==
    /\ alarm /\ alarm' = FALSE
    /\ handler[Alarm].step = "idle"
    /\ handler' = [handler EXCEPT ![Alarm].step = "waking"]
    /\ UNCHANGED <<order, outbox, chat, calls, told, again, faults>>

(* Mutant: a message that has failed once is not picked again. *)
AlarmPicksNew(o) ==
    /\ handler[Alarm].step = "waking"
    /\ outbox[o].state = "new"
    /\ BeginSending(Alarm, o)
    /\ SetAlarm(outbox, order)
    /\ UNCHANGED <<order, outbox, chat, calls, told, faults>>

(* The drain has ended: the oldest pending message whose delay is over is  *)
(* flushed, in the turn that read it.                                      *)
AlarmPicks(o) ==
    /\ handler[Alarm].step = "waking"
    /\ Pending(o) /\ \A p \in 1 .. o - 1 : outbox[p].state # "new"
    /\ BeginSending(Alarm, o)
    /\ SetAlarm(outbox, order)
    /\ UNCHANGED <<order, outbox, chat, calls, told, faults>>

AlarmPicksNothing ==
    /\ handler[Alarm].step = "waking"
    /\ \A o \in Orders : outbox[o].state # "new"
    /\ handler' = [handler EXCEPT ![Alarm].step = "looking"]
    /\ SetAlarm(outbox, order)
    /\ UNCHANGED <<order, outbox, chat, calls, told, again, faults>>

(* The time to pay is over: expirePayment, in the turn that looked.        *)
AlarmExpires(o) ==
    /\ handler[Alarm].step = "looking" /\ order[o] = "AWAITING_PAYMENT"
    /\ DecideOrder(o, "EXPIRED")
    /\ handler' = [handler EXCEPT
           ![Alarm] = [step |-> "draining", order |-> o, action |-> "EXPIRED",
                       outcome |-> "resolved", delivery |-> "pending"]]
    /\ UNCHANGED <<alarm, chat, calls, told, again, faults>>

AlarmLeaves ==
    /\ handler[Alarm].step = "looking"
    /\ handler' = [handler EXCEPT ![Alarm].step = "answered"]
    /\ UNCHANGED <<order, outbox, alarm, chat, calls, told, again, faults>>

AlarmEnds ==
    /\ handler[Alarm].step = "answered"
    /\ handler' = [handler EXCEPT ![Alarm] = Idle]
    /\ SetAlarm(outbox, order)
    /\ UNCHANGED <<order, outbox, chat, calls, told, again, faults>>

-----------------------------------------------------------------------------
(* An eviction.  What runs in the object dies with it: a request that was  *)
(* resolving is answered 500, one that was flushing is answered "pending", *)
(* the platform runs the alarm again, Telegram delivers the update again.  *)

Lost(h) ==
    IF handler[h].step = "draining" THEN "unavailable" ELSE handler[h].outcome

Evict ==
    /\ Fails
    /\ handler' = [h \in Handlers |->
           CASE h = Alarm -> Idle
             [] h # Alarm /\ handler[h].step \in {"draining", "sending",
                                                  "received"} ->
                    [handler[h] EXCEPT !.step = "answered",
                                       !.outcome = Lost(h)]
             [] OTHER -> handler[h]]
    /\ alarm' = (alarm \/ handler[Alarm].step # "idle")
    /\ chat' = IF chat = "idle" THEN "idle" ELSE "unanswered"
    /\ again' = [o \in Orders |-> again[o] +
           Cardinality({h \in Handlers : handler[h].order = o
                                         /\ handler[h].step = "received"})]
    /\ UNCHANGED <<order, outbox, calls, told>>

-----------------------------------------------------------------------------
Flush(h) == FlushReads(h) \/ Receive(h) \/ RecordDelivery(h)

Next ==
    \/ \E o \in Orders : Place(o) \/ Cancel(o)
    \/ ChatSchedules \/ Redeliver
    \/ \E c \in Calls :
          \/ \E o \in Orders, k \in Decisions : Ask(c, o, k)
          \/ CallResolves(c) \/ CallEnds(c)
    \/ \E h \in Handlers :
          DrainEnds(h) \/ Flush(h) \/ SendFails(h) \/ AnswerLost(h)
    \/ AlarmFires
    \/ \E o \in Orders : AlarmPicks(o) \/ AlarmExpires(o)
    \/ AlarmPicksNothing \/ AlarmLeaves \/ AlarmEnds
    \/ Evict

Spec == Init /\ [][Next]_vars

(* Handlers run on, the platform fires the alarm it holds and runs an      *)
(* evicted one again, and Telegram delivers again what was not answered.   *)
(* A retry delay and the time to pay end some time: an alarm that finds    *)
(* them running is set again, and in the end finds them over.  Nothing     *)
(* makes a customer order or staff ask.                                    *)
Fairness ==
    /\ WF_vars(ChatSchedules) /\ WF_vars(Redeliver)
    /\ \A h \in Handlers : WF_vars(DrainEnds(h)) /\ WF_vars(Flush(h))
    /\ WF_vars(AlarmFires) /\ WF_vars(AlarmEnds)
    /\ WF_vars(AlarmPicksNothing \/ \E o \in Orders : AlarmPicks(o))
    /\ WF_vars(AlarmLeaves \/ \E o \in Orders : AlarmExpires(o))
    /\ SF_vars(\E o \in Orders : AlarmPicks(o))
    /\ SF_vars(\E o \in Orders : AlarmExpires(o))

FairSpec == Spec /\ Fairness

-----------------------------------------------------------------------------
(* Properties.                                                             *)

(* Whatever is evicted between whichever steps, a message that is not      *)
(* delivered and an order that awaits payment are never forgotten: there   *)
(* is an alarm, or somebody at work who will set one.                      *)
PendingWorkIsScheduled ==
    (Awaiting # {} \/ \E o \in Orders : Pending(o)) =>
        alarm \/ handler[Alarm].step # "idle" \/ chat # "idle"

(* However confirmation, expiry and cancelling race, the customer is only  *)
(* ever told what the order has become, and never of two outcomes.         *)
ToldWhatWasDecided ==
    \A o \in Orders, k \in Decisions : told[o][k] > 0 => order[o] = k

(* A message that counts as delivered was received.                        *)
DeliveredWasReceived ==
    \A o \in Orders :
        outbox[o].state = "delivered" => told[o][outbox[o].kind] > 0

(* Outbox, order and customer agree: what is decided, what counts as       *)
(* delivered and what the customer has heard are the same outcome.         *)
PaymentInv == TypeOK /\ ToldWhatWasDecided /\ DeliveredWasReceived

(* The result of processOrderPayment in PaymentConfirmation.gs.            *)
StaffSees(c) ==
    LET r == handler[c] IN
    CASE r.outcome = "unavailable" -> "fast_path_gateway_unavailable"
      [] r.outcome = "already_resolved" -> "already_resolved"
      [] r.outcome = "resolved" /\ r.delivery = "pending" ->
             "confirmed_but_notification_failed"
      [] OTHER -> "ok"

(* What the menu tells the staff who confirm is so: "ok" that the order is *)
(* paid and the customer knows it, "confirmed_but_notification_failed"     *)
(* that it is paid, "already_resolved" that it needs no payment any more.  *)
StaffAreToldTheTruth ==
    \A c \in Calls :
        LET o == handler[c].order IN
        handler[c].step = "answered" /\ handler[c].action = "PAID" =>
            CASE StaffSees(c) = "ok" -> order[o] = "PAID" /\ told[o].PAID > 0
              [] StaffSees(c) = "confirmed_but_notification_failed" ->
                     order[o] = "PAID"
              [] StaffSees(c) = "already_resolved" ->
                     order[o] # "AWAITING_PAYMENT"
              [] OTHER -> TRUE

Heard(o) == told[o].PAID + told[o].EXPIRED

(* The customer hears of an order once; once more only for an answer of    *)
(* Telegram that was lost, to a timeout or with the object, or for a flush *)
(* that started while another one was at it.                               *)
RepeatsAreExplained == \A o \in Orders : Heard(o) <= 1 + again[o]

(* The orders of the chat live the life that OrderService gives them: the  *)
(* next one is placed only when none awaits payment, and whichever of the  *)
(* endpoint, the alarm and the chat comes first decides an order for ever, *)
(* however many of them read it before.                                    *)
PerOrder(unused, used) ==
    [o \in Orders |-> IF order[o] = "NONE" THEN unused ELSE used]

Lifecycle == INSTANCE OrderLifecycle WITH
    Customers <- {"chat"}, NoCustomer <- "nobody", OrderIds <- Orders,
    Baskets <- {"cart"}, NoItems <- "nothing",
    status <- order,
    owner <- PerOrder("nobody", "chat"),
    items <- PerOrder("nothing", "cart")

OrdersAreDecidedOnce == Lifecycle!Spec

(* No order awaits payment for ever, and every decision reaches the        *)
(* customer in the end.                                                    *)
CustomersAreTold ==
    \A o \in Orders :
        /\ order[o] = "AWAITING_PAYMENT" ~> order[o] # "AWAITING_PAYMENT"
        /\ Pending(o) ~> outbox[o].state = "delivered"
=============================================================================
