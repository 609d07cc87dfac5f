------------------------ MODULE UpdateDelivery_proofs ------------------------
(***************************************************************************)
(* Theorems about UpdateDelivery for every set of updates, any number of   *)
(* replies, Workers, scripts, deliveries, attempts of the queue and        *)
(* faults: an update takes effect once and its replies arrive.             *)
(***************************************************************************)
EXTENDS UpdateDelivery, TLAPS

-----------------------------------------------------------------------------
(* Types.                                                                  *)

Invocation == [step: {"idle", "routing", "sending", "releasing", "ok", "error"},
               update: Updates \cup {None}, sent: 0 .. Replies]

Execution == [step: {"idle", "waiting", "handling", "sending", "ok", "dead"},
              update: RawUpdates \cup {None}, sent: 0 .. Replies]

Delivery == [tries: 0 .. MaxTries, acked: BOOLEAN,
             waits: Workers \cup {None}]

(* What a Worker at work is at work on.                                    *)
WorkerTyped(w) ==
    LET u == worker[w].update IN
    /\ worker[w].step # "idle" => u \in Updates /\ telegram[u].tries > 0
    /\ worker[w].step = "routing" => worker[w].sent = 0
    /\ worker[w].step = "sending" =>
           u \in FastUpdates \cup QrUpdates /\ worker[w].sent < Replies
    /\ worker[w].step = "releasing" => u \in QrUpdates

RunTyped(g) ==
    /\ run[g].step # "idle" => run[g].update \in RawUpdates
    /\ run[g].step \in {"waiting", "handling"} => run[g].sent = 0
    /\ run[g].step = "sending" => run[g].sent < Replies

ConsumerTyped ==
    consumer.run # None =>
        /\ consumer.message \in Message
        /\ run[consumer.run].step # "idle"
        /\ run[consumer.run].update = consumer.message.update

TypeInv ==
    /\ TypeOK
    /\ \A w \in Workers : WorkerTyped(w)
    /\ \A g \in Runs : RunTyped(g)
    /\ ConsumerTyped

LEMMA RepliesPositive == Replies \in Nat /\ Replies > 0
  BY DeliveryAssumption DEF DeliveryAssumption

LEMMA NoneIsNothing ==
    None \notin Updates /\ None \notin Workers /\ None \notin Runs
        /\ None \notin Message
  BY DeliveryAssumption DEF DeliveryAssumption

LEMMA IdleTypes == IdleWorker \in Invocation /\ IdleWorker \in Execution
  BY RepliesPositive DEF IdleWorker, Invocation, Execution

LEMMA FaultTypes ==
    ASSUME TypeOK, Fails
    PROVE  faults' \in Nat
  BY DEF TypeOK, Fails

LEMMA AbandonTypes ==
    ASSUME TypeOK, NEW u \in Updates, Abandon(u)
    PROVE  abandoned' \subseteq Updates
  BY DEF TypeOK, Abandon

LEMMA InitTypes == Init => TypeInv
  <1> SUFFICES ASSUME Init PROVE TypeInv
    OBVIOUS
  <1>1. TypeOK
    BY IdleTypes, NoneIsNothing, DeliveryAssumption
    DEF Init, TypeOK, Invocation, Execution, IdleConsumer,
        DeliveryAssumption
  <1>2. ASSUME NEW w \in Workers
        PROVE  WorkerTyped(w)
    BY DEF Init, WorkerTyped, IdleWorker
  <1>3. ASSUME NEW g \in Runs
        PROVE  RunTyped(g)
    BY DEF Init, RunTyped, IdleWorker
  <1>4. ConsumerTyped
    BY DEF Init, ConsumerTyped, IdleConsumer
  <1> QED
    BY <1>1, <1>2, <1>3, <1>4 DEF TypeInv

(* A step that changes one Worker, and leaves the deliveries at least as   *)
(* many.                                                                   *)
LEMMA WorkerStep ==
    ASSUME TypeInv, NEW w \in Workers,
           \A v \in Workers \ {w} : worker'[v] = worker[v],
           \A u \in Updates : telegram[u].tries > 0 => telegram'[u].tries > 0,
           WorkerTyped(w)'
    PROVE  \A v \in Workers : WorkerTyped(v)'
  <1>1. ASSUME NEW v \in Workers \ {w}
        PROVE  WorkerTyped(v)'
    <2>1. worker'[v] = worker[v] /\ WorkerTyped(v)
      BY DEF TypeInv
    <2> QED
      BY <2>1 DEF WorkerTyped
  <1> QED
    BY <1>1

(* The same for the scripts.                                               *)
LEMMA RunStep ==
    ASSUME TypeInv, NEW g \in Runs,
           \A h \in Runs \ {g} : run'[h] = run[h],
           RunTyped(g)'
    PROVE  \A h \in Runs : RunTyped(h)'
  <1>1. ASSUME NEW h \in Runs \ {g}
        PROVE  RunTyped(h)'
    <2>1. run'[h] = run[h] /\ RunTyped(h)
      BY DEF TypeInv
    <2> QED
      BY <2>1 DEF RunTyped
  <1> QED
    BY <1>1

LEMMA GoesTypes ==
    ASSUME TypeOK, NEW w \in Workers,
           NEW step \in {"idle", "routing", "sending", "releasing", "ok",
                         "error"},
           WorkerGoes(w, step)
    PROVE  /\ worker' \in [Workers -> Invocation]
           /\ worker'[w].step = step
           /\ worker'[w].update = worker[w].update
           /\ worker'[w].sent = worker[w].sent
           /\ \A v \in Workers \ {w} : worker'[v] = worker[v]
  <1> DEFINE r == [worker[w] EXCEPT !.step = step]
  <1>1. worker \in [Workers -> Invocation] /\ worker[w] \in Invocation
    <2>1. worker \in [Workers -> Invocation]
      BY DEF TypeOK, Invocation
    <2> QED
      BY <2>1
  <1>2. /\ r \in Invocation /\ r.step = step
        /\ r.update = worker[w].update /\ r.sent = worker[w].sent
    BY <1>1 DEF Invocation
  <1>3. worker' = [worker EXCEPT ![w] = r]
    BY <1>1 DEF WorkerGoes
  <1> HIDE DEF r
  <1> QED
    BY <1>1, <1>2, <1>3

(* The other half of TypeInv.                                              *)
GasTyped ==
    /\ queue \subseteq Message /\ deadLetters \subseteq Message
    /\ consumer \in [message: Message \cup {None}, run: Runs \cup {None}]
    /\ run \in [Runs -> Execution]
    /\ claimed \subseteq RawUpdates
    /\ \A g \in Runs : RunTyped(g)
    /\ ConsumerTyped

EdgeTyped ==
    /\ telegram \in [Updates -> Delivery]
    /\ worker \in [Workers -> Invocation]
    /\ processed \subseteq FastUpdates \cup QrUpdates
    /\ \A w \in Workers : WorkerTyped(w)

ChatTyped ==
    /\ performed \in [Updates -> Nat]
    /\ received \in [Updates -> [1 .. Replies -> Nat]]
    /\ failed \in [Updates -> Nat]

HistoryTyped == abandoned \subseteq Updates /\ faults \in Nat

LEMMA TypesByPart ==
    TypeInv <=> EdgeTyped /\ ChatTyped /\ GasTyped /\ HistoryTyped
  BY DEF TypeInv, TypeOK, EdgeTyped, ChatTyped, GasTyped, HistoryTyped,
         Invocation, Execution, Delivery

LEMMA NextTypesByPart ==
    TypeInv' <=> EdgeTyped' /\ ChatTyped' /\ GasTyped' /\ HistoryTyped'
  BY DEF TypeInv, TypeOK, EdgeTyped, ChatTyped, GasTyped, HistoryTyped,
         Invocation, Execution, Delivery

LEMMA GasUntouched ==
    ASSUME GasTyped, UNCHANGED gasVars
    PROVE  GasTyped'
  BY DEF GasTyped, gasVars, RunTyped, ConsumerTyped

LEMMA EdgeUntouched ==
    ASSUME EdgeTyped, UNCHANGED edgeVars
    PROVE  EdgeTyped'
  BY DEF EdgeTyped, edgeVars, WorkerTyped

LEMMA ChatUntouched ==
    ASSUME ChatTyped, UNCHANGED chatVars
    PROVE  ChatTyped'
  BY DEF ChatTyped, chatVars

LEMMA DeliverTypes ==
    ASSUME TypeInv, NEW u \in Updates, NEW w \in Workers, Deliver(u, w)
    PROVE  EdgeTyped'
  <1>1. telegram \in [Updates -> Delivery] /\ worker \in [Workers -> Invocation]
    BY DEF TypeInv, TypeOK, Invocation, Delivery
  <1>2. /\ worker' \in [Workers -> Invocation]
        /\ worker'[w].step = "routing" /\ worker'[w].update = u
        /\ worker'[w].sent = worker[w].sent
        /\ \A v \in Workers \ {w} : worker'[v] = worker[v]
    BY <1>1 DEF Deliver, Invocation
  <1>3. worker'[w].sent = 0
    BY <1>2 DEF Deliver, IdleWorker
  <1>4. /\ telegram' \in [Updates -> Delivery]
        /\ telegram'[u].tries > 0
        /\ \A v \in Updates : telegram[v].tries > 0 => telegram'[v].tries > 0
    BY <1>1, DeliveryAssumption DEF Deliver, Delivery, DeliveryAssumption
  <1>5. WorkerTyped(w)'
    BY <1>2, <1>3, <1>4 DEF WorkerTyped
  <1>6. \A v \in Workers : WorkerTyped(v)'
    BY <1>2, <1>4, <1>5, WorkerStep
  <1> QED
    BY <1>2, <1>4, <1>6 DEF EdgeTyped, Deliver, TypeInv, TypeOK

(* A Worker that goes on with its update.                                  *)
LEMMA GoesOn ==
    ASSUME TypeInv, NEW w \in Workers,
           NEW step \in {"sending", "releasing", "ok", "error"},
           worker[w].step # "idle", WorkerGoes(w, step),
           step = "sending" =>
               worker[w].update \in FastUpdates \cup QrUpdates
                   /\ worker[w].sent < Replies,
           step = "releasing" => worker[w].update \in QrUpdates,
           UNCHANGED telegram,
           processed' \subseteq FastUpdates \cup QrUpdates
    PROVE  EdgeTyped'
  <1>1. /\ worker' \in [Workers -> Invocation]
        /\ worker'[w].step = step
        /\ worker'[w].update = worker[w].update
        /\ worker'[w].sent = worker[w].sent
        /\ \A v \in Workers \ {w} : worker'[v] = worker[v]
    BY GoesTypes DEF TypeInv
  <1>2. WorkerTyped(w)
    BY DEF TypeInv
  <1>3. WorkerTyped(w)'
    BY <1>1, <1>2 DEF WorkerTyped
  <1>4. \A v \in Workers : WorkerTyped(v)'
    BY <1>1, <1>3, WorkerStep
  <1> QED
    BY <1>1, <1>4 DEF EdgeTyped, TypeInv, TypeOK, Delivery

(* A Worker that is done, or dead.                                         *)
LEMMA Stops ==
    ASSUME TypeInv, NEW w \in Workers,
           worker' = [worker EXCEPT ![w] = IdleWorker],
           telegram' \in [Updates -> Delivery],
           \A u \in Updates : telegram[u].tries > 0 => telegram'[u].tries > 0,
           UNCHANGED processed
    PROVE  EdgeTyped'
  <1>1. worker \in [Workers -> Invocation]
    BY DEF TypeInv, TypeOK, Invocation
  <1>2. /\ worker' \in [Workers -> Invocation]
        /\ worker'[w] = IdleWorker
        /\ \A v \in Workers \ {w} : worker'[v] = worker[v]
    BY <1>1, IdleTypes
  <1>3. WorkerTyped(w)'
    BY <1>2 DEF WorkerTyped, IdleWorker
  <1>4. \A v \in Workers : WorkerTyped(v)'
    BY <1>2, <1>3, WorkerStep
  <1> QED
    BY <1>2, <1>4 DEF EdgeTyped, TypeInv, TypeOK

LEMMA GoesFurther ==
    ASSUME worker \in [Workers -> Invocation], NEW w \in Workers,
           NEW step \in {"sending", "ok"}, NEW i \in 0 .. Replies,
           worker' = [worker EXCEPT ![w].step = step, ![w].sent = i]
    PROVE  /\ worker' \in [Workers -> Invocation]
           /\ worker'[w].step = step
           /\ worker'[w].update = worker[w].update
           /\ worker'[w].sent = i
           /\ \A v \in Workers \ {w} : worker'[v] = worker[v]
  BY DEF Invocation

(* A reply more, or again.                                                 *)
LEMMA ReceivedTypes ==
    ASSUME received \in [Updates -> [1 .. Replies -> Nat]],
           NEW u \in Updates, NEW i \in 1 .. Replies
    PROVE  [received EXCEPT ![u][i] = @ + 1]
               \in [Updates -> [1 .. Replies -> Nat]]
  <1>1. received[u] \in [1 .. Replies -> Nat] /\ received[u][i] \in Nat
    OBVIOUS
  <1>2. [received[u] EXCEPT ![i] = received[u][i] + 1]
            \in [1 .. Replies -> Nat]
    BY <1>1
  <1> QED
    BY <1>1, <1>2

LEMMA SendTypes ==
    ASSUME TypeInv, NEW w \in Workers, Send(w)
    PROVE  EdgeTyped' /\ ChatTyped'
  <1> DEFINE u == worker[w].update
             i == worker[w].sent + 1
  <1>1. worker \in [Workers -> Invocation] /\ WorkerTyped(w)
           /\ received \in [Updates -> [1 .. Replies -> Nat]]
    BY DEF TypeInv, TypeOK, Invocation
  <1>2. worker[w].step = "sending" /\ u \in FastUpdates \cup QrUpdates
           /\ worker[w].sent \in 0 .. Replies /\ worker[w].sent < Replies
    BY <1>1 DEF Send, WorkerTyped, Invocation
  <1>3. i \in 1 .. Replies
    BY <1>2, RepliesPositive
  <1> DEFINE next == IF i = Replies THEN "ok" ELSE "sending"
  <1>4. /\ worker' \in [Workers -> Invocation]
        /\ worker'[w].step = next
        /\ worker'[w].update = u
        /\ worker'[w].sent = i
        /\ \A v \in Workers \ {w} : worker'[v] = worker[v]
    <2>1. worker' = [worker EXCEPT ![w].step = next, ![w].sent = i]
      BY DEF Send
    <2>2. next \in {"sending", "ok"} /\ i \in 0 .. Replies
      BY <1>3
    <2> HIDE DEF next, i
    <2> QED
      BY <1>1, <2>1, <2>2, GoesFurther
  <1>5. WorkerTyped(w)'
    <2>1. next = "sending" => i < Replies
      BY <1>3, RepliesPositive
    <2>2. next \in {"sending", "ok"} /\ u \in Updates
      BY <1>2 DEF Updates
    <2>3. telegram'[u].tries > 0
      BY <1>1, <1>2 DEF WorkerTyped, Send
    <2> HIDE DEF next, i
    <2> QED
      BY <1>2, <1>4, <2>1, <2>2, <2>3 DEF WorkerTyped
  <1>6. \A v \in Workers : WorkerTyped(v)'
    BY <1>4, <1>5, WorkerStep DEF Send
  <1>7. EdgeTyped'
    BY <1>4, <1>6 DEF EdgeTyped, TypeInv, TypeOK, Delivery, Send
  <1>8. ChatTyped'
    <2>1. received' \in [Updates -> [1 .. Replies -> Nat]]
      BY <1>1, <1>2, <1>3, ReceivedTypes DEF Send, Updates
    <2> QED
      BY <2>1 DEF ChatTyped, Send, TypeInv, TypeOK
  <1> QED
    BY <1>7, <1>8

(* A count of the chat that goes up.                                       *)
LEMMA CountTypes ==
    ASSUME NEW f \in [Updates -> Nat], NEW u \in Updates
    PROVE  [f EXCEPT ![u] = @ + 1] \in [Updates -> Nat]
  OBVIOUS

LEMMA SendFailsTypes ==
    ASSUME TypeInv, NEW w \in Workers, SendFails(w)
    PROVE  EdgeTyped' /\ ChatTyped'
  <1> DEFINE u == worker[w].update
             i == worker[w].sent + 1
             next == IF u \in QrUpdates THEN "releasing" ELSE "error"
  <1>1. worker \in [Workers -> Invocation] /\ WorkerTyped(w)
           /\ received \in [Updates -> [1 .. Replies -> Nat]]
           /\ processed \subseteq FastUpdates \cup QrUpdates
    BY DEF TypeInv, TypeOK, Invocation
  <1>2. worker[w].step = "sending" /\ u \in FastUpdates \cup QrUpdates
           /\ worker[w].sent \in 0 .. Replies /\ worker[w].sent < Replies
    BY <1>1 DEF SendFails, WorkerTyped, Invocation
  <1>3. i \in 1 .. Replies
    BY <1>2, RepliesPositive
  <1>4. EdgeTyped'
    <2>1. WorkerGoes(w, next) /\ UNCHANGED <<telegram, processed>>
      BY DEF SendFails
    <2>2. next \in {"sending", "releasing", "ok", "error"}
             /\ next # "sending" /\ (next = "releasing" => u \in QrUpdates)
      OBVIOUS
    <2> HIDE DEF next, u
    <2> QED
      BY <1>1, <1>2, <2>1, <2>2, GoesOn DEF u
  <1>5. received' \in [Updates -> [1 .. Replies -> Nat]]
    <2>1. u \in Updates
      BY <1>2 DEF Updates
    <2>2. UNCHANGED received \/ received' = [received EXCEPT ![u][i] = @ + 1]
      BY DEF SendFails
    <2>3. received \in [Updates -> [1 .. Replies -> Nat]]
      BY <1>1
    <2> HIDE DEF u, i
    <2>4. CASE UNCHANGED received
      BY <2>3, <2>4
    <2>5. CASE received' = [received EXCEPT ![u][i] = @ + 1]
      <3>1. [received EXCEPT ![u][i] = @ + 1]
                \in [Updates -> [1 .. Replies -> Nat]]
        BY <1>3, <2>1, <2>3, ReceivedTypes
      <3> QED
        BY <2>5, <3>1
    <2> QED
      BY <2>2, <2>4, <2>5
  <1>6. failed' \in [Updates -> Nat]
    BY <1>2, CountTypes DEF SendFails, TypeInv, TypeOK, Updates
  <1> QED
    BY <1>4, <1>5, <1>6 DEF ChatTyped, SendFails, TypeInv, TypeOK

(* The object: an update is on record, and has taken effect once more.     *)
LEMMA ProcessTypes ==
    ASSUME TypeInv, NEW w \in Workers, Process(w) \/ ProcessFails(w)
    PROVE  EdgeTyped' /\ ChatTyped'
  <1> DEFINE u == worker[w].update
  <1>1. /\ worker[w].step = "routing" /\ worker[w].sent = 0
        /\ u \in FastUpdates /\ u \in Updates
        /\ UNCHANGED <<telegram, received, failed>>
        /\ WorkerGoes(w, "sending") \/ WorkerGoes(w, "error")
    BY DEF Process, ProcessFails, TypeInv, WorkerTyped, Updates
  <1>2. processed' \subseteq FastUpdates \cup QrUpdates
    BY DEF Process, ProcessFails, TypeInv, TypeOK
  <1>3. performed' \in [Updates -> Nat]
    <2>1. UNCHANGED performed \/ performed' = [performed EXCEPT ![u] = @ + 1]
      BY DEF Process, ProcessFails
    <2> HIDE DEF u
    <2> QED
      BY <1>1, <2>1, CountTypes DEF TypeInv, TypeOK
  <1> HIDE DEF u
  <1>4. EdgeTyped'
    <2>1. CASE WorkerGoes(w, "sending")
      BY <1>1, <1>2, <2>1, RepliesPositive, GoesOn DEF u
    <2>2. CASE WorkerGoes(w, "error")
      BY <1>1, <1>2, <2>2, GoesOn
    <2> QED
      BY <1>1, <2>1, <2>2
  <1> QED
    BY <1>1, <1>3, <1>4 DEF ChatTyped, TypeInv, TypeOK

LEMMA ClaimTypes ==
    ASSUME TypeInv, NEW w \in Workers, Claim(w)
    PROVE  EdgeTyped'
  <1> DEFINE u == worker[w].update
  <1>1. /\ worker[w].step = "routing" /\ worker[w].sent = 0
        /\ u \in QrUpdates
        /\ processed' = processed \cup {u}
        /\ UNCHANGED telegram
        /\ WorkerGoes(w, "ok") \/ WorkerGoes(w, "sending")
    BY DEF Claim, TypeInv, WorkerTyped
  <1>2. processed' \subseteq FastUpdates \cup QrUpdates
    BY <1>1 DEF TypeInv, TypeOK
  <1>3. CASE WorkerGoes(w, "sending")
    BY <1>1, <1>2, <1>3, RepliesPositive, GoesOn
  <1>4. CASE WorkerGoes(w, "ok")
    BY <1>1, <1>2, <1>4, GoesOn
  <1> QED
    BY <1>1, <1>3, <1>4

LEMMA ReleaseTypes ==
    ASSUME TypeInv, NEW w \in Workers, Release(w)
    PROVE  EdgeTyped'
  <1>1. /\ worker[w].step = "releasing" /\ UNCHANGED telegram
        /\ WorkerGoes(w, "error")
        /\ processed' \subseteq FastUpdates \cup QrUpdates
    BY DEF Release, TypeInv, TypeOK
  <1> QED
    BY <1>1, GoesOn

LEMMA QueueTypes ==
    ASSUME TypeInv, NEW u \in RawUpdates, telegram[u].tries > 0, PutOnQueue(u)
    PROVE  queue' \subseteq Message
  <1>1. telegram[u].tries \in 1 .. MaxTries
    BY DeliveryAssumption
    DEF TypeInv, TypeOK, Updates, DeliveryAssumption
  <1>2. 1 \in 1 .. MaxAttempts
    BY DeliveryAssumption DEF DeliveryAssumption
  <1>3. [update |-> u, copy |-> telegram[u].tries, attempts |-> 1] \in Message
    BY <1>1, <1>2 DEF Message
  <1> QED
    BY <1>3 DEF PutOnQueue, TypeInv, TypeOK

LEMMA PublishTypes ==
    ASSUME TypeInv, NEW w \in Workers, Publish(w) \/ PublishFails(w)
    PROVE  EdgeTyped' /\ GasTyped'
  <1> DEFINE u == worker[w].update
  <1>1. /\ worker[w].step = "routing" /\ u \in RawUpdates
        /\ telegram[u].tries > 0
        /\ WorkerGoes(w, "ok") \/ WorkerGoes(w, "error")
        /\ PutOnQueue(u) \/ UNCHANGED queue
        /\ UNCHANGED <<telegram, processed, deadLetters, consumer, run,
                       claimed>>
    BY DEF Publish, PublishFails, TypeInv, WorkerTyped
  <1> HIDE DEF u
  <1>2. queue' \subseteq Message
    BY <1>1, QueueTypes DEF TypeInv, TypeOK
  <1>3. processed' \subseteq FastUpdates \cup QrUpdates
    BY <1>1 DEF TypeInv, TypeOK
  <1>4. EdgeTyped'
    BY <1>1, <1>3, GoesOn
  <1>5. GasTyped'
    <2>1. GasTyped
      BY TypesByPart
    <2> QED
      BY <1>1, <1>2, <2>1 DEF GasTyped, RunTyped, ConsumerTyped
  <1> QED
    BY <1>4, <1>5

(* Telegram's side of a delivery that ends.                                *)
LEMMA WaitEnds ==
    ASSUME TypeInv, NEW u \in Updates, NEW a \in BOOLEAN,
           telegram' = [telegram EXCEPT ![u].waits = None, ![u].acked = a]
    PROVE  /\ telegram' \in [Updates -> Delivery]
           /\ \A v \in Updates : telegram'[v].tries = telegram[v].tries
  <1>1. telegram \in [Updates -> Delivery]
    BY DEF TypeInv, TypeOK, Delivery
  <1> QED
    BY <1>1 DEF Delivery

LEMMA WaitStops ==
    ASSUME TypeInv, NEW u \in Updates,
           telegram' = [telegram EXCEPT ![u].waits = None]
    PROVE  /\ telegram' \in [Updates -> Delivery]
           /\ \A v \in Updates : telegram'[v].tries = telegram[v].tries
  <1>1. telegram \in [Updates -> Delivery]
    BY DEF TypeInv, TypeOK, Delivery
  <1> QED
    BY <1>1 DEF Delivery

LEMMA GivesUpTypes ==
    ASSUME TypeInv, NEW u \in Updates, TelegramGivesUp(u)
    PROVE  EdgeTyped'
  <1>1. telegram' = [telegram EXCEPT ![u].waits = None]
           /\ UNCHANGED <<worker, processed>>
    BY DEF TelegramGivesUp
  <1>2. /\ telegram' \in [Updates -> Delivery]
        /\ \A v \in Updates : telegram'[v].tries = telegram[v].tries
    BY <1>1, WaitStops
  <1>3. EdgeTyped
    BY TypesByPart
  <1> QED
    BY <1>1, <1>2, <1>3 DEF EdgeTyped, WorkerTyped

LEMMA AnswerTypes ==
    ASSUME TypeInv, NEW w \in Workers, Answer(w) \/ WorkerDies(w)
    PROVE  EdgeTyped'
  <1> DEFINE u == worker[w].update
             a == worker[w].step = "ok"
  <1>1. /\ u \in Updates
        /\ worker' = [worker EXCEPT ![w] = IdleWorker]
        /\ UNCHANGED processed
        /\ \/ UNCHANGED telegram
           \/ telegram' = [telegram EXCEPT ![u].waits = None]
           \/ telegram' = [telegram EXCEPT ![u].waits = None, ![u].acked = a]
    BY DEF Answer, WorkerDies, TypeInv, WorkerTyped
  <1> HIDE DEF u
  <1>2. a \in BOOLEAN
    OBVIOUS
  <1> HIDE DEF a
  <1>3. /\ telegram' \in [Updates -> Delivery]
        /\ \A v \in Updates : telegram'[v].tries = telegram[v].tries
    <2>1. CASE UNCHANGED telegram
      BY <2>1 DEF TypeInv, TypeOK, Delivery
    <2>2. CASE telegram' = [telegram EXCEPT ![u].waits = None]
      BY <1>1, <2>2, WaitStops
    <2>3. CASE telegram' = [telegram EXCEPT ![u].waits = None,
                                            ![u].acked = a]
      BY <1>1, <1>2, <2>3, WaitEnds
    <2> QED
      BY <1>1, <2>1, <2>2, <2>3
  <1> QED
    BY <1>1, <1>3, Stops

(* A script that goes on with its update.                                  *)
LEMMA RunGoesTypes ==
    ASSUME TypeInv, NEW g \in Runs,
           NEW step \in {"handling", "sending", "ok", "dead"},
           run[g].step # "idle", RunGoes(g, step),
           step \in {"handling", "sending"} => run[g].sent = 0,
           queue' = queue, deadLetters' = deadLetters, consumer' = consumer,
           claimed' \subseteq RawUpdates
    PROVE  GasTyped'
  <1>1. run \in [Runs -> Execution] /\ RunTyped(g) /\ ConsumerTyped
    BY DEF TypeInv, TypeOK, Execution
  <1>2. /\ run' \in [Runs -> Execution]
        /\ run'[g].step = step
        /\ run'[g].update = run[g].update
        /\ run'[g].sent = run[g].sent
        /\ \A h \in Runs \ {g} : run'[h] = run[h]
    BY <1>1 DEF RunGoes, Execution
  <1>3. RunTyped(g)'
    BY <1>1, <1>2, RepliesPositive DEF RunTyped
  <1>4. \A h \in Runs : RunTyped(h)'
    BY <1>2, <1>3, RunStep
  <1>5. ConsumerTyped'
    <2>1. consumer.run # None => consumer.run \in Runs
      BY DEF TypeInv, TypeOK
    <2> QED
      BY <1>1, <1>2, <2>1 DEF ConsumerTyped
  <1> QED
    BY <1>2, <1>4, <1>5 DEF GasTyped, TypeInv, TypeOK

(* A script whose answer has come, or that nobody waits for.               *)
LEMMA RunStops ==
    ASSUME TypeInv, NEW g \in Runs,
           run' = [run EXCEPT ![g] = IdleWorker]
    PROVE  run' \in [Runs -> Execution] /\ \A h \in Runs : RunTyped(h)'
  <1>1. run \in [Runs -> Execution]
    BY DEF TypeInv, TypeOK, Execution
  <1>2. /\ run' \in [Runs -> Execution]
        /\ run'[g] = IdleWorker
        /\ \A h \in Runs \ {g} : run'[h] = run[h]
    BY <1>1, IdleTypes
  <1>3. RunTyped(g)'
    BY <1>2 DEF RunTyped, IdleWorker
  <1> QED
    BY <1>2, <1>3, RunStep

LEMMA ForwardTypes ==
    ASSUME TypeInv, NEW m \in queue, NEW g \in Runs, Forward(m, g)
    PROVE  GasTyped'
  <1>1. /\ run \in [Runs -> Execution] /\ m \in Message
        /\ m.update \in RawUpdates
    BY DEF TypeInv, TypeOK, Execution, Message
  <1>2. /\ run' \in [Runs -> Execution]
        /\ run'[g].step = "waiting" /\ run'[g].update = m.update
        /\ run'[g].sent = run[g].sent
        /\ \A h \in Runs \ {g} : run'[h] = run[h]
    BY <1>1 DEF Forward, Execution
  <1>3. run'[g].sent = 0
    BY <1>2 DEF Forward, IdleWorker
  <1>4. RunTyped(g)'
    BY <1>1, <1>2, <1>3 DEF RunTyped
  <1>5. \A h \in Runs : RunTyped(h)'
    BY <1>2, <1>4, RunStep
  <1>6. /\ consumer' \in [message: Message \cup {None}, run: Runs \cup {None}]
        /\ ConsumerTyped'
    BY <1>1, <1>2 DEF Forward, ConsumerTyped
  <1> QED
    BY <1>2, <1>5, <1>6 DEF GasTyped, Forward, TypeInv, TypeOK

LEMMA RequeueTypes ==
    ASSUME TypeInv, NEW m \in Message, Requeue(m)
    PROVE  /\ queue' \subseteq Message /\ deadLetters' \subseteq Message
           /\ consumer' = IdleConsumer
  <1>1. queue \subseteq Message /\ deadLetters \subseteq Message
    BY DEF TypeInv, TypeOK
  <1>2. ASSUME m.attempts < MaxAttempts
        PROVE  [m EXCEPT !.attempts = @ + 1] \in Message
    BY <1>2, DeliveryAssumption DEF Message, DeliveryAssumption
  <1> QED
    BY <1>1, <1>2 DEF Requeue

LEMMA IdleConsumerTypes ==
    /\ IdleConsumer \in [message: Message \cup {None}, run: Runs \cup {None}]
    /\ IdleConsumer.run = None
  BY DEF IdleConsumer

LEMMA ConsumerTypes ==
    ASSUME TypeInv, Acknowledge \/ Retry \/ ForwardTimesOut
    PROVE  GasTyped'
  <1>1. /\ consumer.run # None /\ consumer.run \in Runs
        /\ consumer.message \in Message
    BY DEF Acknowledge, Retry, ForwardTimesOut, TypeInv, TypeOK, ConsumerTyped
  <1>2. /\ queue' \subseteq Message /\ deadLetters' \subseteq Message
        /\ consumer' = IdleConsumer
    <2>1. CASE Acknowledge
      BY <2>1 DEF Acknowledge, TypeInv, TypeOK
    <2>2. CASE Retry \/ ForwardTimesOut
      BY <1>1, <2>2, RequeueTypes DEF Retry, ForwardTimesOut
    <2> QED
      BY <2>1, <2>2
  <1>3. run' \in [Runs -> Execution] /\ \A h \in Runs : RunTyped(h)'
    <2>1. CASE UNCHANGED run
      BY <2>1 DEF TypeInv, TypeOK, Execution, RunTyped
    <2>2. CASE run' = [run EXCEPT ![consumer.run] = IdleWorker]
      <3>1. PICK g \in Runs : g = consumer.run
        BY <1>1
      <3> QED
        BY <2>2, <3>1, RunStops
    <2> QED
      BY <2>1, <2>2 DEF Acknowledge, Retry, ForwardTimesOut
  <1>4. claimed' \subseteq RawUpdates
    BY DEF Acknowledge, Retry, ForwardTimesOut, TypeInv, TypeOK
  <1>5. ConsumerTyped'
    BY <1>2, IdleConsumerTypes DEF ConsumerTyped
  <1> QED
    BY <1>2, <1>3, <1>4, <1>5, IdleConsumerTypes DEF GasTyped

LEMMA GasClaimsTypes ==
    ASSUME TypeInv, NEW g \in Runs, GasClaims(g)
    PROVE  GasTyped'
  <1>1. /\ run[g].step = "waiting" /\ run[g].sent = 0
        /\ run[g].update \in RawUpdates
    BY DEF GasClaims, TypeInv, RunTyped
  <1>2. claimed' \subseteq RawUpdates
    BY <1>1 DEF GasClaims, TypeInv, TypeOK
  <1>3. CASE RunGoes(g, "handling")
    BY <1>1, <1>2, <1>3, RunGoesTypes DEF GasClaims
  <1>4. CASE RunGoes(g, "ok")
    BY <1>1, <1>2, <1>4, RunGoesTypes DEF GasClaims
  <1> QED
    BY <1>3, <1>4 DEF GasClaims

LEMMA GasHandlesTypes ==
    ASSUME TypeInv, NEW g \in Runs, GasHandles(g)
    PROVE  GasTyped' /\ ChatTyped'
  <1>1. /\ run[g].step = "handling" /\ run[g].sent = 0
        /\ run[g].update \in RawUpdates /\ run[g].update \in Updates
    BY DEF GasHandles, TypeInv, RunTyped, Updates
  <1>2. GasTyped'
    <2>1. /\ RunGoes(g, "sending")
          /\ UNCHANGED <<queue, deadLetters, consumer, claimed>>
          /\ claimed' \subseteq RawUpdates
      BY DEF GasHandles, TypeInv, TypeOK
    <2> QED
      BY <1>1, <2>1, RunGoesTypes
  <1>3. performed' \in [Updates -> Nat]
    BY <1>1, CountTypes DEF GasHandles, TypeInv, TypeOK
  <1> QED
    BY <1>2, <1>3 DEF ChatTyped, GasHandles, TypeInv, TypeOK

LEMMA GasEndsTypes ==
    ASSUME TypeInv, NEW g \in Runs, GasFails(g) \/ GasDies(g)
    PROVE  GasTyped'
  <1>1. /\ RunGoes(g, "ok") \/ RunGoes(g, "dead")
        /\ run[g].step # "idle"
        /\ UNCHANGED <<queue, deadLetters, consumer, claimed>>
        /\ claimed' \subseteq RawUpdates
    BY DEF GasFails, GasDies, TypeInv, TypeOK
  <1> QED
    BY <1>1, RunGoesTypes

LEMMA ForgetTypes ==
    ASSUME TypeInv, NEW g \in Runs, Forget(g)
    PROVE  GasTyped'
  <1>1. run' = [run EXCEPT ![g] = IdleWorker] /\ consumer.run # g
           /\ UNCHANGED <<queue, deadLetters, consumer, claimed>>
    BY DEF Forget
  <1>2. run' \in [Runs -> Execution] /\ \A h \in Runs : RunTyped(h)'
    BY <1>1, RunStops
  <1>3. ConsumerTyped'
    <2>1. ConsumerTyped /\ (consumer.run # None => consumer.run \in Runs)
             /\ run \in [Runs -> Execution]
      BY DEF TypeInv, TypeOK, Execution
    <2> QED
      BY <1>1, <2>1 DEF ConsumerTyped
  <1> QED
    BY <1>1, <1>2, <1>3 DEF GasTyped, TypeInv, TypeOK

LEMMA RunGoesFurther ==
    ASSUME run \in [Runs -> Execution], NEW g \in Runs,
           NEW step \in {"sending", "ok"}, NEW i \in 0 .. Replies,
           run' = [run EXCEPT ![g].step = step, ![g].sent = i]
    PROVE  /\ run' \in [Runs -> Execution]
           /\ run'[g].step = step
           /\ run'[g].update = run[g].update
           /\ run'[g].sent = i
           /\ \A h \in Runs \ {g} : run'[h] = run[h]
  BY DEF Execution

LEMMA GasSendsTypes ==
    ASSUME TypeInv, NEW g \in Runs, GasSends(g)
    PROVE  GasTyped' /\ ChatTyped'
  <1> DEFINE u == run[g].update
             i == run[g].sent + 1
             next == IF i = Replies THEN "ok" ELSE "sending"
  <1>1. run \in [Runs -> Execution] /\ RunTyped(g) /\ ConsumerTyped
           /\ received \in [Updates -> [1 .. Replies -> Nat]]
    BY DEF TypeInv, TypeOK, Execution
  <1>2. run[g].step = "sending" /\ u \in RawUpdates
           /\ run[g].sent \in 0 .. Replies /\ run[g].sent < Replies
    BY <1>1 DEF GasSends, RunTyped, Execution
  <1>3. i \in 1 .. Replies
    BY <1>2, RepliesPositive
  <1>4. /\ run' \in [Runs -> Execution]
        /\ run'[g].step = next
        /\ run'[g].update = u
        /\ run'[g].sent = i
        /\ \A h \in Runs \ {g} : run'[h] = run[h]
    <2>1. run' = [run EXCEPT ![g].step = next, ![g].sent = i]
      BY DEF GasSends
    <2>2. next \in {"sending", "ok"} /\ i \in 0 .. Replies
      BY <1>3
    <2> HIDE DEF next, i
    <2> QED
      BY <1>1, <2>1, <2>2, RunGoesFurther
  <1>5. RunTyped(g)'
    <2>1. next = "sending" => i < Replies
      BY <1>3, RepliesPositive
    <2>2. next \in {"sending", "ok"}
      OBVIOUS
    <2> HIDE DEF next, i
    <2> QED
      BY <1>2, <1>4, <2>1, <2>2 DEF RunTyped
  <1>6. \A h \in Runs : RunTyped(h)'
    BY <1>4, <1>5, RunStep
  <1>7. ConsumerTyped'
    <2>1. consumer.run # None => consumer.run \in Runs
      BY DEF TypeInv, TypeOK
    <2>2. next # "idle" /\ consumer' = consumer
      BY DEF GasSends
    <2> HIDE DEF next, i
    <2> QED
      BY <1>1, <1>4, <2>1, <2>2 DEF ConsumerTyped
  <1>8. GasTyped'
    BY <1>4, <1>6, <1>7 DEF GasTyped, GasSends, TypeInv, TypeOK
  <1>9. ChatTyped'
    <2>1. received' \in [Updates -> [1 .. Replies -> Nat]]
      BY <1>1, <1>2, <1>3, ReceivedTypes DEF GasSends, Updates
    <2> QED
      BY <2>1 DEF ChatTyped, GasSends, TypeInv, TypeOK
  <1> QED
    BY <1>8, <1>9

LEMMA NextKeepsTypes == TypeInv /\ [Next]_vars => TypeInv'
  <1> SUFFICES ASSUME TypeInv, [Next]_vars PROVE TypeInv'
    OBVIOUS
  <1> USE TypesByPart, NextTypesByPart
  <1>1. ASSUME NEW u \in Updates, TelegramGivesUp(u)
        PROVE  TypeInv'
    <2>1. HistoryTyped'
      BY <1>1, FaultTypes, AbandonTypes
      DEF TelegramGivesUp, TypeInv, HistoryTyped
    <2> QED
      BY <1>1, <2>1, GivesUpTypes, GasUntouched, ChatUntouched
      DEF TelegramGivesUp
  <1>2. ASSUME NEW u \in Updates, NEW w \in Workers, Deliver(u, w)
        PROVE  TypeInv'
    BY <1>2, DeliverTypes, GasUntouched, ChatUntouched
    DEF Deliver, HistoryTyped
  <1>3. ASSUME NEW w \in Workers, Process(w)
        PROVE  TypeInv'
    BY <1>3, ProcessTypes, GasUntouched DEF Process, HistoryTyped
  <1>4. ASSUME NEW w \in Workers, ProcessFails(w)
        PROVE  TypeInv'
    <2>1. HistoryTyped'
      BY <1>4, FaultTypes DEF ProcessFails, TypeInv, HistoryTyped
    <2> QED
      BY <1>4, <2>1, ProcessTypes, GasUntouched DEF ProcessFails
  <1>5. ASSUME NEW w \in Workers, Claim(w)
        PROVE  TypeInv'
    BY <1>5, ClaimTypes, GasUntouched, ChatUntouched DEF Claim, HistoryTyped
  <1>6. ASSUME NEW w \in Workers, Publish(w)
        PROVE  TypeInv'
    BY <1>6, PublishTypes, ChatUntouched DEF Publish, HistoryTyped
  <1>7. ASSUME NEW w \in Workers, PublishFails(w)
        PROVE  TypeInv'
    <2>1. HistoryTyped'
      BY <1>7, FaultTypes DEF PublishFails, TypeInv, HistoryTyped
    <2> QED
      BY <1>7, <2>1, PublishTypes, ChatUntouched DEF PublishFails
  <1>8. ASSUME NEW w \in Workers, Send(w)
        PROVE  TypeInv'
    BY <1>8, SendTypes, GasUntouched DEF Send, HistoryTyped
  <1>9. ASSUME NEW w \in Workers, SendFails(w)
        PROVE  TypeInv'
    <2>1. HistoryTyped'
      BY <1>9, FaultTypes DEF SendFails, TypeInv, HistoryTyped
    <2> QED
      BY <1>9, <2>1, SendFailsTypes, GasUntouched DEF SendFails
  <1>10. ASSUME NEW w \in Workers, Release(w)
         PROVE  TypeInv'
    BY <1>10, ReleaseTypes, GasUntouched, ChatUntouched
    DEF Release, HistoryTyped
  <1>11. ASSUME NEW w \in Workers, Answer(w)
         PROVE  TypeInv'
    BY <1>11, AnswerTypes, GasUntouched, ChatUntouched
    DEF Answer, HistoryTyped
  <1>12. ASSUME NEW w \in Workers, WorkerDies(w)
         PROVE  TypeInv'
    <2>1. worker[w].update \in Updates
      BY <1>12 DEF WorkerDies, TypeInv, WorkerTyped
    <2>2. HistoryTyped'
      BY <1>12, <2>1, FaultTypes, AbandonTypes
      DEF WorkerDies, TypeInv, HistoryTyped
    <2> QED
      BY <1>12, <2>2, AnswerTypes, GasUntouched, ChatUntouched
      DEF WorkerDies
  <1>13. ASSUME NEW m \in queue, NEW g \in Runs, Forward(m, g)
         PROVE  TypeInv'
    BY <1>13, ForwardTypes, EdgeUntouched, ChatUntouched
    DEF Forward, HistoryTyped
  <1>14. CASE Acknowledge \/ Retry
    BY <1>14, ConsumerTypes, EdgeUntouched, ChatUntouched
    DEF Acknowledge, Retry, HistoryTyped
  <1>15. CASE ForwardTimesOut
    <2>1. HistoryTyped'
      BY <1>15, FaultTypes DEF ForwardTimesOut, TypeInv, HistoryTyped
    <2> QED
      BY <1>15, <2>1, ConsumerTypes, EdgeUntouched, ChatUntouched
      DEF ForwardTimesOut
  <1>16. ASSUME NEW g \in Runs, Execute(g)
         PROVE  TypeInv'
    <2>1. CASE GasClaims(g)
      BY <2>1, GasClaimsTypes, EdgeUntouched, ChatUntouched
      DEF GasClaims, HistoryTyped
    <2>2. CASE GasHandles(g)
      BY <2>2, GasHandlesTypes, EdgeUntouched DEF GasHandles, HistoryTyped
    <2>3. CASE GasSends(g)
      BY <2>3, GasSendsTypes, EdgeUntouched DEF GasSends, HistoryTyped
    <2>4. CASE Forget(g)
      BY <2>4, ForgetTypes, EdgeUntouched, ChatUntouched
      DEF Forget, HistoryTyped
    <2> QED
      BY <1>16, <2>1, <2>2, <2>3, <2>4 DEF Execute
  <1>17. ASSUME NEW g \in Runs, GasFails(g) \/ GasDies(g)
         PROVE  TypeInv'
    <2>1. run[g].update \in Updates
      BY <1>17 DEF GasFails, GasDies, TypeInv, RunTyped, Updates
    <2>2. HistoryTyped'
      BY <1>17, <2>1, FaultTypes, AbandonTypes
      DEF GasFails, GasDies, TypeInv, HistoryTyped
    <2> QED
      BY <1>17, <2>2, GasEndsTypes, EdgeUntouched, ChatUntouched
      DEF GasFails, GasDies
  <1>18. CASE UNCHANGED vars
    BY <1>18, EdgeUntouched, ChatUntouched, GasUntouched
    DEF vars, HistoryTyped
  <1> QED
    BY <1>1, <1>2, <1>3, <1>4, <1>5, <1>6, <1>7, <1>8, <1>9, <1>10, <1>11,
       <1>12, <1>13, <1>14, <1>15, <1>16, <1>17, <1>18
    DEF Next, Work, WorkFails

(* Whatever happens, the state stays within its types.                     *)
THEOREM TypesHold == Spec => []TypeInv
  BY InitTypes, NextKeepsTypes, PTL DEF Spec

-----------------------------------------------------------------------------
(* What the steps do to the replies of one update.                         *)

LEMMA OneMoreReply ==
    ASSUME received \in [Updates -> [1 .. Replies -> Nat]],
           NEW u \in Updates, NEW i \in 1 .. Replies,
           received' = [received EXCEPT ![u][i] = @ + 1]
    PROVE  /\ \A v \in Updates \ {u} : received'[v] = received[v]
           /\ received'[u][i] = received[u][i] + 1
           /\ \A j \in 1 .. Replies \ {i} : received'[u][j] = received[u][j]
  <1>1. received[u] \in [1 .. Replies -> Nat]
    OBVIOUS
  <1>2. /\ received'[u] = [received[u] EXCEPT ![i] = received[u][i] + 1]
        /\ \A v \in Updates \ {u} : received'[v] = received[v]
    OBVIOUS
  <1> QED
    BY <1>1, <1>2

LEMMA ReplyTypes ==
    ASSUME TypeInv, NEW u \in Updates, NEW i \in 1 .. Replies
    PROVE  received[u][i] \in Nat /\ performed[u] \in Nat /\ failed[u] \in Nat
  <1>1. received[u] \in [1 .. Replies -> Nat]
    BY DEF TypeInv, TypeOK
  <1> QED
    BY <1>1 DEF TypeInv, TypeOK

LEMMA Kinds ==
    /\ FastUpdates \subseteq Updates /\ QrUpdates \subseteq Updates
    /\ RawUpdates \subseteq Updates
    /\ \A u \in RawUpdates : u \notin FastUpdates /\ u \notin QrUpdates
    /\ \A u \in QrUpdates : u \notin FastUpdates
  BY DeliveryAssumption DEF Updates, DeliveryAssumption

(* A Worker changes nothing of an update for Apps Script.                  *)
LEMMA WorkersElsewhere ==
    ASSUME TypeInv, NEW w \in Workers, Work(w) \/ WorkFails(w),
           NEW u \in RawUpdates
    PROVE  /\ UNCHANGED <<run, claimed>>
           /\ performed'[u] = performed[u] /\ received'[u] = received[u]
  <1>1. UNCHANGED <<run, claimed>>
    BY DEF Work, WorkFails, Process, Claim, Publish, Send, Release, Answer,
           ProcessFails, SendFails, PublishFails, WorkerDies, gasVars
  <1>2. /\ performed \in [Updates -> Nat] /\ u \in Updates
        /\ received \in [Updates -> [1 .. Replies -> Nat]]
    BY Kinds DEF TypeInv, TypeOK
  <1>3. performed'[u] = performed[u]
    <2>1. CASE Process(w) \/ ProcessFails(w)
      <3>1. PICK v \in FastUpdates : v = worker[w].update
        BY <2>1 DEF Process, ProcessFails
      <3>2. \/ UNCHANGED performed
            \/ performed' = [performed EXCEPT ![v] = @ + 1]
        BY <2>1, <3>1 DEF Process, ProcessFails
      <3> QED
        BY <1>2, <3>2, Kinds
    <2>2. CASE UNCHANGED performed
      BY <2>2
    <2> QED
      BY <2>1, <2>2
      DEF Work, WorkFails, Claim, Publish, Send, Release, Answer, SendFails,
          PublishFails, WorkerDies, chatVars
  <1>4. received'[u] = received[u]
    <2>1. CASE Send(w) \/ SendFails(w)
      <3>1. PICK v \in FastUpdates \cup QrUpdates, i \in 1 .. Replies :
                v = worker[w].update /\ i = worker[w].sent + 1
        <4>1. /\ worker[w].update \in FastUpdates \cup QrUpdates
              /\ worker[w].sent \in 0 .. Replies /\ worker[w].sent < Replies
          BY <2>1 DEF Send, SendFails, TypeInv, TypeOK, WorkerTyped
        <4>2. worker[w].sent + 1 \in 1 .. Replies
          BY <4>1, RepliesPositive
        <4> QED
          BY <4>1, <4>2
      <3>2. \/ UNCHANGED received
            \/ received' = [received EXCEPT ![v][i] = @ + 1]
        BY <2>1, <3>1 DEF Send, SendFails
      <3>3. v \in Updates /\ v # u
        BY <3>1, Kinds
      <3> QED
        BY <1>2, <3>1, <3>2, <3>3, OneMoreReply
    <2>2. CASE UNCHANGED received
      BY <2>2
    <2> QED
      BY <2>1, <2>2
      DEF Work, WorkFails, Process, Claim, Publish, Release, Answer,
          ProcessFails, PublishFails, WorkerDies, chatVars
  <1> QED
    BY <1>1, <1>3, <1>4

(* A step of the queue's consumer, or of a script.                         *)
ScriptStep ==
    \/ \E m \in queue, g \in Runs : Forward(m, g)
    \/ Acknowledge \/ Retry \/ ForwardTimesOut
    \/ \E g \in Runs : Execute(g) \/ GasFails(g) \/ GasDies(g)

(* It changes nothing of another update.                                   *)
LEMMA ScriptsElsewhere ==
    ASSUME TypeInv, ScriptStep, NEW u \in FastUpdates \cup QrUpdates
    PROVE  /\ UNCHANGED <<telegram, worker, processed, failed>>
           /\ performed'[u] = performed[u] /\ received'[u] = received[u]
  <1>1. UNCHANGED <<telegram, worker, processed, failed>>
    BY DEF ScriptStep, Execute, Forward, Acknowledge, Retry, ForwardTimesOut,
           GasClaims, GasHandles, GasSends, Forget, GasFails, GasDies,
           edgeVars, chatVars
  <1>2. /\ performed \in [Updates -> Nat] /\ u \in Updates
        /\ u \notin RawUpdates
        /\ received \in [Updates -> [1 .. Replies -> Nat]]
    BY Kinds DEF TypeInv, TypeOK
  <1>3. CASE UNCHANGED <<performed, received>>
    BY <1>1, <1>3
  <1>4. ASSUME NEW g \in Runs, GasHandles(g)
        PROVE  performed'[u] = performed[u] /\ UNCHANGED received
    <2>1. PICK v \in RawUpdates : v = run[g].update
      BY <1>4 DEF GasHandles, TypeInv, RunTyped
    <2>2. performed' = [performed EXCEPT ![v] = @ + 1] /\ UNCHANGED received
      BY <1>4, <2>1 DEF GasHandles
    <2> QED
      BY <1>2, <2>1, <2>2
  <1>5. ASSUME NEW g \in Runs, GasSends(g)
        PROVE  received'[u] = received[u] /\ UNCHANGED performed
    <2>1. PICK v \in RawUpdates, i \in 1 .. Replies :
              v = run[g].update /\ i = run[g].sent + 1
      <3>1. /\ run[g].update \in RawUpdates
            /\ run[g].sent \in 0 .. Replies /\ run[g].sent < Replies
        BY <1>5 DEF GasSends, TypeInv, TypeOK, RunTyped
      <3>2. run[g].sent + 1 \in 1 .. Replies
        BY <3>1, RepliesPositive
      <3> QED
        BY <3>1, <3>2
    <2>2. received' = [received EXCEPT ![v][i] = @ + 1]
             /\ UNCHANGED performed
      BY <1>5, <2>1 DEF GasSends
    <2>3. v \in Updates /\ v # u
      BY <1>2, <2>1, Kinds
    <2> QED
      BY <1>2, <2>1, <2>2, <2>3, OneMoreReply
  <1> QED
    BY <1>1, <1>3, <1>4, <1>5
    DEF ScriptStep, Execute, Forward, Acknowledge, Retry, ForwardTimesOut,
        GasClaims, Forget, GasFails, GasDies, chatVars

-----------------------------------------------------------------------------
(* An update is handled once.  On Apps Script the claim carries it: what   *)
(* is not claimed has had no effect, and one script at most works under    *)
(* the claim of an update.                                                 *)

HasClaim(g, u) ==
    run[g].update = u /\ run[g].step \in {"handling", "sending"}

GasInv(u) ==
    /\ u \notin claimed =>
           /\ performed[u] = 0
           /\ \A i \in 1 .. Replies : received[u][i] = 0
           /\ \A g \in Runs : ~HasClaim(g, u)
    /\ \A g, h \in Runs : HasClaim(g, u) /\ HasClaim(h, u) => g = h
    /\ \A g \in Runs : HasClaim(g, u) =>
           /\ run[g].step = "handling" => performed[u] = 0
           /\ \A i \in 1 .. Replies : i > run[g].sent => received[u][i] = 0
    /\ performed[u] <= 1
    /\ \A i \in 1 .. Replies : received[u][i] <= 1

(* A step that neither claims the update nor works on it.                  *)
LEMMA GasQuiet ==
    ASSUME NEW u \in RawUpdates, GasInv(u),
           \A g \in Runs : HasClaim(g, u)' => run'[g] = run[g],
           claimed \subseteq claimed',
           performed'[u] = performed[u], received'[u] = received[u]
    PROVE  GasInv(u)'
  <1>1. \A g \in Runs : HasClaim(g, u)' => HasClaim(g, u) /\ run'[g] = run[g]
    BY DEF HasClaim
  <1> QED
    BY <1>1 DEF GasInv

LEMMA GasClaimsKeeps ==
    ASSUME TypeInv, NEW u \in RawUpdates, GasInv(u),
           NEW g \in Runs, GasClaims(g)
    PROVE  GasInv(u)'
  <1>1. /\ run \in [Runs -> Execution]
        /\ run[g].step = "waiting" /\ run[g].sent = 0
        /\ UNCHANGED <<performed, received>>
        /\ claimed' = claimed \cup {run[g].update}
        /\ \A h \in Runs \ {g} : run'[h] = run[h]
        /\ run'[g].update = run[g].update /\ run'[g].sent = run[g].sent
    BY DEF GasClaims, RunGoes, chatVars, TypeInv, TypeOK, RunTyped, Execution
  <1>2. CASE run[g].update = u /\ u \notin claimed
    <2>1. run'[g].step = "handling" /\ HasClaim(g, u)'
      BY <1>1, <1>2 DEF GasClaims, RunGoes, HasClaim, Execution
    <2>2. \A h \in Runs \ {g} : ~HasClaim(h, u)'
      BY <1>1, <1>2 DEF GasInv, HasClaim
    <2> QED
      BY <1>1, <1>2, <2>1, <2>2 DEF GasInv
  <1>3. CASE run[g].update = u /\ u \in claimed
    <2>1. run'[g].step = "ok" /\ ~HasClaim(g, u)'
      BY <1>1, <1>3 DEF GasClaims, RunGoes, HasClaim, Execution
    <2> QED
      BY <1>1, <2>1, GasQuiet
  <1>4. CASE run[g].update # u
    <2>1. ~HasClaim(g, u)'
      BY <1>1, <1>4 DEF HasClaim
    <2> QED
      BY <1>1, <2>1, GasQuiet
  <1> QED
    BY <1>2, <1>3, <1>4

LEMMA GasHandlesKeeps ==
    ASSUME TypeInv, NEW u \in RawUpdates, GasInv(u),
           NEW g \in Runs, GasHandles(g)
    PROVE  GasInv(u)'
  <1>1. PICK v \in RawUpdates : v = run[g].update
    BY DEF GasHandles, TypeInv, RunTyped
  <1>2. /\ run[g].step = "handling" /\ HasClaim(g, v)
        /\ UNCHANGED <<received, claimed>>
        /\ performed' = [performed EXCEPT ![v] = @ + 1]
        /\ \A h \in Runs \ {g} : run'[h] = run[h]
        /\ run'[g].step = "sending"
        /\ run'[g].update = v /\ run'[g].sent = run[g].sent
    BY <1>1
    DEF GasHandles, RunGoes, HasClaim, TypeInv, TypeOK
  <1>3. performed \in [Updates -> Nat] /\ u \in Updates /\ v \in Updates
    BY Kinds DEF TypeInv, TypeOK
  <1>4. CASE u = v
    <2>1. performed[u] = 0 /\ u \in claimed
      BY <1>2, <1>4 DEF GasInv
    <2>2. performed'[u] = 1
      BY <1>2, <1>3, <1>4, <2>1
    <2>3. \A h \in Runs : HasClaim(h, u)' => h = g
      BY <1>2, <1>4 DEF GasInv, HasClaim
    <2> QED
      BY <1>2, <1>4, <2>1, <2>2, <2>3 DEF GasInv
  <1>5. CASE u # v
    <2>1. performed'[u] = performed[u] /\ ~HasClaim(g, u)'
      BY <1>2, <1>3, <1>5 DEF HasClaim
    <2> QED
      BY <1>2, <2>1, GasQuiet
  <1> QED
    BY <1>4, <1>5

LEMMA GasSendsKeeps ==
    ASSUME TypeInv, NEW u \in RawUpdates, GasInv(u),
           NEW g \in Runs, GasSends(g)
    PROVE  GasInv(u)'
  <1>1. PICK v \in RawUpdates, i \in 1 .. Replies :
            v = run[g].update /\ i = run[g].sent + 1
    <2>1. /\ run[g].update \in RawUpdates
          /\ run[g].sent \in 0 .. Replies /\ run[g].sent < Replies
      BY DEF GasSends, TypeInv, TypeOK, RunTyped
    <2>2. run[g].sent + 1 \in 1 .. Replies
      BY <2>1, RepliesPositive
    <2> QED
      BY <2>1, <2>2
  <1>2. /\ run[g].step = "sending" /\ HasClaim(g, v)
        /\ UNCHANGED <<performed, claimed>>
        /\ received' = [received EXCEPT ![v][i] = @ + 1]
        /\ run[g].sent \in Nat
    BY <1>1 DEF GasSends, HasClaim, TypeInv, TypeOK
  <1>3. /\ \A h \in Runs \ {g} : run'[h] = run[h]
        /\ run'[g].step \in {"sending", "ok"}
        /\ run'[g].update = v /\ run'[g].sent = i
    <2> DEFINE next == IF i = Replies THEN "ok" ELSE "sending"
    <2>1. run' = [run EXCEPT ![g].step = next, ![g].sent = i]
      BY <1>1 DEF GasSends
    <2>2. next \in {"sending", "ok"} /\ i \in 0 .. Replies
             /\ run \in [Runs -> Execution]
      BY <1>1 DEF TypeInv, TypeOK, Execution
    <2> HIDE DEF next
    <2> QED
      BY <1>1, <2>1, <2>2, RunGoesFurther
  <1>4. received \in [Updates -> [1 .. Replies -> Nat]]
           /\ u \in Updates /\ v \in Updates
    BY Kinds DEF TypeInv, TypeOK
  <1>5. /\ \A x \in Updates \ {v} : received'[x] = received[x]
        /\ received'[v][i] = received[v][i] + 1
        /\ \A j \in 1 .. Replies \ {i} : received'[v][j] = received[v][j]
    BY <1>2, <1>4, OneMoreReply
  <1>6. CASE u = v
    <2>1. received[u][i] = 0 /\ u \in claimed
      BY <1>1, <1>2, <1>6 DEF GasInv
    <2>2. \A h \in Runs : HasClaim(h, u)' => h = g
      BY <1>2, <1>3, <1>6 DEF GasInv, HasClaim
    <2>3. \A j \in 1 .. Replies : received'[u][j] <= 1
      BY <1>5, <1>6, <2>1 DEF GasInv
    <2>4. \A j \in 1 .. Replies : j > i => received'[u][j] = 0
      BY <1>1, <1>2, <1>5, <1>6 DEF GasInv
    <2>5. HasClaim(g, u)' => run'[g].step # "handling"
      BY <1>3
    <2> QED
      BY <1>2, <1>3, <2>1, <2>2, <2>3, <2>4, <2>5 DEF GasInv
  <1>7. CASE u # v
    <2>1. received'[u] = received[u] /\ ~HasClaim(g, u)'
      BY <1>3, <1>4, <1>5, <1>7 DEF HasClaim
    <2> QED
      BY <1>2, <1>3, <2>1, GasQuiet
  <1> QED
    BY <1>6, <1>7

LEMMA NextKeepsGas ==
    ASSUME TypeInv, NEW u \in RawUpdates, GasInv(u), [Next]_vars
    PROVE  GasInv(u)'
  <1>1. CASE \/ \E v \in Updates : TelegramGivesUp(v)
                    \/ \E w \in Workers : Deliver(v, w)
             \/ UNCHANGED vars
    <2>1. UNCHANGED <<run, claimed, performed, received>>
      BY <1>1 DEF TelegramGivesUp, Deliver, vars, chatVars, gasVars
    <2> QED
      BY <2>1, GasQuiet
  <1>2. ASSUME NEW w \in Workers, Work(w) \/ WorkFails(w)
        PROVE  GasInv(u)'
    BY <1>2, WorkersElsewhere, GasQuiet
  <1>3. ASSUME NEW m \in queue, NEW g \in Runs, Forward(m, g)
        PROVE  GasInv(u)'
    <2>1. /\ \A h \in Runs \ {g} : run'[h] = run[h]
          /\ run'[g].step = "waiting"
          /\ UNCHANGED <<claimed, performed, received>>
      BY <1>3 DEF Forward, chatVars, TypeInv, TypeOK
    <2> QED
      BY <2>1, GasQuiet DEF HasClaim
  <1>4. CASE Acknowledge \/ Retry \/ ForwardTimesOut
    <2>1. UNCHANGED <<claimed, performed, received>>
      BY <1>4 DEF Acknowledge, Retry, ForwardTimesOut, chatVars
    <2>2. PICK g \in Runs : g = consumer.run
      BY <1>4 DEF Acknowledge, Retry, ForwardTimesOut, TypeInv, TypeOK
    <2>3. UNCHANGED run \/ run' = [run EXCEPT ![g] = IdleWorker]
      BY <1>4, <2>2 DEF Acknowledge, Retry, ForwardTimesOut
    <2>4. \A h \in Runs : HasClaim(h, u)' => run'[h] = run[h]
      BY <2>3 DEF HasClaim, IdleWorker, TypeInv, TypeOK
    <2> QED
      BY <2>1, <2>4, GasQuiet
  <1>5. ASSUME NEW g \in Runs, Forget(g) \/ GasFails(g) \/ GasDies(g)
        PROVE  GasInv(u)'
    <2>1. UNCHANGED <<claimed, performed, received>>
      BY <1>5 DEF Forget, GasFails, GasDies, chatVars
    <2>2. \A h \in Runs : HasClaim(h, u)' => run'[h] = run[h]
      BY <1>5
      DEF Forget, GasFails, GasDies, RunGoes, HasClaim, IdleWorker, TypeInv,
          TypeOK
    <2> QED
      BY <2>1, <2>2, GasQuiet
  <1> QED
    BY <1>1, <1>2, <1>3, <1>4, <1>5, GasClaimsKeeps, GasHandlesKeeps,
       GasSendsKeeps
    DEF Next, Execute

(* In the object the record of the update carries it.                      *)
EdgeInv(u) == performed[u] = IF u \in FastUpdates \cap processed THEN 1 ELSE 0

LEMMA ProcessKeepsEdge ==
    ASSUME TypeInv, NEW u \in FastUpdates \cup QrUpdates, EdgeInv(u),
           NEW w \in Workers, Process(w) \/ ProcessFails(w)
    PROVE  EdgeInv(u)'
  <1>1. PICK v \in FastUpdates : v = worker[w].update
    BY DEF Process, ProcessFails
  <1>2. \/ UNCHANGED <<processed, performed>>
        \/ /\ v \notin processed
           /\ processed' = processed \cup {v}
           /\ performed' = [performed EXCEPT ![v] = @ + 1]
    BY <1>1 DEF Process, ProcessFails
  <1>3. performed \in [Updates -> Nat] /\ u \in Updates /\ v \in Updates
    BY Kinds DEF TypeInv, TypeOK
  <1> QED
    BY <1>1, <1>2, <1>3 DEF EdgeInv

LEMMA NextKeepsEdge ==
    ASSUME TypeInv, NEW u \in FastUpdates \cup QrUpdates, EdgeInv(u),
           [Next]_vars
    PROVE  EdgeInv(u)'
  <1>1. CASE UNCHANGED <<processed, performed>>
    BY <1>1 DEF EdgeInv
  <1>2. ASSUME NEW w \in Workers, Claim(w) \/ Release(w)
        PROVE  EdgeInv(u)'
    <2>1. PICK v \in QrUpdates : v = worker[w].update
      BY <1>2 DEF Claim, Release, TypeInv, WorkerTyped
    <2>2. /\ processed' = processed \cup {v} \/ processed' = processed \ {v}
          /\ UNCHANGED performed
      BY <1>2, <2>1 DEF Claim, Release, chatVars
    <2> QED
      BY <2>1, <2>2, Kinds DEF EdgeInv
  <1>3. CASE ScriptStep
    BY <1>3, ScriptsElsewhere DEF EdgeInv
  <1>4. ASSUME NEW w \in Workers, Work(w) \/ WorkFails(w)
        PROVE  EdgeInv(u)'
    BY <1>1, <1>2, <1>4, ProcessKeepsEdge
    DEF Work, WorkFails, Publish, Send, Answer, SendFails, PublishFails,
        WorkerDies, chatVars
  <1>5. ASSUME NEW v \in Updates,
               TelegramGivesUp(v) \/ \E w \in Workers : Deliver(v, w)
        PROVE  EdgeInv(u)'
    BY <1>1, <1>5 DEF TelegramGivesUp, Deliver, chatVars
  <1>6. CASE UNCHANGED vars
    BY <1>1, <1>6 DEF vars, edgeVars, chatVars
  <1> QED
    BY <1>3, <1>4, <1>5, <1>6 DEF Next, ScriptStep

OnceInv ==
    /\ TypeInv
    /\ \A u \in RawUpdates : GasInv(u)
    /\ \A u \in FastUpdates \cup QrUpdates : EdgeInv(u)

LEMMA InitOnce == Init => OnceInv
  <1> SUFFICES ASSUME Init PROVE OnceInv
    OBVIOUS
  <1>1. ASSUME NEW u \in RawUpdates
        PROVE  GasInv(u)
    BY Kinds DEF Init, GasInv, HasClaim, IdleWorker
  <1>2. ASSUME NEW u \in FastUpdates \cup QrUpdates
        PROVE  EdgeInv(u)
    BY Kinds DEF Init, EdgeInv
  <1> QED
    BY <1>1, <1>2, InitTypes DEF OnceInv

LEMMA NextKeepsOnce == OnceInv /\ [Next]_vars => OnceInv'
  BY NextKeepsTypes, NextKeepsGas, NextKeepsEdge DEF OnceInv

LEMMA OnceImplies == OnceInv => DeliveryInv
  <1> SUFFICES ASSUME OnceInv PROVE DeliveryInv
    OBVIOUS
  <1>1. ASSUME NEW u \in Updates
        PROVE  performed[u] <= 1
    <2>1. CASE u \in RawUpdates
      BY <2>1 DEF OnceInv, GasInv
    <2>2. CASE u \in FastUpdates \cup QrUpdates
      BY <2>2 DEF OnceInv, EdgeInv
    <2> QED
      BY <2>1, <2>2 DEF Updates
  <1>2. GasRepliesOnce
    BY DEF OnceInv, GasInv, GasRepliesOnce
  <1> QED
    BY <1>1, <1>2 DEF OnceInv, TypeInv, DeliveryInv, PerformedOnce

(* However often an update is delivered, published and forwarded, and      *)
(* whatever dies or is not waited for on the way, the domain handles it    *)
(* once at most and Apps Script replies to it once at most: the record of  *)
(* the object and the claim of doPost carry it.                            *)
THEOREM EffectsHappenOnce == Spec => []DeliveryInv
  BY InitOnce, NextKeepsOnce, OnceImplies, PTL DEF Spec

-----------------------------------------------------------------------------
(* The replies of the Worker.  A step concerns one update; for another     *)
(* update nothing that matters to its replies changes.                     *)

Elsewhere(u) ==
    /\ telegram'[u] = telegram[u]
    /\ u \in processed' <=> u \in processed
    /\ received'[u] = received[u] /\ failed'[u] = failed[u]
    /\ u \in abandoned => u \in abandoned'
    /\ \A w \in Workers :
           \/ worker'[w] = worker[w]
           \/ /\ worker[w].step = "idle" \/ worker[w].update # u
              /\ worker'[w].step = "idle" \/ worker'[w].update # u

Concerns(u) ==
    \/ TelegramGivesUp(u)
    \/ \E w \in Workers : Deliver(u, w)
    \/ \E w \in Workers :
           worker[w].update = u /\ (Work(w) \/ WorkFails(w))

(* What a Worker does to another Worker, and to another update.            *)
LEMMA WorkElsewhere ==
    ASSUME TypeInv, NEW w \in Workers, Work(w) \/ WorkFails(w),
           NEW u \in FastUpdates \cup QrUpdates, worker[w].update # u
    PROVE  Elsewhere(u)
  <1>1. PICK v \in Updates : v = worker[w].update
    BY DEF Work, WorkFails, Process, Claim, Publish, Send, Release, Answer,
           ProcessFails, SendFails, PublishFails, WorkerDies, TypeInv,
           WorkerTyped
  <1>2. /\ u \in Updates /\ u # v
        /\ telegram \in [Updates -> Delivery]
        /\ worker \in [Workers -> Invocation]
        /\ received \in [Updates -> [1 .. Replies -> Nat]]
        /\ failed \in [Updates -> Nat]
    BY <1>1, Kinds DEF TypeInv, TypeOK, Delivery, Invocation
  <1>3. \/ UNCHANGED telegram
        \/ telegram' = [telegram EXCEPT ![v].waits = None]
        \/ \E a \in BOOLEAN :
              telegram' = [telegram EXCEPT ![v].waits = None, ![v].acked = a]
    BY <1>1
    DEF Work, WorkFails, Process, Claim, Publish, Send, Release, Answer,
        ProcessFails, SendFails, PublishFails, WorkerDies
  <1>4. telegram'[u] = telegram[u]
    BY <1>2, <1>3
  <1>5. processed' \in {processed, processed \cup {v}, processed \ {v}}
    BY <1>1
    DEF Work, WorkFails, Process, Claim, Publish, Send, Release, Answer,
        ProcessFails, SendFails, PublishFails, WorkerDies
  <1>6. abandoned' \in {abandoned, abandoned \cup {v}}
    BY <1>1
    DEF Work, WorkFails, Process, Claim, Publish, Send, Release, Answer,
        ProcessFails, SendFails, PublishFails, WorkerDies, Abandon
  <1>7. \/ UNCHANGED failed
        \/ failed' = [failed EXCEPT ![v] = @ + 1]
    BY <1>1
    DEF Work, WorkFails, Process, Claim, Publish, Send, Release, Answer,
        ProcessFails, SendFails, PublishFails, WorkerDies, chatVars
  <1>8. received'[u] = received[u]
    <2>1. CASE UNCHANGED received
      BY <2>1
    <2>2. CASE Send(w) \/ SendFails(w)
      <3>1. /\ worker[w].sent \in 0 .. Replies /\ worker[w].sent < Replies
        BY <2>2 DEF Send, SendFails, TypeInv, TypeOK, WorkerTyped
      <3>2. worker[w].sent + 1 \in 1 .. Replies
        BY <3>1, RepliesPositive
      <3>3. PICK i \in 1 .. Replies : i = worker[w].sent + 1
        BY <3>2
      <3>4. \/ UNCHANGED received
            \/ received' = [received EXCEPT ![v][i] = @ + 1]
        BY <1>1, <2>2, <3>3 DEF Send, SendFails
      <3> QED
        BY <1>2, <3>4, OneMoreReply
    <2> QED
      BY <2>1, <2>2
      DEF Work, WorkFails, Process, Claim, Publish, Release, Answer,
          ProcessFails, PublishFails, WorkerDies, chatVars
  <1>9. /\ \A x \in Workers \ {w} : worker'[x] = worker[x]
        /\ worker'[w].update = v \/ worker'[w].step = "idle"
    <2>1. CASE worker' = [worker EXCEPT ![w] = IdleWorker]
      BY <1>2, <2>1 DEF IdleWorker
    <2>2. CASE Send(w)
      <3>1. PICK step \in {"sending", "ok"}, i \in 0 .. Replies :
                worker' = [worker EXCEPT ![w].step = step, ![w].sent = i]
        <4> DEFINE next == IF worker[w].sent + 1 = Replies
                               THEN "ok" ELSE "sending"
        <4>1. /\ worker[w].sent \in 0 .. Replies /\ worker[w].sent < Replies
          BY <2>2 DEF Send, TypeInv, TypeOK, WorkerTyped
        <4>2. worker[w].sent + 1 \in 0 .. Replies
          BY <4>1, RepliesPositive
        <4>3. next \in {"sending", "ok"}
          OBVIOUS
        <4>4. worker' = [worker EXCEPT ![w].step = next,
                                       ![w].sent = worker[w].sent + 1]
          BY <2>2 DEF Send
        <4> HIDE DEF next
        <4> QED
          BY <4>2, <4>3, <4>4
      <3> QED
        BY <1>1, <1>2, <3>1, GoesFurther
    <2>3. ASSUME NEW step \in {"sending", "releasing", "ok", "error"},
                 WorkerGoes(w, step)
          PROVE  /\ \A x \in Workers \ {w} : worker'[x] = worker[x]
                 /\ worker'[w].update = v
      BY <1>1, <1>2, <2>3 DEF WorkerGoes, Invocation
    <2>4. ASSUME SendFails(w) \/ Claim(w)
          PROVE  \E step \in {"sending", "releasing", "ok", "error"} :
                     WorkerGoes(w, step)
      BY <2>4 DEF SendFails, Claim
    <2> QED
      BY <2>1, <2>2, <2>3, <2>4
      DEF Work, WorkFails, Process, Publish, Release, Answer,
          ProcessFails, PublishFails, WorkerDies
  <1> QED
    BY <1>1, <1>2, <1>4, <1>5, <1>6, <1>7, <1>8, <1>9 DEF Elsewhere

LEMMA StepsConcernOne ==
    ASSUME TypeInv, NEW u \in FastUpdates \cup QrUpdates, [Next]_vars
    PROVE  Elsewhere(u) \/ Concerns(u)
  <1>1. u \in Updates
    BY Kinds
  <1>2. ASSUME NEW v \in Updates \ {u}, TelegramGivesUp(v)
        PROVE  Elsewhere(u)
    <2>1. telegram'[u] = telegram[u]
      BY <1>1, <1>2 DEF TelegramGivesUp, TypeInv, TypeOK
    <2> QED
      BY <1>2, <2>1 DEF TelegramGivesUp, Elsewhere, Abandon, chatVars
  <1>3. ASSUME NEW v \in Updates \ {u}, NEW w \in Workers, Deliver(v, w)
        PROVE  Elsewhere(u)
    <2>1. telegram'[u] = telegram[u]
      BY <1>1, <1>3 DEF Deliver, TypeInv, TypeOK
    <2>2. /\ \A x \in Workers \ {w} : worker'[x] = worker[x]
          /\ worker[w].step = "idle" /\ worker'[w].update = v
      BY <1>3 DEF Deliver, IdleWorker, TypeInv, TypeOK
    <2> QED
      BY <1>3, <2>1, <2>2 DEF Deliver, Elsewhere, chatVars
  <1>4. ASSUME ScriptStep
        PROVE  Elsewhere(u)
    <2>1. u \in abandoned => u \in abandoned'
      BY <1>4
      DEF ScriptStep, Execute, Forward, Acknowledge, Retry, ForwardTimesOut,
          GasClaims, GasHandles, GasSends, Forget, GasFails, GasDies, Abandon
    <2> QED
      BY <1>4, <2>1, ScriptsElsewhere DEF Elsewhere
  <1>5. CASE UNCHANGED vars
    BY <1>5 DEF Elsewhere, vars, edgeVars, chatVars
  <1>6. ASSUME NEW w \in Workers, Work(w) \/ WorkFails(w)
        PROVE  Elsewhere(u) \/ Concerns(u)
    BY <1>6, WorkElsewhere DEF Concerns
  <1> QED
    BY <1>2, <1>3, <1>4, <1>5, <1>6 DEF Next, Concerns, ScriptStep

(* What happens to the Worker that takes a step, and to its replies.       *)

Alone(w) == \A v \in Workers \ {w} : worker'[v] = worker[v]

SameReplies(u) == received'[u] = received[u] /\ failed'[u] = failed[u]

LEMMA GoesEffect ==
    ASSUME TypeInv, NEW w \in Workers,
           NEW step \in {"sending", "releasing", "ok", "error"},
           WorkerGoes(w, step)
    PROVE  /\ worker'[w].step = step
           /\ worker'[w].update = worker[w].update
           /\ worker'[w].sent = worker[w].sent
           /\ Alone(w)
  BY GoesTypes DEF TypeInv, Alone

LEMMA StopEffect ==
    ASSUME TypeInv, NEW w \in Workers,
           worker' = [worker EXCEPT ![w] = IdleWorker]
    PROVE  worker'[w].step = "idle" /\ Alone(w)
  BY DEF IdleWorker, TypeInv, TypeOK, Alone

SendEffect(w, u, i) ==
    /\ worker[w].step = "sending" /\ worker[w].sent + 1 = i
    /\ worker[w].sent \in Nat
    /\ worker'[w].update = u /\ worker'[w].sent = i
    /\ \/ i = Replies /\ worker'[w].step = "ok"
       \/ i # Replies /\ worker'[w].step = "sending"
    /\ Alone(w)
    /\ UNCHANGED <<telegram, processed, abandoned>>
    /\ failed'[u] = failed[u]
    /\ received'[u][i] = received[u][i] + 1
    /\ \A j \in 1 .. Replies \ {i} : received'[u][j] = received[u][j]

LEMMA SendHasEffect ==
    ASSUME TypeInv, NEW u \in FastUpdates \cup QrUpdates, NEW w \in Workers,
           worker[w].update = u, Send(w)
    PROVE  \E i \in 1 .. Replies : SendEffect(w, u, i)
  <1>1. /\ worker[w].step = "sending"
        /\ worker[w].sent \in 0 .. Replies /\ worker[w].sent < Replies
        /\ worker \in [Workers -> Invocation]
    BY DEF Send, TypeInv, TypeOK, WorkerTyped, Invocation
  <1>2. worker[w].sent + 1 \in 1 .. Replies
    BY <1>1, RepliesPositive
  <1>3. PICK i \in 1 .. Replies : i = worker[w].sent + 1
    BY <1>2
  <1>4. received' = [received EXCEPT ![u][i] = @ + 1]
           /\ UNCHANGED <<telegram, processed, abandoned, failed>>
    BY <1>3 DEF Send
  <1>5. /\ received'[u][i] = received[u][i] + 1
        /\ \A j \in 1 .. Replies \ {i} : received'[u][j] = received[u][j]
    <2>1. u \in Updates /\ received \in [Updates -> [1 .. Replies -> Nat]]
      BY Kinds DEF TypeInv, TypeOK
    <2>2. received' = [received EXCEPT ![u][i] = @ + 1]
      BY <1>4
    <2> QED
      BY ONLY <2>1, <2>2, i \in 1 .. Replies, OneMoreReply
  <1>6. /\ worker'[w].update = u /\ worker'[w].sent = i
        /\ \/ i = Replies /\ worker'[w].step = "ok"
           \/ i # Replies /\ worker'[w].step = "sending"
        /\ Alone(w)
    <2> DEFINE next == IF i = Replies THEN "ok" ELSE "sending"
    <2>1. worker' = [worker EXCEPT ![w].step = next, ![w].sent = i]
      BY <1>3 DEF Send
    <2>2. /\ next \in {"sending", "ok"} /\ i \in 0 .. Replies
          /\ i = Replies => next = "ok"
          /\ i # Replies => next = "sending"
      OBVIOUS
    <2> HIDE DEF next
    <2>3. /\ worker'[w].step = next
          /\ worker'[w].update = u
          /\ worker'[w].sent = i
          /\ \A x \in Workers \ {w} : worker'[x] = worker[x]
      BY <1>1, <2>1, <2>2, GoesFurther
    <2> QED
      BY <2>2, <2>3 DEF Alone
  <1>7. worker[w].sent \in Nat
    BY <1>1
  <1> QED
    BY <1>1, <1>3, <1>4, <1>5, <1>6, <1>7 DEF SendEffect

SendFailsEffect(w, u, i) ==
    /\ worker[w].step = "sending" /\ worker[w].sent + 1 = i
    /\ worker[w].sent \in Nat
    /\ worker'[w].update = u
    /\ u \in FastUpdates => worker'[w].step = "error"
    /\ u \in QrUpdates => worker'[w].step = "releasing"
    /\ Alone(w)
    /\ UNCHANGED <<telegram, processed, abandoned>>
    /\ failed'[u] = failed[u] + 1
    /\ received'[u][i] \in {received[u][i], received[u][i] + 1}
    /\ \A j \in 1 .. Replies \ {i} : received'[u][j] = received[u][j]

LEMMA SendFailsHasEffect ==
    ASSUME TypeInv, NEW u \in FastUpdates \cup QrUpdates, NEW w \in Workers,
           worker[w].update = u, SendFails(w)
    PROVE  \E i \in 1 .. Replies : SendFailsEffect(w, u, i)
  <1>1. /\ worker[w].step = "sending"
        /\ worker[w].sent \in 0 .. Replies /\ worker[w].sent < Replies
    BY DEF SendFails, TypeInv, TypeOK, WorkerTyped
  <1>2. worker[w].sent + 1 \in 1 .. Replies
    BY <1>1, RepliesPositive
  <1>3. PICK i \in 1 .. Replies : i = worker[w].sent + 1
    BY <1>2
  <1>4. /\ \/ UNCHANGED received
           \/ received' = [received EXCEPT ![u][i] = @ + 1]
        /\ failed' = [failed EXCEPT ![u] = @ + 1]
        /\ UNCHANGED <<telegram, processed, abandoned>>
    BY <1>3 DEF SendFails
  <1>5. /\ received'[u][i] \in {received[u][i], received[u][i] + 1}
        /\ \A j \in 1 .. Replies \ {i} : received'[u][j] = received[u][j]
    <2>1. CASE UNCHANGED received
      BY <2>1
    <2>2. CASE received' = [received EXCEPT ![u][i] = @ + 1]
      <3>1. u \in Updates /\ received \in [Updates -> [1 .. Replies -> Nat]]
        BY Kinds DEF TypeInv, TypeOK
      <3> QED
        BY <2>2, <3>1, OneMoreReply
    <2> QED
      BY <1>4, <2>1, <2>2
  <1>6. failed'[u] = failed[u] + 1
    BY <1>4, Kinds DEF TypeInv, TypeOK
  <1>7. /\ worker'[w].update = u
        /\ u \in FastUpdates => worker'[w].step = "error"
        /\ u \in QrUpdates => worker'[w].step = "releasing"
        /\ Alone(w)
    <2>1. CASE u \in QrUpdates
      <3>1. WorkerGoes(w, "releasing")
        BY <2>1 DEF SendFails
      <3> QED
        BY <2>1, <3>1, GoesEffect, Kinds
    <2>2. CASE u \in FastUpdates
      <3>1. WorkerGoes(w, "error")
        BY <2>2, Kinds DEF SendFails
      <3> QED
        BY <2>2, <3>1, GoesEffect, Kinds
    <2> QED
      BY <2>1, <2>2
  <1>8. worker[w].sent \in Nat
    BY <1>1
  <1> QED
    BY <1>1, <1>3, <1>4, <1>5, <1>6, <1>7, <1>8 DEF SendFailsEffect

(* The object handles the update, or returns the stored replies.           *)
LEMMA ProcessHasEffect ==
    ASSUME TypeInv, NEW u \in FastUpdates \cup QrUpdates, NEW w \in Workers,
           worker[w].update = u, Process(w) \/ ProcessFails(w)
    PROVE  /\ u \in FastUpdates
           /\ worker'[w].update = u /\ worker'[w].sent = 0 /\ Alone(w)
           /\ \/ worker'[w].step = "sending" /\ u \in processed'
              \/ worker'[w].step = "error"
           /\ processed \subseteq processed'
           /\ UNCHANGED <<telegram, abandoned>> /\ SameReplies(u)
  <1>1. /\ u \in FastUpdates
        /\ worker[w].step = "routing" /\ worker[w].sent = 0
        /\ processed \subseteq processed'
        /\ UNCHANGED <<telegram, abandoned>> /\ SameReplies(u)
        /\ \/ WorkerGoes(w, "sending") /\ u \in processed'
           \/ WorkerGoes(w, "error")
    BY DEF Process, ProcessFails, TypeInv, WorkerTyped, SameReplies
  <1> QED
    BY <1>1, GoesEffect

LEMMA ClaimHasEffect ==
    ASSUME TypeInv, NEW u \in FastUpdates \cup QrUpdates, NEW w \in Workers,
           worker[w].update = u, Claim(w)
    PROVE  /\ u \in QrUpdates /\ worker[w].step = "routing"
           /\ worker'[w].update = u /\ worker'[w].sent = 0 /\ Alone(w)
           /\ u \in processed => worker'[w].step = "ok"
           /\ u \notin processed => worker'[w].step = "sending"
           /\ u \in processed'
           /\ UNCHANGED <<telegram, abandoned>> /\ SameReplies(u)
  <1>1. /\ u \in QrUpdates
        /\ worker[w].step = "routing" /\ worker[w].sent = 0
        /\ u \in processed'
        /\ UNCHANGED <<telegram, abandoned>> /\ SameReplies(u)
    BY DEF Claim, TypeInv, WorkerTyped, SameReplies, chatVars
  <1>2. CASE u \in processed
    <2>1. WorkerGoes(w, "ok")
      BY <1>2 DEF Claim
    <2> QED
      BY <1>1, <1>2, <2>1, GoesEffect
  <1>3. CASE u \notin processed
    <2>1. WorkerGoes(w, "sending")
      BY <1>3 DEF Claim
    <2> QED
      BY <1>1, <1>3, <2>1, GoesEffect
  <1> QED
    BY <1>2, <1>3

LEMMA ReleaseHasEffect ==
    ASSUME TypeInv, NEW u \in FastUpdates \cup QrUpdates, NEW w \in Workers,
           worker[w].update = u, Release(w)
    PROVE  /\ u \in QrUpdates /\ worker[w].step = "releasing"
           /\ worker'[w].update = u /\ worker'[w].step = "error" /\ Alone(w)
           /\ u \notin processed'
           /\ UNCHANGED <<telegram, abandoned>> /\ SameReplies(u)
  <1>1. /\ u \in QrUpdates /\ worker[w].step = "releasing"
        /\ u \notin processed'
        /\ UNCHANGED <<telegram, abandoned>> /\ SameReplies(u)
        /\ WorkerGoes(w, "error")
    BY DEF Release, TypeInv, WorkerTyped, SameReplies, chatVars
  <1> QED
    BY <1>1, GoesEffect

LEMMA AnswerHasEffect ==
    ASSUME TypeInv, NEW u \in FastUpdates \cup QrUpdates, NEW w \in Workers,
           worker[w].update = u, Answer(w)
    PROVE  /\ worker[w].step \in {"ok", "error"}
           /\ worker'[w].step = "idle" /\ Alone(w)
           /\ telegram'[u].acked =>
                  telegram[u].acked \/ worker[w].step = "ok"
           /\ telegram[u].waits # w => telegram'[u] = telegram[u]
           /\ UNCHANGED <<processed, abandoned>> /\ SameReplies(u)
  <1>1. /\ worker[w].step \in {"ok", "error"}
        /\ worker'[w].step = "idle" /\ Alone(w)
        /\ UNCHANGED <<processed, abandoned>> /\ SameReplies(u)
    BY StopEffect DEF Answer, SameReplies, chatVars
  <1>2. telegram \in [Updates -> Delivery] /\ u \in Updates
    BY Kinds DEF TypeInv, TypeOK, Delivery
  <1>3. CASE telegram[u].waits = w
    <2> DEFINE a == worker[w].step = "ok"
    <2>1. telegram' = [telegram EXCEPT ![u].waits = None, ![u].acked = a]
      BY <1>3 DEF Answer, Waited
    <2> HIDE DEF a
    <2>2. telegram'[u].acked = a
      BY <1>2, <2>1 DEF Delivery
    <2> QED
      BY <1>1, <1>3, <2>2 DEF a
  <1>4. CASE telegram[u].waits # w
    <2>1. UNCHANGED telegram
      BY <1>4 DEF Answer, Waited
    <2> QED
      BY <1>1, <2>1
  <1> QED
    BY <1>3, <1>4

LEMMA DiesHasEffect ==
    ASSUME TypeInv, NEW u \in FastUpdates \cup QrUpdates, NEW w \in Workers,
           worker[w].update = u, WorkerDies(w)
    PROVE  /\ worker'[w].step = "idle" /\ Alone(w)
           /\ telegram'[u].acked => telegram[u].acked
           /\ UNCHANGED processed /\ u \in abandoned' /\ SameReplies(u)
  <1>1. /\ worker'[w].step = "idle" /\ Alone(w)
        /\ UNCHANGED processed /\ u \in abandoned' /\ SameReplies(u)
    BY StopEffect DEF WorkerDies, SameReplies, chatVars, Abandon
  <1>2. telegram \in [Updates -> Delivery] /\ u \in Updates
    BY Kinds DEF TypeInv, TypeOK, Delivery
  <1>3. UNCHANGED telegram \/ telegram' = [telegram EXCEPT ![u].waits = None]
    BY DEF WorkerDies
  <1>4. telegram'[u].acked => telegram[u].acked
    BY <1>2, <1>3 DEF Delivery
  <1> QED
    BY <1>1, <1>4

LEMMA DeliverHasEffect ==
    ASSUME TypeInv, NEW u \in FastUpdates \cup QrUpdates, NEW w \in Workers,
           Deliver(u, w)
    PROVE  /\ worker[w].step = "idle" /\ Alone(w)
           /\ worker'[w].step = "routing" /\ worker'[w].update = u
           /\ telegram[u].waits = None /\ telegram'[u].waits = w
           /\ telegram'[u].acked = telegram[u].acked
           /\ UNCHANGED <<processed, abandoned>> /\ SameReplies(u)
  <1>1. /\ telegram \in [Updates -> Delivery] /\ u \in Updates
        /\ worker \in [Workers -> Invocation]
    BY Kinds DEF TypeInv, TypeOK, Delivery, Invocation
  <1>2. /\ worker[w].step = "idle" /\ Alone(w)
        /\ worker'[w].step = "routing" /\ worker'[w].update = u
    BY <1>1 DEF Deliver, IdleWorker, Alone, Invocation
  <1>3. /\ telegram[u].waits = None /\ telegram'[u].waits = w
        /\ telegram'[u].acked = telegram[u].acked
    BY <1>1 DEF Deliver, Delivery
  <1> QED
    BY <1>2, <1>3 DEF Deliver, SameReplies, chatVars

LEMMA GivesUpHasEffect ==
    ASSUME TypeInv, NEW u \in FastUpdates \cup QrUpdates, TelegramGivesUp(u)
    PROVE  /\ UNCHANGED <<worker, processed>>
           /\ telegram'[u].acked = telegram[u].acked
           /\ u \in abandoned' /\ SameReplies(u)
  <1>1. telegram \in [Updates -> Delivery] /\ u \in Updates
    BY Kinds DEF TypeInv, TypeOK, Delivery
  <1> QED
    BY <1>1 DEF TelegramGivesUp, Delivery, Abandon, SameReplies, chatVars

(* The Workers of the other kinds of update are not among these.           *)
LEMMA NotPublished ==
    ASSUME NEW u \in FastUpdates \cup QrUpdates, NEW w \in Workers,
           worker[w].update = u
    PROVE  ~Publish(w) /\ ~PublishFails(w)
  BY Kinds DEF Publish, PublishFails

-----------------------------------------------------------------------------
(* An update of the fast path is complete once it is answered 200: a       *)
(* Worker that sends has all replies before the next one delivered, and    *)
(* who is done has delivered them all.                                     *)

SentInv(u) ==
    \A w \in Workers :
        worker[w].update = u /\ worker[w].step = "sending" =>
            \A i \in 1 .. Replies : i <= worker[w].sent => received[u][i] > 0

DoneInv(u) ==
    /\ \A w \in Workers :
           worker[w].update = u /\ worker[w].step \in {"sending", "ok"} =>
               u \in processed
    /\ \A w \in Workers :
           worker[w].update = u /\ worker[w].step = "ok" => Answered(u)
    /\ telegram[u].acked => u \in processed /\ Answered(u)

LEMMA ElsewhereKeepsDone ==
    ASSUME NEW u \in Updates, Elsewhere(u), SentInv(u)
    PROVE  SentInv(u)' /\ (DoneInv(u) => DoneInv(u)')
  <1>1. SentInv(u)'
    BY DEF Elsewhere, SentInv
  <1>2. Answered(u) => Answered(u)'
    BY DEF Elsewhere, Answered
  <1>3. ASSUME DoneInv(u)
        PROVE  DoneInv(u)'
    BY <1>2, <1>3 DEF Elsewhere, DoneInv
  <1> QED
    BY <1>1, <1>3

LEMMA ConcernsTypes ==
    ASSUME TypeInv, NEW u \in FastUpdates \cup QrUpdates, Concerns(u),
           NEW i \in 1 .. Replies
    PROVE  received'[u][i] \in Nat
  <1>1. Next
    BY Kinds DEF Concerns, Next
  <1>2. TypeInv'
    BY <1>1, NextKeepsTypes
  <1>3. received' \in [Updates -> [1 .. Replies -> Nat]] /\ u \in Updates
    BY <1>2, Kinds DEF TypeInv, TypeOK
  <1> QED
    BY <1>3

(* Replies do not get lost.                                                *)
LEMMA RepliesStay ==
    ASSUME TypeInv, NEW u \in FastUpdates \cup QrUpdates, Concerns(u),
           NEW i \in 1 .. Replies
    PROVE  received'[u][i] >= received[u][i]
  <1>1. received[u][i] \in Nat
    BY Kinds, ReplyTypes
  <1>2. CASE SameReplies(u)
    BY <1>1, <1>2 DEF SameReplies
  <1>3. ASSUME NEW w \in Workers, worker[w].update = u, Send(w)
        PROVE  received'[u][i] >= received[u][i]
    BY <1>1, <1>3, SendHasEffect DEF SendEffect
  <1>4. ASSUME NEW w \in Workers, worker[w].update = u, SendFails(w)
        PROVE  received'[u][i] >= received[u][i]
    BY <1>1, <1>4, SendFailsHasEffect DEF SendFailsEffect
  <1>5. ASSUME NEW w \in Workers, worker[w].update = u,
               Work(w) \/ WorkFails(w)
        PROVE  received'[u][i] >= received[u][i]
    BY <1>2, <1>3, <1>4, <1>5, NotPublished, ProcessHasEffect,
       ClaimHasEffect, ReleaseHasEffect, AnswerHasEffect, DiesHasEffect
    DEF Work, WorkFails
  <1> QED
    BY <1>2, <1>5, DeliverHasEffect, GivesUpHasEffect DEF Concerns

LEMMA AnsweredStays ==
    ASSUME TypeInv, NEW u \in FastUpdates \cup QrUpdates, Concerns(u),
           Answered(u)
    PROVE  Answered(u)'
  <1>1. ASSUME NEW i \in 1 .. Replies
        PROVE  received'[u][i] > 0
    <2>1. /\ received[u][i] \in Nat /\ received[u][i] > 0
          /\ received'[u][i] >= received[u][i]
      BY Kinds, ReplyTypes, RepliesStay DEF Answered
    <2>2. received'[u][i] \in Nat
      BY ConcernsTypes
    <2> QED
      BY <2>1, <2>2
  <1> QED
    BY <1>1 DEF Answered

(* A step in which the Worker that moves is not left sending.              *)
LEMMA NotSendingKeepsSent ==
    ASSUME TypeInv, NEW u \in FastUpdates \cup QrUpdates, Concerns(u),
           SentInv(u), NEW w \in Workers, Alone(w),
           worker'[w].update = u /\ worker'[w].step = "sending" =>
               \A i \in 1 .. Replies :
                   i <= worker'[w].sent => received'[u][i] > 0
    PROVE  SentInv(u)'
  <1>1. ASSUME NEW v \in Workers \ {w}, NEW i \in 1 .. Replies,
               worker'[v].update = u, worker'[v].step = "sending",
               i <= worker'[v].sent
        PROVE  received'[u][i] > 0
    <2>1. received[u][i] > 0 /\ received[u][i] \in Nat
      BY <1>1, Kinds, ReplyTypes DEF SentInv, Alone
    <2>2. received'[u][i] >= received[u][i] /\ received'[u][i] \in Nat
      BY RepliesStay, ConcernsTypes
    <2> QED
      BY <2>1, <2>2
  <1> QED
    BY <1>1 DEF SentInv

LEMMA ConcernKeepsSent ==
    ASSUME TypeInv, NEW u \in FastUpdates \cup QrUpdates, Concerns(u),
           SentInv(u)
    PROVE  SentInv(u)'
  <1>1. CASE TelegramGivesUp(u)
    BY <1>1, GivesUpHasEffect DEF SentInv, SameReplies
  <1>2. ASSUME NEW w \in Workers, Deliver(u, w)
        PROVE  SentInv(u)'
    BY <1>2, DeliverHasEffect, NotSendingKeepsSent
  <1>3. ASSUME NEW w \in Workers, worker[w].update = u,
               Process(w) \/ ProcessFails(w)
        PROVE  SentInv(u)'
    <2>1. worker'[w].sent = 0 /\ Alone(w)
      BY <1>3, ProcessHasEffect
    <2>2. \A i \in 1 .. Replies : ~(i <= worker'[w].sent)
      BY <2>1
    <2> QED
      BY <2>1, <2>2, NotSendingKeepsSent
  <1>4. ASSUME NEW w \in Workers, worker[w].update = u, Claim(w)
        PROVE  SentInv(u)'
    <2>1. worker'[w].sent = 0 /\ Alone(w)
      BY <1>4, ClaimHasEffect
    <2>2. \A i \in 1 .. Replies : ~(i <= worker'[w].sent)
      BY <2>1
    <2> QED
      BY <2>1, <2>2, NotSendingKeepsSent
  <1>5. ASSUME NEW w \in Workers, worker[w].update = u, Send(w)
        PROVE  SentInv(u)'
    <2>1. PICK i \in 1 .. Replies : SendEffect(w, u, i)
      BY <1>5, SendHasEffect
    <2>2. ASSUME NEW j \in 1 .. Replies, j <= worker'[w].sent
          PROVE  received'[u][j] > 0
      BY <1>5, <2>1, <2>2, Kinds, ReplyTypes DEF SendEffect, SentInv
    <2> QED
      BY <2>1, <2>2, NotSendingKeepsSent DEF SendEffect
  <1>6. ASSUME NEW w \in Workers, worker[w].update = u, SendFails(w)
        PROVE  SentInv(u)'
    <2>1. PICK i \in 1 .. Replies : SendFailsEffect(w, u, i)
      BY <1>6, SendFailsHasEffect
    <2>2. worker'[w].step # "sending" /\ Alone(w)
      BY <2>1 DEF SendFailsEffect
    <2> QED
      BY <2>2, NotSendingKeepsSent
  <1>7. ASSUME NEW w \in Workers, worker[w].update = u, Release(w)
        PROVE  SentInv(u)'
    BY <1>7, ReleaseHasEffect, NotSendingKeepsSent
  <1>8. ASSUME NEW w \in Workers, worker[w].update = u,
               Answer(w) \/ WorkerDies(w)
        PROVE  SentInv(u)'
    BY <1>8, AnswerHasEffect, DiesHasEffect, NotSendingKeepsSent
  <1> QED
    BY <1>1, <1>2, <1>3, <1>4, <1>5, <1>6, <1>7, <1>8, NotPublished
    DEF Concerns, Work, WorkFails

(* Who has sent the last reply has sent them all.                          *)
LEMMA LastReplyAnswers ==
    ASSUME TypeInv, NEW u \in FastUpdates \cup QrUpdates, SentInv(u),
           NEW w \in Workers, worker[w].update = u,
           NEW i \in 1 .. Replies, SendEffect(w, u, i),
           worker'[w].step = "ok"
    PROVE  Answered(u)'
  <1>1. i = Replies
    BY DEF SendEffect
  <1>2. ASSUME NEW j \in 1 .. Replies
        PROVE  received'[u][j] > 0
    <2>1. /\ received[u][j] \in Nat
          /\ worker[w].step = "sending" /\ worker[w].sent + 1 = i
          /\ worker[w].sent \in Nat
          /\ received'[u][i] = received[u][i] + 1
          /\ \A k \in 1 .. Replies \ {i} : received'[u][k] = received[u][k]
      BY Kinds, ReplyTypes DEF SendEffect
    <2>2. CASE j = i
      BY <2>1, <2>2
    <2>3. CASE j # i
      <3>1. j <= worker[w].sent
        BY <1>1, <2>1, <2>3, RepliesPositive
      <3>2. received[u][j] > 0
        BY <2>1, <3>1 DEF SentInv
      <3> QED
        BY <2>1, <2>3, <3>2
    <2> QED
      BY <2>2, <2>3
  <1> QED
    BY <1>2 DEF Answered

(* A Worker that moves, while the record and the answers only grow.        *)
AckedIfOk(w, u) ==
    telegram'[u].acked =>
        telegram[u].acked \/ (worker[w].update = u /\ worker[w].step = "ok")

LEMMA MovesKeepsDone ==
    ASSUME TypeInv, NEW u \in FastUpdates \cup QrUpdates, Concerns(u),
           DoneInv(u), NEW w \in Workers, Alone(w),
           u \in processed => u \in processed',
           worker'[w].step \in {"sending", "ok"} => u \in processed',
           worker'[w].step = "ok" => Answered(u)',
           AckedIfOk(w, u)
    PROVE  DoneInv(u)'
  <1>1. Answered(u) => Answered(u)'
    BY AnsweredStays
  <1>2. telegram'[u].acked => u \in processed' /\ Answered(u)'
    BY <1>1 DEF DoneInv, AckedIfOk
  <1> QED
    BY <1>1, <1>2 DEF DoneInv, Alone

LEMMA ConcernKeepsDone ==
    ASSUME TypeInv, NEW u \in FastUpdates, Concerns(u), SentInv(u), DoneInv(u)
    PROVE  DoneInv(u)'
  <1>0. u \in FastUpdates \cup QrUpdates /\ u \in Updates
    BY Kinds
  <1>1. CASE TelegramGivesUp(u)
    BY <1>0, <1>1, GivesUpHasEffect, AnsweredStays DEF DoneInv
  <1>2. ASSUME NEW w \in Workers, Deliver(u, w)
        PROVE  DoneInv(u)'
    <2>1. /\ worker'[w].step = "routing" /\ Alone(w) /\ UNCHANGED processed
          /\ telegram'[u].acked = telegram[u].acked
      BY <1>0, <1>2, DeliverHasEffect
    <2>2. AckedIfOk(w, u)
      BY <2>1 DEF AckedIfOk
    <2> QED
      BY <1>0, <2>1, <2>2, MovesKeepsDone
  <1>3. ASSUME NEW w \in Workers, worker[w].update = u,
               Process(w) \/ ProcessFails(w)
        PROVE  DoneInv(u)'
    <2>1. /\ Alone(w) /\ processed \subseteq processed' /\ UNCHANGED telegram
          /\ \/ worker'[w].step = "sending" /\ u \in processed'
             \/ worker'[w].step = "error"
      BY <1>0, <1>3, ProcessHasEffect
    <2>2. AckedIfOk(w, u)
      BY <2>1 DEF AckedIfOk
    <2> QED
      BY <1>0, <2>1, <2>2, MovesKeepsDone
  <1>4. ASSUME NEW w \in Workers, worker[w].update = u, Send(w)
        PROVE  DoneInv(u)'
    <2>1. PICK i \in 1 .. Replies : SendEffect(w, u, i)
      BY <1>4, SendHasEffect
    <2>2. u \in processed /\ u \in processed'
      BY <1>4, <2>1 DEF DoneInv, SendEffect
    <2>3. worker'[w].step = "ok" => Answered(u)'
      BY <1>0, <1>4, <2>1, LastReplyAnswers
    <2>4. AckedIfOk(w, u) /\ Alone(w)
      BY <2>1 DEF SendEffect, AckedIfOk
    <2> QED
      BY <1>0, <2>2, <2>3, <2>4, MovesKeepsDone
  <1>5. ASSUME NEW w \in Workers, worker[w].update = u, SendFails(w)
        PROVE  DoneInv(u)'
    <2>1. PICK i \in 1 .. Replies : SendFailsEffect(w, u, i)
      BY <1>5, SendFailsHasEffect
    <2>2. /\ worker'[w].step = "error" /\ Alone(w)
          /\ UNCHANGED <<processed, telegram>>
      BY <2>1 DEF SendFailsEffect
    <2>3. AckedIfOk(w, u)
      BY <2>2 DEF AckedIfOk
    <2> QED
      BY <1>0, <2>2, <2>3, MovesKeepsDone
  <1>6. ASSUME NEW w \in Workers, worker[w].update = u,
               Answer(w) \/ WorkerDies(w)
        PROVE  DoneInv(u)'
    <2>1. /\ worker'[w].step = "idle" /\ Alone(w) /\ UNCHANGED processed
          /\ telegram'[u].acked =>
                 telegram[u].acked \/ worker[w].step = "ok"
      BY <1>0, <1>6, AnswerHasEffect, DiesHasEffect
    <2>2. AckedIfOk(w, u)
      BY <1>6, <2>1 DEF AckedIfOk
    <2> QED
      BY <1>0, <2>1, <2>2, MovesKeepsDone
  <1> QED
    BY <1>0, <1>1, <1>2, <1>3, <1>4, <1>5, <1>6, Kinds, NotPublished,
       ClaimHasEffect, ReleaseHasEffect
    DEF Concerns, Work, WorkFails

CompleteInv ==
    /\ TypeInv
    /\ \A u \in FastUpdates \cup QrUpdates : SentInv(u) /\ EdgeInv(u)
    /\ \A u \in FastUpdates : DoneInv(u)

LEMMA InitComplete == Init => CompleteInv
  <1> SUFFICES ASSUME Init PROVE CompleteInv
    OBVIOUS
  <1>1. ASSUME NEW u \in FastUpdates \cup QrUpdates
        PROVE  SentInv(u) /\ DoneInv(u)
    <2>1. telegram[u].acked = FALSE
      BY Kinds DEF Init
    <2>2. \A w \in Workers : worker[w].step = "idle"
      BY DEF Init, IdleWorker
    <2> QED
      BY <2>1, <2>2 DEF SentInv, DoneInv
  <1> QED
    BY <1>1, InitOnce DEF CompleteInv, OnceInv

LEMMA NextKeepsComplete == CompleteInv /\ [Next]_vars => CompleteInv'
  <1> SUFFICES ASSUME CompleteInv, [Next]_vars PROVE CompleteInv'
    OBVIOUS
  <1>1. ASSUME NEW u \in FastUpdates \cup QrUpdates
        PROVE  SentInv(u)' /\ EdgeInv(u)'
    BY Kinds, StepsConcernOne, ElsewhereKeepsDone, ConcernKeepsSent,
       NextKeepsEdge
    DEF CompleteInv
  <1>2. ASSUME NEW u \in FastUpdates
        PROVE  DoneInv(u)'
    <2>1. /\ u \in FastUpdates \cup QrUpdates /\ u \in Updates /\ TypeInv
          /\ SentInv(u) /\ DoneInv(u)
      BY Kinds DEF CompleteInv
    <2> QED
      BY <2>1, StepsConcernOne, ElsewhereKeepsDone, ConcernKeepsDone
  <1> QED
    BY <1>1, <1>2, NextKeepsTypes DEF CompleteInv

LEMMA CompleteImplies == CompleteInv => FastUpdatesAreComplete
  <1> SUFFICES ASSUME CompleteInv, NEW u \in FastUpdates, telegram[u].acked
               PROVE  performed[u] = 1 /\ Answered(u)
    BY DEF FastUpdatesAreComplete
  <1>1. u \in processed /\ Answered(u)
    BY DEF CompleteInv, DoneInv
  <1> QED
    BY <1>1 DEF CompleteInv, EdgeInv

(* An update of the fast path that has been answered 200 has taken effect  *)
(* and all its replies have arrived, whichever attempt was answered and    *)
(* whatever the other attempts came to.                                    *)
THEOREM AnsweredUpdatesAreComplete == Spec => []FastUpdatesAreComplete
  BY InitComplete, NextKeepsComplete, CompleteImplies, PTL DEF Spec

-----------------------------------------------------------------------------
(* A request for the payment QR: one Worker at most holds its claim, and   *)
(* whoever takes the claim over finds that every reply sent so far belongs *)
(* to a sending that failed.                                               *)

HoldsClaim(w, u) ==
    worker[w].update = u /\ worker[w].step \in {"sending", "releasing"}

QrInv(u) ==
    /\ u \notin processed =>
           /\ \A i \in 1 .. Replies : received[u][i] <= failed[u]
           /\ \A w \in Workers : ~HoldsClaim(w, u)
    /\ \A v, w \in Workers : HoldsClaim(v, u) /\ HoldsClaim(w, u) => v = w
    /\ \A w \in Workers : HoldsClaim(w, u) =>
          \A i \in 1 .. Replies :
              worker[w].step = "releasing" \/ i > worker[w].sent
                  => received[u][i] <= failed[u]
    /\ \A i \in 1 .. Replies : received[u][i] <= 1 + failed[u]

LEMMA ElsewhereKeepsQr ==
    ASSUME NEW u \in Updates, Elsewhere(u), QrInv(u)
    PROVE  QrInv(u)'
  <1>1. \A w \in Workers :
            HoldsClaim(w, u)' => HoldsClaim(w, u) /\ worker'[w] = worker[w]
    BY DEF Elsewhere, HoldsClaim
  <1> QED
    BY <1>1 DEF Elsewhere, QrInv

(* A step that neither takes the claim nor sends under it.                 *)
LEMMA QrQuiet ==
    ASSUME NEW u \in QrUpdates, QrInv(u), SameReplies(u),
           u \in processed' <=> u \in processed,
           NEW w \in Workers, Alone(w), ~HoldsClaim(w, u)'
    PROVE  QrInv(u)'
  <1>1. \A v \in Workers :
            HoldsClaim(v, u)' => HoldsClaim(v, u) /\ worker'[v] = worker[v]
    BY DEF Alone, HoldsClaim
  <1> QED
    BY <1>1 DEF QrInv, SameReplies

LEMMA ConcernKeepsQr ==
    ASSUME TypeInv, NEW u \in QrUpdates, Concerns(u), QrInv(u)
    PROVE  QrInv(u)'
  <1>0. u \in FastUpdates \cup QrUpdates /\ u \in Updates /\ u \notin FastUpdates
    BY Kinds
  <1>1. CASE TelegramGivesUp(u)
    <2>1. UNCHANGED <<worker, processed>> /\ SameReplies(u)
      BY <1>0, <1>1, GivesUpHasEffect
    <2> QED
      BY <2>1 DEF QrInv, HoldsClaim, SameReplies
  <1>2. ASSUME NEW w \in Workers, Deliver(u, w)
        PROVE  QrInv(u)'
    <2>1. /\ worker'[w].step = "routing" /\ Alone(w) /\ UNCHANGED processed
          /\ SameReplies(u)
      BY <1>0, <1>2, DeliverHasEffect
    <2>2. ~HoldsClaim(w, u)'
      BY <2>1 DEF HoldsClaim
    <2> QED
      BY <2>1, <2>2, QrQuiet
  <1>3. ASSUME NEW w \in Workers, worker[w].update = u, Claim(w)
        PROVE  QrInv(u)'
    <2>1. /\ worker'[w].update = u /\ worker'[w].sent = 0 /\ Alone(w)
          /\ u \in processed => worker'[w].step = "ok"
          /\ u \notin processed => worker'[w].step = "sending"
          /\ u \in processed' /\ SameReplies(u)
      BY <1>0, <1>3, ClaimHasEffect
    <2>2. CASE u \in processed
      <3>1. ~HoldsClaim(w, u)'
        BY <2>1, <2>2 DEF HoldsClaim
      <3> QED
        BY <2>1, <2>2, <3>1, QrQuiet
    <2>3. CASE u \notin processed
      <3>1. \A v \in Workers : HoldsClaim(v, u)' => v = w
        BY <2>1, <2>3 DEF QrInv, HoldsClaim, Alone
      <3>2. \A i \in 1 .. Replies : received'[u][i] <= failed'[u]
        BY <2>1, <2>3 DEF QrInv, SameReplies
      <3>3. \A i \in 1 .. Replies : received'[u][i] <= 1 + failed'[u]
        BY <2>1 DEF QrInv, SameReplies
      <3> QED
        BY <2>1, <3>1, <3>2, <3>3 DEF QrInv
    <2> QED
      BY <2>2, <2>3
  <1>4. ASSUME NEW w \in Workers, worker[w].update = u, Send(w)
        PROVE  QrInv(u)'
    <2>1. PICK i \in 1 .. Replies : SendEffect(w, u, i)
      BY <1>0, <1>4, SendHasEffect
    <2>2. HoldsClaim(w, u) /\ u \in processed /\ u \in processed'
      BY <1>4, <2>1 DEF SendEffect, HoldsClaim, QrInv
    <2>3. \A v \in Workers : HoldsClaim(v, u)' => v = w
      BY <2>1, <2>2 DEF SendEffect, HoldsClaim, Alone, QrInv
    <2>4. \A j \in 1 .. Replies :
              received[u][j] \in Nat /\ failed[u] \in Nat
      BY <1>0, ReplyTypes
    <2>5. \A j \in 1 .. Replies : j > i => received'[u][j] <= failed'[u]
      BY <2>1, <2>2 DEF SendEffect, QrInv
    <2>6. received[u][i] <= failed[u]
      BY <2>1, <2>2 DEF SendEffect, QrInv
    <2>7. \A j \in 1 .. Replies : received'[u][j] <= 1 + failed'[u]
      BY <2>1, <2>4, <2>6 DEF SendEffect, QrInv
    <2>8. worker'[w].step # "releasing" /\ worker'[w].sent = i
      BY <2>1 DEF SendEffect
    <2> QED
      BY <2>2, <2>3, <2>5, <2>7, <2>8 DEF QrInv
  <1>5. ASSUME NEW w \in Workers, worker[w].update = u, SendFails(w)
        PROVE  QrInv(u)'
    <2>1. PICK i \in 1 .. Replies : SendFailsEffect(w, u, i)
      BY <1>0, <1>5, SendFailsHasEffect
    <2>2. HoldsClaim(w, u) /\ u \in processed /\ u \in processed'
      BY <1>5, <2>1 DEF SendFailsEffect, HoldsClaim, QrInv
    <2>3. \A v \in Workers : HoldsClaim(v, u)' => v = w
      BY <2>1, <2>2 DEF SendFailsEffect, HoldsClaim, Alone, QrInv
    <2>4. \A j \in 1 .. Replies :
              received[u][j] \in Nat /\ failed[u] \in Nat
      BY <1>0, ReplyTypes
    <2>5. received[u][i] <= failed[u]
      BY <2>1, <2>2 DEF SendFailsEffect, QrInv
    <2>6. \A j \in 1 .. Replies : received'[u][j] <= failed'[u]
      <3>1. ASSUME NEW j \in 1 .. Replies \ {i}
            PROVE  received'[u][j] <= failed'[u]
        BY <2>1, <2>4 DEF SendFailsEffect, QrInv
      <3>2. received'[u][i] <= failed'[u]
        BY <2>1, <2>4, <2>5 DEF SendFailsEffect
      <3> QED
        BY <3>1, <3>2
    <2>7. \A j \in 1 .. Replies : received'[u][j] <= 1 + failed'[u]
      <3>1. failed'[u] \in Nat
        BY <2>1, <2>4 DEF SendFailsEffect
      <3>2. ASSUME NEW j \in 1 .. Replies
            PROVE  received'[u][j] <= 1 + failed'[u]
        <4>1. received'[u][j] \in Nat
          BY <1>0, ConcernsTypes
        <4> QED
          BY <2>6, <3>1, <4>1
      <3> QED
        BY <3>2
    <2> QED
      BY <2>2, <2>3, <2>6, <2>7 DEF QrInv
  <1>6. ASSUME NEW w \in Workers, worker[w].update = u, Release(w)
        PROVE  QrInv(u)'
    <2>1. /\ worker[w].step = "releasing"
          /\ worker'[w].step = "error" /\ Alone(w)
          /\ u \notin processed' /\ SameReplies(u)
      BY <1>0, <1>6, ReleaseHasEffect
    <2>2. HoldsClaim(w, u)
      BY <1>6, <2>1 DEF HoldsClaim
    <2>3. \A v \in Workers : ~HoldsClaim(v, u)'
      BY <2>1, <2>2 DEF QrInv, HoldsClaim, Alone
    <2>4. \A i \in 1 .. Replies : received'[u][i] <= failed'[u]
      BY <2>1, <2>2 DEF QrInv, SameReplies
    <2>5. \A i \in 1 .. Replies : received'[u][i] <= 1 + failed'[u]
      BY <2>1 DEF QrInv, SameReplies
    <2> QED
      BY <2>3, <2>4, <2>5 DEF QrInv
  <1>7. ASSUME NEW w \in Workers, worker[w].update = u,
               Answer(w) \/ WorkerDies(w)
        PROVE  QrInv(u)'
    <2>1. /\ worker'[w].step = "idle" /\ Alone(w) /\ UNCHANGED processed
          /\ SameReplies(u)
      BY <1>0, <1>7, AnswerHasEffect, DiesHasEffect
    <2>2. ~HoldsClaim(w, u)'
      BY <2>1 DEF HoldsClaim
    <2> QED
      BY <2>1, <2>2, QrQuiet
  <1> QED
    BY <1>0, <1>1, <1>2, <1>3, <1>4, <1>5, <1>6, <1>7, NotPublished,
       ProcessHasEffect
    DEF Concerns, Work, WorkFails

(* While no Worker has died on the request and Telegram has not stopped    *)
(* waiting for it, Telegram waits for the only Worker that is at work on   *)
(* it; so nobody finds a claim that another Worker still holds.            *)

CalmInv(u) ==
    u \notin abandoned =>
        /\ \A w \in Workers :
               worker[w].update = u /\ worker[w].step # "idle" =>
                   telegram[u].waits = w
        /\ u \in processed =>
               Answered(u) \/ \E w \in Workers : HoldsClaim(w, u)
        /\ \A w \in Workers :
               worker[w].update = u /\ worker[w].step = "ok" => Answered(u)
        /\ telegram[u].acked => Answered(u)

LEMMA ElsewhereKeepsCalm ==
    ASSUME NEW u \in Updates, Elsewhere(u), CalmInv(u)
    PROVE  CalmInv(u)'
  <1>1. Answered(u) => Answered(u)'
    BY DEF Elsewhere, Answered
  <1>2. (\E w \in Workers : HoldsClaim(w, u))
            => (\E w \in Workers : HoldsClaim(w, u)')
    BY DEF Elsewhere, HoldsClaim
  <1>3. ASSUME NEW w \in Workers, worker'[w].update = u,
               worker'[w].step # "idle"
        PROVE  worker[w] = worker'[w]
    BY <1>3 DEF Elsewhere
  <1>4. /\ telegram'[u] = telegram[u]
        /\ u \in processed' => u \in processed
        /\ u \in abandoned => u \in abandoned'
    BY DEF Elsewhere
  <1>5. ASSUME NEW w \in Workers, worker'[w].update = u,
               worker'[w].step = "ok", u \notin abandoned'
        PROVE  Answered(u)'
    BY <1>1, <1>3, <1>4, <1>5 DEF CalmInv
  <1>6. ASSUME NEW w \in Workers, worker'[w].update = u,
               worker'[w].step # "idle", u \notin abandoned'
        PROVE  telegram'[u].waits = w
    BY <1>3, <1>4, <1>6 DEF CalmInv
  <1> QED
    BY <1>1, <1>2, <1>4, <1>5, <1>6 DEF CalmInv

(* The Worker that moves is the only one at work on the request.           *)
LEMMA MovesKeepsCalm ==
    ASSUME TypeInv, NEW u \in FastUpdates \cup QrUpdates, Concerns(u),
           CalmInv(u), u \notin abandoned, NEW w \in Workers, Alone(w),
           \A v \in Workers \ {w} :
               worker[v].update = u => worker[v].step = "idle",
           worker'[w].step = "idle" \/ telegram'[u].waits = w,
           u \in processed' => Answered(u)' \/ HoldsClaim(w, u)',
           worker'[w].step = "ok" => Answered(u)',
           telegram'[u].acked => telegram[u].acked \/ Answered(u)'
    PROVE  CalmInv(u)'
  <1>1. Answered(u) => Answered(u)'
    BY AnsweredStays
  <1>2. telegram'[u].acked => Answered(u)'
    BY <1>1 DEF CalmInv
  <1>3. ASSUME NEW v \in Workers, worker'[v].update = u,
               worker'[v].step # "idle"
        PROVE  v = w
    BY <1>3 DEF Alone
  <1> QED
    BY <1>2, <1>3 DEF CalmInv

LEMMA ConcernKeepsCalm ==
    ASSUME TypeInv, NEW u \in QrUpdates, Concerns(u), SentInv(u), QrInv(u),
           CalmInv(u)
    PROVE  CalmInv(u)'
  <1>0. u \in FastUpdates \cup QrUpdates /\ u \in Updates /\ u \notin FastUpdates
    BY Kinds
  <1>a. CASE u \in abandoned'
    BY <1>a DEF CalmInv
  <1>b. CASE u \notin abandoned'
    <2>0. CASE TelegramGivesUp(u)
      BY <1>0, <1>b, <2>0, GivesUpHasEffect
    <2>1. ASSUME NEW w \in Workers, Deliver(u, w)
          PROVE  CalmInv(u)'
      <3>1. /\ Alone(w)
            /\ worker'[w].step = "routing" /\ worker'[w].update = u
            /\ telegram[u].waits = None /\ telegram'[u].waits = w
            /\ telegram'[u].acked = telegram[u].acked
            /\ UNCHANGED <<processed, abandoned>> /\ SameReplies(u)
        BY <1>0, <2>1, DeliverHasEffect
      <3>2. \A v \in Workers :
                worker[v].update = u => worker[v].step = "idle"
        BY <1>b, <3>1, NoneIsNothing DEF CalmInv
      <3>3. u \in processed => Answered(u)
        BY <1>b, <3>1, <3>2 DEF CalmInv, HoldsClaim
      <3>4. u \in processed' => Answered(u)'
        BY <1>0, <3>1, <3>3, AnsweredStays
      <3> QED
        BY <1>0, <1>b, <3>1, <3>2, <3>4, MovesKeepsCalm
    <2>2. ASSUME NEW w \in Workers, worker[w].update = u,
                 Work(w) \/ WorkFails(w)
          PROVE  CalmInv(u)'
      <3>0. /\ worker[w].step # "idle"
            /\ ~Process(w) /\ ~ProcessFails(w)
            /\ ~Publish(w) /\ ~PublishFails(w)
        BY <1>0, <2>2, NotPublished, ProcessHasEffect
        DEF Work, WorkFails, Claim, Send, Release, Answer, SendFails,
            WorkerDies
      <3>1. u \notin abandoned
        BY <1>0, <1>b, <2>2, <3>0, ClaimHasEffect, SendHasEffect,
           SendFailsHasEffect, ReleaseHasEffect, AnswerHasEffect,
           DiesHasEffect
        DEF Work, WorkFails, SendEffect, SendFailsEffect
      <3>2. /\ telegram[u].waits = w
            /\ \A v \in Workers \ {w} :
                   worker[v].update = u => worker[v].step = "idle"
        BY <2>2, <3>0, <3>1 DEF CalmInv
      <3>3. CASE Claim(w)
        <4>1. /\ worker[w].step = "routing" /\ worker'[w].update = u
              /\ Alone(w)
              /\ u \in processed => worker'[w].step = "ok"
              /\ u \notin processed => worker'[w].step = "sending"
              /\ UNCHANGED telegram
          BY <1>0, <2>2, <3>3, ClaimHasEffect
        <4>2. u \in processed => Answered(u)
          BY <3>1, <3>2, <4>1 DEF CalmInv, HoldsClaim
        <4>3. u \in processed => Answered(u)'
          BY <1>0, <4>2, AnsweredStays
        <4>4. u \notin processed => HoldsClaim(w, u)'
          BY <4>1 DEF HoldsClaim
        <4> QED
          BY <1>0, <3>1, <3>2, <4>1, <4>3, <4>4, MovesKeepsCalm
      <3>4. CASE Send(w)
        <4>1. PICK i \in 1 .. Replies : SendEffect(w, u, i)
          BY <1>0, <2>2, <3>4, SendHasEffect
        <4>2. worker'[w].step = "ok" => Answered(u)'
          BY <1>0, <2>2, <4>1, LastReplyAnswers
        <4>3. worker'[w].step # "ok" => HoldsClaim(w, u)'
          BY <4>1 DEF SendEffect, HoldsClaim
        <4>4. Alone(w) /\ UNCHANGED telegram
          BY <4>1 DEF SendEffect
        <4> QED
          BY <1>0, <3>1, <3>2, <4>2, <4>3, <4>4, MovesKeepsCalm
      <3>5. CASE SendFails(w)
        <4>1. PICK i \in 1 .. Replies : SendFailsEffect(w, u, i)
          BY <1>0, <2>2, <3>5, SendFailsHasEffect
        <4>2. /\ worker'[w].step = "releasing" /\ worker'[w].update = u
              /\ Alone(w) /\ UNCHANGED telegram
          BY <4>1 DEF SendFailsEffect
        <4>3. HoldsClaim(w, u)'
          BY <4>2 DEF HoldsClaim
        <4> QED
          BY <1>0, <3>1, <3>2, <4>2, <4>3, MovesKeepsCalm
      <3>6. CASE Release(w)
        <4>1. /\ worker'[w].step = "error" /\ Alone(w) /\ u \notin processed'
              /\ UNCHANGED telegram
          BY <1>0, <2>2, <3>6, ReleaseHasEffect
        <4> QED
          BY <1>0, <3>1, <3>2, <4>1, MovesKeepsCalm
      <3>7. CASE Answer(w)
        <4>1. /\ worker[w].step \in {"ok", "error"}
              /\ worker'[w].step = "idle" /\ Alone(w)
              /\ telegram'[u].acked =>
                     telegram[u].acked \/ worker[w].step = "ok"
              /\ UNCHANGED processed
          BY <1>0, <2>2, <3>7, AnswerHasEffect
        <4>2. u \in processed => Answered(u)
          BY <2>2, <3>1, <3>2, <4>1 DEF CalmInv, HoldsClaim
        <4>3. worker[w].step = "ok" => Answered(u)
          BY <2>2, <3>1 DEF CalmInv
        <4>4. Answered(u) => Answered(u)'
          BY <1>0, AnsweredStays
        <4> QED
          BY <1>0, <3>1, <3>2, <4>1, <4>2, <4>3, <4>4, MovesKeepsCalm
      <3>8. CASE WorkerDies(w)
        BY <1>0, <1>b, <2>2, <3>8, DiesHasEffect
      <3> QED
        BY <2>2, <3>0, <3>3, <3>4, <3>5, <3>6, <3>7, <3>8 DEF Work, WorkFails
    <2> QED
      BY <2>0, <2>1, <2>2 DEF Concerns
  <1> QED
    BY <1>a, <1>b

ClaimInv ==
    /\ TypeInv
    /\ \A u \in FastUpdates \cup QrUpdates : SentInv(u)
    /\ \A u \in QrUpdates : QrInv(u) /\ CalmInv(u)

LEMMA InitClaim == Init => ClaimInv
  <1> SUFFICES ASSUME Init PROVE ClaimInv
    OBVIOUS
  <1>1. \A w \in Workers : worker[w].step = "idle"
    BY DEF Init, IdleWorker
  <1>2. ASSUME NEW u \in QrUpdates
        PROVE  QrInv(u) /\ CalmInv(u)
    <2>1. /\ telegram[u].acked = FALSE /\ failed[u] = 0
          /\ \A i \in 1 .. Replies : received[u][i] = 0
          /\ u \notin processed
      BY Kinds DEF Init
    <2>2. QrInv(u)
      BY <1>1, <2>1 DEF QrInv, HoldsClaim
    <2>3. CalmInv(u)
      BY <1>1, <2>1 DEF CalmInv
    <2> QED
      BY <2>2, <2>3
  <1> QED
    BY <1>2, InitComplete DEF CompleteInv, ClaimInv

LEMMA NextKeepsClaim == ClaimInv /\ [Next]_vars => ClaimInv'
  <1> SUFFICES ASSUME ClaimInv, [Next]_vars PROVE ClaimInv'
    OBVIOUS
  <1>1. ASSUME NEW u \in FastUpdates \cup QrUpdates
        PROVE  SentInv(u)'
    BY Kinds, StepsConcernOne, ElsewhereKeepsDone, ConcernKeepsSent
    DEF ClaimInv
  <1>2. ASSUME NEW u \in QrUpdates
        PROVE  QrInv(u)' /\ CalmInv(u)'
    <2>1. /\ u \in FastUpdates \cup QrUpdates /\ u \in Updates /\ TypeInv
          /\ SentInv(u) /\ QrInv(u) /\ CalmInv(u)
      BY Kinds DEF ClaimInv
    <2>2. Elsewhere(u) \/ Concerns(u)
      BY <2>1, StepsConcernOne
    <2> QED
      BY <2>1, <2>2, ElsewhereKeepsQr, ElsewhereKeepsCalm, ConcernKeepsQr,
         ConcernKeepsCalm
  <1> QED
    BY <1>1, <1>2, NextKeepsTypes DEF ClaimInv

LEMMA ClaimImplies == ClaimInv => QrArrivesOnce
  <1> SUFFICES ASSUME ClaimInv, NEW u \in QrUpdates
               PROVE  /\ telegram[u].acked /\ u \notin abandoned => Answered(u)
                      /\ \A i \in 1 .. Replies :
                             received[u][i] <= 1 + failed[u]
    BY DEF QrArrivesOnce
  <1> QED
    BY DEF ClaimInv, QrInv, CalmInv

(* Who asks for the payment QR and is answered 200 has it, unless a Worker *)
(* has died on the request or Telegram has stopped waiting for it; and it  *)
(* is sent again only when a sending of it has failed.                     *)
THEOREM QrIsSentOnce == Spec => []QrArrivesOnce
  BY InitClaim, NextKeepsClaim, ClaimImplies, PTL DEF Spec

-----------------------------------------------------------------------------
(* No update for Apps Script is dropped.  A claim stands for an update     *)
(* that has been handled, or is being handled by a script that has not     *)
(* died; so a script may answer OK to a known update, and its message may  *)
(* leave the queue.                                                        *)

InQueue(u) == \E m \in queue \cup deadLetters : m.update = u

Kept(u) == performed[u] = 1 \/ AtWork(u) \/ InQueue(u)

Handled(u) ==
    \/ performed[u] = 1
    \/ \E g \in Runs : run[g].update = u /\ run[g].step = "handling"

ClaimsHandled(u) ==
    u \notin abandoned =>
        /\ u \in claimed => Handled(u)
        /\ \A g \in Runs :
               run[g].update = u /\ run[g].step = "ok" => u \in claimed

AnswersKept(u) ==
    u \notin abandoned =>
        /\ \A w \in Workers :
               worker[w].update = u /\ worker[w].step = "ok" => Kept(u)
        /\ telegram[u].acked => Kept(u)

LEMMA AbandonedStay ==
    ASSUME [Next]_vars, NEW u, u \notin abandoned'
    PROVE  u \notin abandoned
  BY DEF Next, Work, WorkFails, TelegramGivesUp, Deliver, Process, Claim,
         Publish, Send, Release, Answer, ProcessFails, SendFails,
         PublishFails, WorkerDies, Forward, Acknowledge, Retry,
         ForwardTimesOut, Execute, GasClaims, GasHandles, GasSends, Forget,
         GasFails, GasDies, Abandon, vars

(* What is handled stays handled, if the step changes no script that       *)
(* handles, or that script dies and the update is abandoned.               *)
LEMMA HandledStays ==
    ASSUME NEW u, Handled(u), performed'[u] = performed[u],
           \A g \in Runs : run[g].update = u /\ run[g].step = "handling"
                               => run'[g] = run[g]
    PROVE  Handled(u)'
  BY DEF Handled

LEMMA ClaimsQuiet ==
    ASSUME NEW u \in RawUpdates, ClaimsHandled(u),
           u \in abandoned => u \in abandoned',
           performed'[u] = performed[u],
           u \in claimed' <=> u \in claimed,
           \A g \in Runs : run[g].update = u /\ run[g].step = "handling"
                               => run'[g] = run[g],
           \A g \in Runs : run'[g].update = u /\ run'[g].step = "ok"
                               => run'[g] = run[g]
    PROVE  ClaimsHandled(u)'
  BY HandledStays DEF ClaimsHandled

LEMMA GoesRun ==
    ASSUME TypeInv, NEW g \in Runs,
           NEW step \in {"handling", "sending", "ok", "dead"},
           RunGoes(g, step)
    PROVE  /\ run'[g].step = step /\ run'[g].update = run[g].update
           /\ \A h \in Runs \ {g} : run'[h] = run[h]
  BY DEF RunGoes, TypeInv, TypeOK

LEMMA GasClaimsKeepsClaims ==
    ASSUME TypeInv, NEW u \in RawUpdates, ClaimsHandled(u),
           NEW g \in Runs, GasClaims(g)
    PROVE  ClaimsHandled(u)'
  <1>1. /\ run[g].step = "waiting"
        /\ UNCHANGED <<performed, abandoned>>
        /\ claimed' = claimed \cup {run[g].update}
    BY DEF GasClaims, chatVars
  <1>2. CASE run[g].update \in claimed
    <2>1. /\ run'[g].step = "ok" /\ run'[g].update = run[g].update
          /\ \A h \in Runs \ {g} : run'[h] = run[h]
      <3>1. RunGoes(g, "ok")
        BY <1>2 DEF GasClaims
      <3> QED
        BY <3>1, GoesRun
    <2>2. Handled(u) => Handled(u)'
      BY <1>1, <2>1 DEF Handled
    <2> QED
      BY <1>1, <1>2, <2>1, <2>2 DEF ClaimsHandled
  <1>3. CASE run[g].update \notin claimed
    <2>1. /\ run'[g].step = "handling" /\ run'[g].update = run[g].update
          /\ \A h \in Runs \ {g} : run'[h] = run[h]
      <3>1. RunGoes(g, "handling")
        BY <1>3 DEF GasClaims
      <3> QED
        BY <3>1, GoesRun
    <2>2. Handled(u) => Handled(u)'
      BY <1>1, <2>1 DEF Handled
    <2>3. run[g].update = u => Handled(u)'
      BY <2>1 DEF Handled
    <2> QED
      BY <1>1, <2>1, <2>2, <2>3 DEF ClaimsHandled
  <1> QED
    BY <1>2, <1>3

LEMMA GasHandlesKeepsClaims ==
    ASSUME TypeInv, NEW u \in RawUpdates, GasInv(u), ClaimsHandled(u),
           NEW g \in Runs, GasHandles(g)
    PROVE  ClaimsHandled(u)'
  <1>1. PICK v \in RawUpdates : v = run[g].update
    BY DEF GasHandles, TypeInv, RunTyped
  <1>2. /\ run[g].step = "handling" /\ RunGoes(g, "sending")
        /\ UNCHANGED <<claimed, abandoned>>
        /\ performed' = [performed EXCEPT ![v] = @ + 1]
    BY <1>1 DEF GasHandles
  <1>3. /\ run'[g].step = "sending" /\ run'[g].update = v
        /\ \A h \in Runs \ {g} : run'[h] = run[h]
    BY <1>1, <1>2, GoesRun
  <1>4. performed \in [Updates -> Nat] /\ u \in Updates /\ v \in Updates
    BY Kinds DEF TypeInv, TypeOK
  <1>5. CASE u = v
    <2>1. performed[u] = 0
      BY <1>1, <1>2, <1>5 DEF GasInv, HasClaim
    <2>2. performed'[u] = 1
      BY <1>2, <1>4, <1>5, <2>1
    <2> QED
      BY <1>2, <1>3, <2>2 DEF ClaimsHandled, Handled
  <1>6. CASE u # v
    <2>1. performed'[u] = performed[u]
      BY <1>2, <1>4, <1>6
    <2> QED
      BY <1>1, <1>2, <1>3, <1>6, <2>1, ClaimsQuiet
  <1> QED
    BY <1>5, <1>6

LEMMA GasSendsKeepsClaims ==
    ASSUME TypeInv, NEW u \in RawUpdates, GasInv(u), ClaimsHandled(u),
           NEW g \in Runs, GasSends(g)
    PROVE  ClaimsHandled(u)'
  <1>1. /\ run[g].step = "sending"
        /\ UNCHANGED <<claimed, abandoned, performed>>
        /\ run'[g].update = run[g].update
        /\ \A h \in Runs \ {g} : run'[h] = run[h]
    BY DEF GasSends, TypeInv, TypeOK
  <1>2. Handled(u) => Handled(u)'
    BY <1>1 DEF Handled
  <1>3. run[g].update = u => u \in claimed
    BY <1>1 DEF GasInv, HasClaim
  <1> QED
    BY <1>1, <1>2, <1>3 DEF ClaimsHandled

LEMMA NextKeepsClaims ==
    ASSUME TypeInv, NEW u \in RawUpdates, GasInv(u), ClaimsHandled(u),
           [Next]_vars
    PROVE  ClaimsHandled(u)'
  <1>0. u \in abandoned => u \in abandoned'
    BY AbandonedStay
  <1>1. CASE \/ \E v \in Updates : TelegramGivesUp(v)
                    \/ \E w \in Workers : Deliver(v, w)
             \/ UNCHANGED vars
    <2>1. UNCHANGED <<run, claimed, performed>>
      BY <1>1 DEF TelegramGivesUp, Deliver, vars, chatVars, gasVars
    <2> QED
      BY <1>0, <2>1, ClaimsQuiet
  <1>2. ASSUME NEW w \in Workers, Work(w) \/ WorkFails(w)
        PROVE  ClaimsHandled(u)'
    <2>1. UNCHANGED <<run, claimed>> /\ performed'[u] = performed[u]
      BY <1>2, WorkersElsewhere
    <2> QED
      BY <1>0, <2>1, ClaimsQuiet
  <1>3. ASSUME NEW m \in queue, NEW g \in Runs, Forward(m, g)
        PROVE  ClaimsHandled(u)'
    <2>1. /\ \A h \in Runs \ {g} : run'[h] = run[h]
          /\ run'[g].step = "waiting" /\ run[g].step = "idle"
          /\ UNCHANGED <<claimed, performed>>
      BY <1>3 DEF Forward, chatVars, IdleWorker, TypeInv, TypeOK
    <2> QED
      BY <1>0, <2>1, ClaimsQuiet
  <1>4. CASE Acknowledge \/ Retry \/ ForwardTimesOut
    <2>1. UNCHANGED <<claimed, performed>>
      BY <1>4 DEF Acknowledge, Retry, ForwardTimesOut, chatVars
    <2>2. PICK g \in Runs : g = consumer.run
      BY <1>4 DEF Acknowledge, Retry, ForwardTimesOut, TypeInv, TypeOK
    <2>3. \/ UNCHANGED run
          \/ /\ run' = [run EXCEPT ![g] = IdleWorker]
             /\ run[g].step \in {"ok", "dead"}
      BY <1>4, <2>2 DEF Acknowledge, Retry, ForwardTimesOut
    <2>4. \/ UNCHANGED run
          \/ /\ \A h \in Runs \ {g} : run'[h] = run[h]
             /\ run'[g].step = "idle" /\ run[g].step \in {"ok", "dead"}
      BY <2>3 DEF IdleWorker, TypeInv, TypeOK
    <2> QED
      BY <1>0, <2>1, <2>4, ClaimsQuiet
  <1>5. ASSUME NEW g \in Runs, Forget(g)
        PROVE  ClaimsHandled(u)'
    <2>1. /\ \A h \in Runs \ {g} : run'[h] = run[h]
          /\ run'[g].step = "idle" /\ run[g].step \in {"ok", "dead"}
          /\ UNCHANGED <<claimed, performed>>
      BY <1>5 DEF Forget, IdleWorker, chatVars, TypeInv, TypeOK
    <2> QED
      BY <1>0, <2>1, ClaimsQuiet
  <1>6. ASSUME NEW g \in Runs, GasFails(g) \/ GasDies(g)
        PROVE  ClaimsHandled(u)'
    <2>1. CASE run[g].update = u
      <3>1. u \in abandoned'
        BY <1>6, <2>1 DEF GasFails, GasDies, Abandon
      <3> QED
        BY <3>1 DEF ClaimsHandled
    <2>2. CASE run[g].update # u
      <3>1. UNCHANGED <<claimed, performed>>
        BY <1>6 DEF GasFails, GasDies, chatVars
      <3>2. /\ run'[g].update = run[g].update
            /\ \A h \in Runs \ {g} : run'[h] = run[h]
        BY <1>6, GoesRun DEF GasFails, GasDies
      <3> QED
        BY <1>0, <2>2, <3>1, <3>2, ClaimsQuiet
    <2> QED
      BY <2>1, <2>2
  <1> QED
    BY <1>1, <1>2, <1>3, <1>4, <1>5, <1>6, GasClaimsKeepsClaims,
       GasHandlesKeepsClaims, GasSendsKeepsClaims
    DEF Next, Execute

(* The queue gives up no message but the one that is acknowledged.         *)
LEMMA QueueKeeps ==
    ASSUME TypeInv, NEW u \in RawUpdates, InQueue(u), [Next]_vars
    PROVE  InQueue(u)' \/ (Acknowledge /\ consumer.message.update = u)
  <1>1. CASE queue \subseteq queue' /\ deadLetters \subseteq deadLetters'
    BY <1>1 DEF InQueue
  <1>2. CASE Acknowledge
    BY <1>2 DEF Acknowledge, InQueue
  <1>3. CASE Retry \/ ForwardTimesOut
    <2>1. PICK m \in Message : m = consumer.message
      BY <1>3 DEF Retry, ForwardTimesOut, TypeInv, ConsumerTyped
    <2>2. Requeue(m)
      BY <1>3, <2>1 DEF Retry, ForwardTimesOut
    <2>3. PICK n \in queue \cup deadLetters : n.update = u
      BY DEF InQueue
    <2>4. CASE n # m \/ n \in deadLetters
      BY <2>2, <2>3, <2>4 DEF Requeue, InQueue
    <2>5. CASE n = m
      <3>1. [m EXCEPT !.attempts = @ + 1].update = m.update
        BY DEF Message
      <3>2. \/ [m EXCEPT !.attempts = @ + 1] \in queue'
            \/ m \in deadLetters'
        BY <2>2 DEF Requeue
      <3> QED
        BY <2>3, <2>5, <3>1, <3>2 DEF InQueue
    <2> QED
      BY <2>4, <2>5
  <1>4. CASE UNCHANGED <<queue, deadLetters>>
    BY <1>1, <1>4
  <1>5. ASSUME NEW w \in Workers, Work(w) \/ WorkFails(w)
        PROVE  queue \subseteq queue' /\ deadLetters \subseteq deadLetters'
    BY <1>5
    DEF Work, WorkFails, Process, Claim, Publish, Send, Release, Answer,
        ProcessFails, SendFails, PublishFails, WorkerDies, PutOnQueue, gasVars
  <1>6. ASSUME NEW g \in Runs, Execute(g) \/ GasFails(g) \/ GasDies(g)
        PROVE  UNCHANGED <<queue, deadLetters>>
    BY <1>6 DEF Execute, GasClaims, GasHandles, GasSends, Forget, GasFails,
                GasDies
  <1>7. ASSUME NEW v \in Updates,
               TelegramGivesUp(v) \/ \E w \in Workers : Deliver(v, w)
        PROVE  UNCHANGED <<queue, deadLetters>>
    BY <1>7 DEF TelegramGivesUp, Deliver, gasVars
  <1>8. ASSUME NEW m \in queue, NEW g \in Runs, Forward(m, g)
        PROVE  UNCHANGED <<queue, deadLetters>>
    BY <1>8 DEF Forward
  <1>9. ASSUME UNCHANGED vars
        PROVE  UNCHANGED <<queue, deadLetters>>
    BY <1>9 DEF vars, gasVars
  <1> QED
    BY <1>1, <1>2, <1>3, <1>4, <1>5, <1>6, <1>7, <1>8, <1>9 DEF Next

(* The scripts at work on an update.                                       *)
IsAtWork(g, u) == run[g].update = u /\ run[g].step # "dead"

LEMMA AtWorkStays ==
    ASSUME NEW u, AtWork(u),
           \A g \in Runs : IsAtWork(g, u) => IsAtWork(g, u)'
    PROVE  AtWork(u)'
  BY DEF AtWork, IsAtWork

(* A script that is done leaves an update that is handled.                 *)
LEMMA DoneRunLeaves ==
    ASSUME TypeInv, NEW u \in RawUpdates, ClaimsHandled(u),
           u \notin abandoned, NEW g \in Runs,
           run[g].step = "ok", run[g].update = u,
           performed'[u] = performed[u],
           \A h \in Runs \ {g} : run'[h] = run[h]
    PROVE  Kept(u)'
  <1>1. Handled(u)
    BY DEF ClaimsHandled
  <1>2. CASE performed[u] = 1
    BY <1>2 DEF Kept
  <1>3. ASSUME NEW h \in Runs, run[h].update = u, run[h].step = "handling"
        PROVE  AtWork(u)'
    BY <1>3 DEF AtWork
  <1> QED
    BY <1>1, <1>2, <1>3 DEF Handled, Kept

(* A step that changes neither what has taken effect nor who is at work.   *)
LEMMA KeptQuiet ==
    ASSUME TypeInv, NEW u \in RawUpdates, [Next]_vars, Kept(u), ~Acknowledge,
           performed'[u] = performed[u],
           \A g \in Runs : IsAtWork(g, u) => IsAtWork(g, u)'
    PROVE  Kept(u)'
  <1>1. performed[u] = 1 => performed'[u] = 1
    OBVIOUS
  <1>2. InQueue(u) => InQueue(u)'
    BY QueueKeeps
  <1>3. AtWork(u) => AtWork(u)'
    BY AtWorkStays
  <1> QED
    BY <1>1, <1>2, <1>3 DEF Kept

LEMMA ConsumerKeepsKept ==
    ASSUME TypeInv, NEW u \in RawUpdates, [Next]_vars, ClaimsHandled(u),
           u \notin abandoned, Kept(u),
           Acknowledge \/ Retry \/ ForwardTimesOut
    PROVE  Kept(u)'
  <1>1. PICK g \in Runs : g = consumer.run
    BY DEF Acknowledge, Retry, ForwardTimesOut, TypeInv, TypeOK
  <1>2. UNCHANGED performed
    BY DEF Acknowledge, Retry, ForwardTimesOut, chatVars
  <1>3. CASE Acknowledge
    <2>1. /\ run[g].step = "ok" /\ run[g].update = consumer.message.update
          /\ run' = [run EXCEPT ![g] = IdleWorker]
      BY <1>1, <1>3 DEF Acknowledge, TypeInv, ConsumerTyped
    <2>2. \A h \in Runs \ {g} : run'[h] = run[h]
      BY <2>1 DEF TypeInv, TypeOK
    <2>3. CASE run[g].update = u
      BY <1>2, <2>1, <2>2, <2>3, DoneRunLeaves
    <2>4. CASE run[g].update # u
      <3>1. InQueue(u) => InQueue(u)'
        BY <2>1, <2>4, QueueKeeps
      <3>2. AtWork(u) => AtWork(u)'
        BY <2>2, <2>4 DEF AtWork
      <3> QED
        BY <1>2, <3>1, <3>2 DEF Kept
    <2> QED
      BY <2>3, <2>4
  <1>4. CASE ~Acknowledge
    <2>1. \/ UNCHANGED run
          \/ run[g].step = "dead" /\ run' = [run EXCEPT ![g] = IdleWorker]
      BY <1>1, <1>4 DEF Retry, ForwardTimesOut
    <2>2. \A h \in Runs : IsAtWork(h, u) => IsAtWork(h, u)'
      <3>1. CASE UNCHANGED run
        BY <3>1 DEF IsAtWork
      <3>2. CASE /\ run[g].step = "dead"
                 /\ run' = [run EXCEPT ![g] = IdleWorker]
        <4>1. \A h \in Runs \ {g} : run'[h] = run[h]
          BY <3>2 DEF TypeInv, TypeOK
        <4> QED
          BY <3>2, <4>1 DEF IsAtWork
      <3> QED
        BY <2>1, <3>1, <3>2
    <2> QED
      BY <1>2, <1>4, <2>2, KeptQuiet
  <1> QED
    BY <1>3, <1>4

LEMMA ScriptKeepsKept ==
    ASSUME TypeInv, NEW u \in RawUpdates, [Next]_vars, ~Acknowledge,
           GasInv(u), ClaimsHandled(u),
           u \notin abandoned, u \notin abandoned', Kept(u),
           NEW g \in Runs, Execute(g) \/ GasFails(g) \/ GasDies(g)
    PROVE  Kept(u)'
  <1>1. CASE GasClaims(g) \/ GasFails(g)
    <2>1. UNCHANGED performed
      BY <1>1 DEF GasClaims, GasFails, chatVars
    <2>2. /\ run'[g].step # "dead" /\ run'[g].update = run[g].update
          /\ \A h \in Runs \ {g} : run'[h] = run[h]
      BY <1>1, GoesRun DEF GasClaims, GasFails
    <2>3. \A h \in Runs : IsAtWork(h, u) => IsAtWork(h, u)'
      BY <2>2 DEF IsAtWork
    <2> QED
      BY <2>1, <2>3, KeptQuiet
  <1>2. CASE GasHandles(g)
    <2>1. PICK v \in RawUpdates : v = run[g].update
      BY <1>2 DEF GasHandles, TypeInv, RunTyped
    <2>2. /\ run'[g].step = "sending" /\ run'[g].update = v
          /\ \A h \in Runs \ {g} : run'[h] = run[h]
          /\ performed' = [performed EXCEPT ![v] = @ + 1]
      BY <1>2, <2>1, GoesRun DEF GasHandles
    <2>3. CASE v = u
      BY <2>2, <2>3 DEF Kept, AtWork
    <2>4. CASE v # u
      <3>1. performed'[u] = performed[u]
        BY <2>1, <2>2, <2>4, Kinds DEF TypeInv, TypeOK
      <3>2. \A h \in Runs : IsAtWork(h, u) => IsAtWork(h, u)'
        BY <2>1, <2>2, <2>4 DEF IsAtWork
      <3> QED
        BY <3>1, <3>2, KeptQuiet
    <2> QED
      BY <2>3, <2>4
  <1>3. CASE GasSends(g)
    <2>1. /\ UNCHANGED performed
          /\ run'[g].update = run[g].update /\ run'[g].step # "dead"
          /\ \A h \in Runs \ {g} : run'[h] = run[h]
      BY <1>3 DEF GasSends, TypeInv, TypeOK
    <2>2. \A h \in Runs : IsAtWork(h, u) => IsAtWork(h, u)'
      BY <2>1 DEF IsAtWork
    <2> QED
      BY <2>1, <2>2, KeptQuiet
  <1>4. CASE GasDies(g)
    <2>1. UNCHANGED performed /\ run[g].update # u
      BY <1>4 DEF GasDies, chatVars, Abandon
    <2>2. \A h \in Runs \ {g} : run'[h] = run[h]
      BY <1>4, GoesRun DEF GasDies
    <2>3. \A h \in Runs : IsAtWork(h, u) => IsAtWork(h, u)'
      BY <2>1, <2>2 DEF IsAtWork
    <2> QED
      BY <2>1, <2>3, KeptQuiet
  <1>5. CASE Forget(g)
    <2>1. /\ UNCHANGED performed /\ run[g].step \in {"ok", "dead"}
          /\ \A h \in Runs \ {g} : run'[h] = run[h]
      BY <1>5 DEF Forget, chatVars, TypeInv, TypeOK
    <2>2. CASE run[g].step = "ok" /\ run[g].update = u
      BY <2>1, <2>2, DoneRunLeaves
    <2>3. CASE run[g].step = "dead" \/ run[g].update # u
      <3>1. \A h \in Runs : IsAtWork(h, u) => IsAtWork(h, u)'
        BY <2>1, <2>3 DEF IsAtWork
      <3> QED
        BY <2>1, <3>1, KeptQuiet
    <2> QED
      BY <2>1, <2>2, <2>3
  <1> QED
    BY <1>1, <1>2, <1>3, <1>4, <1>5 DEF Execute

LEMMA NextKeepsKept ==
    ASSUME TypeInv, NEW u \in RawUpdates, [Next]_vars,
           GasInv(u), ClaimsHandled(u), u \notin abandoned', Kept(u)
    PROVE  Kept(u)'
  <1>0. u \notin abandoned
    BY AbandonedStay
  <1>1. CASE Acknowledge \/ Retry \/ ForwardTimesOut
    BY <1>0, <1>1, ConsumerKeepsKept
  <1>2. CASE ~Acknowledge
    <2>1. CASE \/ \E v \in Updates : TelegramGivesUp(v)
                      \/ \E w \in Workers : Deliver(v, w)
               \/ UNCHANGED vars
      <3>1. UNCHANGED <<run, performed>>
        BY <2>1 DEF TelegramGivesUp, Deliver, vars, chatVars, gasVars
      <3> QED
        BY <1>2, <3>1, KeptQuiet DEF IsAtWork
    <2>2. ASSUME NEW w \in Workers, Work(w) \/ WorkFails(w)
          PROVE  Kept(u)'
      <3>1. UNCHANGED run /\ performed'[u] = performed[u]
        BY <2>2, WorkersElsewhere
      <3> QED
        BY <1>2, <3>1, KeptQuiet DEF IsAtWork
    <2>3. ASSUME NEW m \in queue, NEW g \in Runs, Forward(m, g)
          PROVE  Kept(u)'
      <3>1. /\ \A h \in Runs \ {g} : run'[h] = run[h]
            /\ run[g].update = None
            /\ UNCHANGED performed
        BY <2>3 DEF Forward, chatVars, IdleWorker, TypeInv, TypeOK
      <3>2. u # None
        BY Kinds, NoneIsNothing
      <3>3. \A h \in Runs : IsAtWork(h, u) => IsAtWork(h, u)'
        BY <3>1, <3>2 DEF IsAtWork
      <3> QED
        BY <1>2, <3>1, <3>3, KeptQuiet
    <2> QED
      BY <1>0, <1>1, <1>2, <2>1, <2>2, <2>3, ScriptKeepsKept DEF Next
  <1> QED
    BY <1>1, <1>2

(* A Worker is done with an update for Apps Script when it is on the queue. *)
LEMMA OkMeansPublished ==
    ASSUME TypeInv, NEW u \in RawUpdates, NEW w \in Workers,
           Work(w) \/ WorkFails(w), NEW v \in Workers,
           worker'[v].update = u, worker'[v].step = "ok"
    PROVE  InQueue(u)' \/ worker[v] = worker'[v]
  <1>1. CASE v # w
    <2>1. ASSUME NEW step \in {"sending", "releasing", "ok", "error"},
                 WorkerGoes(w, step)
          PROVE  worker[v] = worker'[v]
      BY <1>1, <2>1, GoesEffect DEF Alone
    <2>2. CASE worker' = [worker EXCEPT ![w] = IdleWorker]
      BY <1>1, <2>2, StopEffect DEF Alone
    <2>3. CASE Send(w)
      BY <1>1, <2>3 DEF Send, TypeInv, TypeOK
    <2> QED
      BY <2>1, <2>2, <2>3
      DEF Work, WorkFails, Process, Claim, Publish, Release, Answer,
          ProcessFails, SendFails, PublishFails, WorkerDies
  <1>2. CASE v = w
    <2>1. CASE Publish(w) \/ PublishFails(w)
      <3>1. CASE Publish(w)
        <4>1. worker[w].update = u /\ PutOnQueue(u)
          <5>1. WorkerGoes(w, "ok")
            BY <3>1 DEF Publish
          <5>2. worker[w].update = u
            BY <1>2, <5>1, GoesEffect
          <5> QED
            BY <3>1, <5>2 DEF Publish
        <4>2. [update |-> u, copy |-> telegram[u].tries, attempts |-> 1]
                  \in queue'
          BY <4>1 DEF PutOnQueue
        <4> QED
          BY <4>2 DEF InQueue
      <3>2. CASE PublishFails(w)
        <4>1. WorkerGoes(w, "error")
          BY <3>2 DEF PublishFails
        <4> QED
          BY <1>2, <4>1, GoesEffect
      <3> QED
        BY <2>1, <3>1, <3>2
    <2>2. CASE Process(w) \/ ProcessFails(w) \/ Release(w) \/ SendFails(w)
      <3>1. PICK step \in {"sending", "releasing", "error"} :
                WorkerGoes(w, step)
        BY <2>2 DEF Process, ProcessFails, Release, SendFails
      <3> QED
        BY <1>2, <3>1, GoesEffect
    <2>3. CASE Claim(w)
      <3>1. PICK step \in {"sending", "ok"} : WorkerGoes(w, step)
        BY <2>3 DEF Claim
      <3>2. worker[w].update = u /\ worker[w].update \in QrUpdates
        BY <1>2, <2>3, <3>1, GoesEffect DEF Claim
      <3> QED
        BY <3>2, Kinds
    <2>4. CASE Send(w)
      <3>1. worker'[w].update = worker[w].update
        BY <2>4 DEF Send, TypeInv, TypeOK
      <3>2. worker[w].update \in FastUpdates \cup QrUpdates
        BY <2>4 DEF Send, TypeInv, WorkerTyped
      <3> QED
        BY <1>2, <3>1, <3>2, Kinds
    <2>5. CASE Answer(w) \/ WorkerDies(w)
      BY <1>2, <2>5, StopEffect DEF Answer, WorkerDies
    <2> QED
      BY <2>1, <2>2, <2>3, <2>4, <2>5 DEF Work, WorkFails
  <1> QED
    BY <1>1, <1>2

(* What is answered 200 was answered by a Worker that is done with it.     *)
LEMMA AckedMeansOk ==
    ASSUME TypeInv, NEW u \in Updates, [Next]_vars, telegram'[u].acked
    PROVE  \/ telegram[u].acked
           \/ \E w \in Workers :
                  worker[w].update = u /\ worker[w].step = "ok"
  <1>1. telegram \in [Updates -> Delivery]
    BY DEF TypeInv, TypeOK, Delivery
  <1>2. CASE UNCHANGED telegram
    BY <1>2
  <1>3. ASSUME NEW v \in Updates, NEW w \in Workers, Deliver(v, w)
        PROVE  telegram[u].acked
    <2>1. telegram'[u].acked = telegram[u].acked
      BY <1>1, <1>3 DEF Deliver, Delivery
    <2> QED
      BY <2>1
  <1>4. ASSUME NEW v \in Updates,
               telegram' = [telegram EXCEPT ![v].waits = None]
        PROVE  telegram[u].acked
    <2>1. telegram'[u].acked = telegram[u].acked
      BY <1>1, <1>4 DEF Delivery
    <2> QED
      BY <2>1
  <1>5. ASSUME NEW w \in Workers, Answer(w)
        PROVE  telegram[u].acked
                   \/ (worker[w].update = u /\ worker[w].step = "ok")
    <2>1. CASE UNCHANGED telegram
      BY <2>1
    <2>2. CASE Waited(w)
      <3> DEFINE a == worker[w].step = "ok"
      <3>1. PICK v \in Updates : v = worker[w].update
        BY <1>5 DEF Answer, TypeInv, WorkerTyped
      <3>2. telegram' = [telegram EXCEPT ![v].waits = None, ![v].acked = a]
        BY <1>5, <2>2, <3>1 DEF Answer
      <3> HIDE DEF a
      <3>3. CASE v = u
        <4>1. telegram'[u].acked = a
          BY <1>1, <3>2, <3>3 DEF Delivery
        <4> QED
          BY <3>1, <3>3, <4>1 DEF a
      <3>4. CASE v # u
        <4>1. telegram'[u] = telegram[u]
          BY <1>1, <3>2, <3>4
        <4> QED
          BY <4>1
      <3> QED
        BY <3>3, <3>4
    <2> QED
      BY <1>5, <2>1, <2>2 DEF Answer
  <1>6. ASSUME NEW w \in Workers, WorkerDies(w)
        PROVE  telegram[u].acked
    <2>1. PICK v \in Updates : v = worker[w].update
      BY <1>6 DEF WorkerDies, TypeInv, WorkerTyped
    <2>2. UNCHANGED telegram
             \/ telegram' = [telegram EXCEPT ![v].waits = None]
      BY <1>6, <2>1 DEF WorkerDies
    <2> QED
      BY <1>4, <2>2
  <1>7. ASSUME NEW w \in Workers, Work(w) \/ WorkFails(w)
        PROVE  UNCHANGED telegram \/ Answer(w) \/ WorkerDies(w)
    BY <1>7 DEF Work, WorkFails, Process, Claim, Publish, Send, Release,
                ProcessFails, SendFails, PublishFails
  <1>8. ASSUME ScriptStep \/ UNCHANGED vars
        PROVE  UNCHANGED telegram
    BY <1>8
    DEF ScriptStep, Execute, Forward, Acknowledge, Retry, ForwardTimesOut,
        GasClaims, GasHandles, GasSends, Forget, GasFails, GasDies, edgeVars,
        vars
  <1>9. ASSUME NEW v \in Updates, TelegramGivesUp(v)
        PROVE  telegram[u].acked
    BY <1>4, <1>9 DEF TelegramGivesUp
  <1> QED
    BY <1>2, <1>3, <1>5, <1>6, <1>7, <1>8, <1>9 DEF Next, ScriptStep

LEMMA NextKeepsAnswers ==
    ASSUME TypeInv, NEW u \in RawUpdates, [Next]_vars,
           GasInv(u), ClaimsHandled(u), AnswersKept(u)
    PROVE  AnswersKept(u)'
  <1> SUFFICES ASSUME u \notin abandoned'
               PROVE  /\ \A w \in Workers :
                             worker'[w].update = u /\ worker'[w].step = "ok"
                                 => Kept(u)'
                      /\ telegram'[u].acked => Kept(u)'
    BY DEF AnswersKept
  <1>1. u \notin abandoned /\ (Kept(u) => Kept(u)')
    BY AbandonedStay, NextKeepsKept
  <1>2. ASSUME NEW w \in Workers, worker'[w].update = u,
               worker'[w].step = "ok"
        PROVE  Kept(u)'
    <2>1. CASE worker'[w] = worker[w]
      BY <1>1, <1>2, <2>1 DEF AnswersKept
    <2>2. CASE worker'[w] # worker[w]
      <3>1. ASSUME NEW v \in Workers, Work(v) \/ WorkFails(v)
            PROVE  Kept(u)'
        BY <1>2, <2>2, <3>1, OkMeansPublished DEF Kept
      <3>2. ASSUME NEW x \in Updates, NEW v \in Workers, Deliver(x, v)
            PROVE  FALSE
        BY <1>2, <2>2, <3>2 DEF Deliver, TypeInv, TypeOK
      <3>3. ASSUME \/ \E x \in Updates : TelegramGivesUp(x)
                   \/ ScriptStep \/ UNCHANGED vars
            PROVE  UNCHANGED worker
        BY <3>3
        DEF ScriptStep, Execute, Forward, Acknowledge, Retry,
            ForwardTimesOut, GasClaims, GasHandles, GasSends, Forget,
            GasFails, GasDies, TelegramGivesUp, edgeVars, vars
      <3> QED
        BY <2>2, <3>1, <3>2, <3>3 DEF Next, ScriptStep
    <2> QED
      BY <2>1, <2>2
  <1>3. ASSUME telegram'[u].acked
        PROVE  Kept(u)'
    <2>1. \/ telegram[u].acked
          \/ \E w \in Workers : worker[w].update = u /\ worker[w].step = "ok"
      BY <1>3, Kinds, AckedMeansOk
    <2> QED
      BY <1>1, <2>1 DEF AnswersKept
  <1> QED
    BY <1>2, <1>3

-----------------------------------------------------------------------------
(* A claim also stands for the replies: they have all been received, or    *)
(* the script that handles the update has sent them up to where it is.     *)

Replying(g, u) ==
    HasClaim(g, u) /\ \A i \in 1 .. run[g].sent : received[u][i] > 0

ClaimsAnswered(u) ==
    u \in claimed /\ u \notin abandoned =>
        Answered(u) \/ \E g \in Runs : Replying(g, u)

(* A step that neither claims the update, nor stops a script that replies. *)
LEMMA AnsweredQuiet ==
    ASSUME NEW u \in RawUpdates, ClaimsAnswered(u),
           u \in abandoned => u \in abandoned',
           u \in claimed' => u \in claimed,
           received'[u] = received[u],
           \A g \in Runs : HasClaim(g, u) => run'[g] = run[g]
    PROVE  ClaimsAnswered(u)'
  <1>1. Answered(u) => Answered(u)'
    BY DEF Answered
  <1>2. \A g \in Runs : Replying(g, u) => Replying(g, u)'
    BY DEF Replying, HasClaim
  <1> QED
    BY <1>1, <1>2 DEF ClaimsAnswered

LEMMA GasClaimsKeepsAnswered ==
    ASSUME TypeInv, NEW u \in RawUpdates, ClaimsAnswered(u),
           NEW g \in Runs, GasClaims(g)
    PROVE  ClaimsAnswered(u)'
  <1>1. /\ run[g].step = "waiting" /\ run[g].sent = 0
        /\ UNCHANGED <<received, abandoned>>
        /\ claimed' = claimed \cup {run[g].update}
        /\ run'[g].update = run[g].update /\ run'[g].sent = run[g].sent
        /\ run'[g].step = IF run[g].update \in claimed THEN "ok"
                                                       ELSE "handling"
        /\ \A h \in Runs \ {g} : run'[h] = run[h]
    BY DEF GasClaims, RunGoes, chatVars, TypeInv, TypeOK, RunTyped
  <1>2. ~HasClaim(g, u)
    BY <1>1 DEF HasClaim
  <1>3. CASE run[g].update = u /\ u \notin claimed
    <2>1. HasClaim(g, u)' /\ run'[g].sent = 0
      BY <1>1, <1>3 DEF HasClaim
    <2> QED
      BY <2>1 DEF Replying, ClaimsAnswered
  <1>4. CASE run[g].update # u \/ u \in claimed
    BY <1>1, <1>2, <1>4, AnsweredQuiet DEF HasClaim
  <1> QED
    BY <1>3, <1>4

LEMMA GasHandlesKeepsAnswered ==
    ASSUME TypeInv, NEW u \in RawUpdates, ClaimsAnswered(u),
           NEW g \in Runs, GasHandles(g)
    PROVE  ClaimsAnswered(u)'
  <1>1. /\ UNCHANGED <<received, claimed, abandoned>>
        /\ run'[g].update = run[g].update /\ run'[g].sent = run[g].sent
        /\ run'[g].step = "sending"
        /\ \A h \in Runs \ {g} : run'[h] = run[h]
    BY DEF GasHandles, RunGoes, TypeInv, TypeOK
  <1>2. Answered(u) => Answered(u)'
    BY <1>1 DEF Answered
  <1>3. \A h \in Runs : Replying(h, u) => Replying(h, u)'
    BY <1>1 DEF Replying, HasClaim
  <1> QED
    BY <1>1, <1>2, <1>3 DEF ClaimsAnswered

LEMMA GasSendsKeepsAnswered ==
    ASSUME TypeInv, NEW u \in RawUpdates, ClaimsAnswered(u),
           NEW g \in Runs, GasSends(g)
    PROVE  ClaimsAnswered(u)'
  <1>1. PICK v \in RawUpdates, i \in 1 .. Replies :
            v = run[g].update /\ i = run[g].sent + 1
    <2>1. /\ run[g].update \in RawUpdates
          /\ run[g].sent \in 0 .. Replies /\ run[g].sent < Replies
      BY DEF GasSends, TypeInv, TypeOK, RunTyped
    <2>2. run[g].sent + 1 \in 1 .. Replies
      BY <2>1, RepliesPositive
    <2> QED
      BY <2>1, <2>2
  <1>2. /\ UNCHANGED <<claimed, abandoned>>
        /\ received' = [received EXCEPT ![v][i] = @ + 1]
        /\ run[g].sent \in Nat
        /\ received \in [Updates -> [1 .. Replies -> Nat]]
        /\ u \in Updates /\ v \in Updates
    BY <1>1, Kinds DEF GasSends, TypeInv, TypeOK
  <1>3. /\ \A h \in Runs \ {g} : run'[h] = run[h]
        /\ run'[g].step = IF i = Replies THEN "ok" ELSE "sending"
        /\ run'[g].update = v /\ run'[g].sent = i
    <2> DEFINE next == IF i = Replies THEN "ok" ELSE "sending"
    <2>1. run' = [run EXCEPT ![g].step = next, ![g].sent = i]
      BY <1>1 DEF GasSends
    <2>2. next \in {"sending", "ok"} /\ i \in 0 .. Replies
             /\ run \in [Runs -> Execution]
      BY <1>1 DEF TypeInv, TypeOK, Execution
    <2>3. /\ \A h \in Runs \ {g} : run'[h] = run[h]
          /\ run'[g].step = next
          /\ run'[g].update = v /\ run'[g].sent = i
      <3> HIDE DEF next
      <3> QED
        BY <1>1, <2>1, <2>2, RunGoesFurther
    <2> QED
      BY <2>3
  <1>4. /\ \A x \in Updates \ {v} : received'[x] = received[x]
        /\ received'[v][i] = received[v][i] + 1
        /\ \A j \in 1 .. Replies \ {i} : received'[v][j] = received[v][j]
    BY <1>2, OneMoreReply
  <1>5. \A j \in 1 .. Replies : received[u][j] > 0 => received'[u][j] > 0
    <2>1. ASSUME NEW j \in 1 .. Replies, received[u][j] > 0
          PROVE  received'[u][j] > 0
      <3>1. received[u][j] \in Nat
        BY <1>2, ReplyTypes
      <3> QED
        BY <1>2, <1>4, <2>1, <3>1
    <2> QED
      BY <2>1
  <1>6. Answered(u) => Answered(u)'
    BY <1>5 DEF Answered
  <1>7. ASSUME NEW h \in Runs, Replying(h, u)
        PROVE  Answered(u)' \/ Replying(h, u)'
    <2>1. CASE h # g
      <3>1. run'[h] = run[h] /\ run[h].sent \in 0 .. Replies
        BY <1>3, <2>1 DEF TypeInv, TypeOK
      <3>2. \A j \in 1 .. run[h].sent : received'[u][j] > 0
        BY <1>5, <1>7, <3>1, RepliesPositive DEF Replying
      <3> QED
        BY <1>7, <3>1, <3>2 DEF Replying, HasClaim
    <2>2. CASE h = g
      <3>1. u = v
        BY <1>1, <1>7, <2>2 DEF Replying, HasClaim
      <3>2. \A j \in 1 .. i : received'[u][j] > 0
        <4>1. received[v][i] \in Nat
          BY <1>1, <1>2, ReplyTypes
        <4>2. received'[u][i] > 0
          BY <1>4, <3>1, <4>1
        <4>3. ASSUME NEW j \in 1 .. i, j # i
              PROVE  received'[u][j] > 0
          <5>1. j \in 1 .. run[g].sent /\ j \in 1 .. Replies
            BY <1>1, <1>2, <4>3, RepliesPositive
          <5> QED
            BY <1>5, <1>7, <2>2, <5>1 DEF Replying
        <4> QED
          BY <4>2, <4>3
      <3>3. CASE i = Replies
        BY <3>2, <3>3 DEF Answered
      <3>4. CASE i # Replies
        BY <1>3, <3>1, <3>2, <3>4, <2>2 DEF Replying, HasClaim
      <3> QED
        BY <3>3, <3>4
    <2> QED
      BY <2>1, <2>2
  <1> QED
    BY <1>2, <1>6, <1>7 DEF ClaimsAnswered

LEMMA NextKeepsAnswered ==
    ASSUME TypeInv, NEW u \in RawUpdates, ClaimsAnswered(u), [Next]_vars
    PROVE  ClaimsAnswered(u)'
  <1>0. u \in abandoned => u \in abandoned'
    BY AbandonedStay
  <1>1. CASE \/ \E v \in Updates : TelegramGivesUp(v)
                    \/ \E w \in Workers : Deliver(v, w)
             \/ UNCHANGED vars
    <2>1. UNCHANGED <<run, claimed, received>>
      BY <1>1 DEF TelegramGivesUp, Deliver, vars, chatVars, gasVars
    <2> QED
      BY <1>0, <2>1, AnsweredQuiet
  <1>2. ASSUME NEW w \in Workers, Work(w) \/ WorkFails(w)
        PROVE  ClaimsAnswered(u)'
    <2>1. UNCHANGED <<run, claimed>> /\ received'[u] = received[u]
      BY <1>2, WorkersElsewhere
    <2> QED
      BY <1>0, <2>1, AnsweredQuiet
  <1>3. ASSUME NEW m \in queue, NEW g \in Runs, Forward(m, g)
        PROVE  ClaimsAnswered(u)'
    <2>1. /\ \A h \in Runs \ {g} : run'[h] = run[h]
          /\ ~HasClaim(g, u) /\ UNCHANGED <<claimed, received>>
      BY <1>3 DEF Forward, chatVars, IdleWorker, TypeInv, TypeOK, HasClaim
    <2> QED
      BY <1>0, <2>1, AnsweredQuiet
  <1>4. CASE Acknowledge \/ Retry \/ ForwardTimesOut
    <2>1. UNCHANGED <<claimed, received>>
      BY <1>4 DEF Acknowledge, Retry, ForwardTimesOut, chatVars
    <2>2. PICK g \in Runs : g = consumer.run
      BY <1>4 DEF Acknowledge, Retry, ForwardTimesOut, TypeInv, TypeOK
    <2>3. \/ UNCHANGED run
          \/ /\ run' = [run EXCEPT ![g] = IdleWorker]
             /\ run[g].step \in {"ok", "dead"}
      BY <1>4, <2>2 DEF Acknowledge, Retry, ForwardTimesOut
    <2>4. \/ UNCHANGED run
          \/ /\ \A h \in Runs \ {g} : run'[h] = run[h]
             /\ ~HasClaim(g, u)
      BY <2>3 DEF HasClaim, TypeInv, TypeOK
    <2> QED
      BY <1>0, <2>1, <2>4, AnsweredQuiet
  <1>5. ASSUME NEW g \in Runs, Forget(g)
        PROVE  ClaimsAnswered(u)'
    <2>1. /\ \A h \in Runs \ {g} : run'[h] = run[h]
          /\ ~HasClaim(g, u) /\ UNCHANGED <<claimed, received>>
      BY <1>5 DEF Forget, chatVars, TypeInv, TypeOK, HasClaim
    <2> QED
      BY <1>0, <2>1, AnsweredQuiet
  <1>6. ASSUME NEW g \in Runs, GasFails(g) \/ GasDies(g)
        PROVE  ClaimsAnswered(u)'
    <2>1. CASE run[g].update = u
      <3>1. u \in abandoned'
        BY <1>6, <2>1 DEF GasFails, GasDies, Abandon
      <3> QED
        BY <3>1 DEF ClaimsAnswered
    <2>2. CASE run[g].update # u
      <3>1. UNCHANGED <<claimed, received>>
        BY <1>6 DEF GasFails, GasDies, chatVars
      <3>2. \A h \in Runs \ {g} : run'[h] = run[h]
        BY <1>6, GoesRun DEF GasFails, GasDies
      <3> QED
        BY <1>0, <2>2, <3>1, <3>2, AnsweredQuiet DEF HasClaim
    <2> QED
      BY <2>1, <2>2
  <1> QED
    BY <1>1, <1>2, <1>3, <1>4, <1>5, <1>6, GasClaimsKeepsAnswered,
       GasHandlesKeepsAnswered, GasSendsKeepsAnswered
    DEF Next, Execute

KeptInv ==
    /\ OnceInv
    /\ \A u \in RawUpdates :
          ClaimsHandled(u) /\ AnswersKept(u) /\ ClaimsAnswered(u)

LEMMA InitKept == Init => KeptInv
  <1> SUFFICES ASSUME Init PROVE KeptInv
    OBVIOUS
  <1>1. ASSUME NEW u \in RawUpdates
        PROVE  ClaimsHandled(u) /\ AnswersKept(u) /\ ClaimsAnswered(u)
    <2>1. telegram[u].acked = FALSE
      BY Kinds DEF Init
    <2>2. /\ \A w \in Workers : worker[w].step = "idle"
          /\ \A g \in Runs : run[g].step = "idle"
          /\ claimed = {}
      BY DEF Init, IdleWorker
    <2> QED
      BY <2>1, <2>2 DEF ClaimsHandled, AnswersKept, ClaimsAnswered
  <1> QED
    BY <1>1, InitOnce DEF KeptInv

LEMMA NextKeepsAll == KeptInv /\ [Next]_vars => KeptInv'
  <1> SUFFICES ASSUME KeptInv, [Next]_vars PROVE KeptInv'
    OBVIOUS
  <1>1. TypeInv /\ \A u \in RawUpdates : GasInv(u)
    BY DEF KeptInv, OnceInv
  <1>2. ASSUME NEW u \in RawUpdates
        PROVE  ClaimsHandled(u)' /\ AnswersKept(u)' /\ ClaimsAnswered(u)'
    BY <1>1, NextKeepsClaims, NextKeepsAnswers, NextKeepsAnswered DEF KeptInv
  <1> QED
    BY <1>2, NextKeepsOnce DEF KeptInv

(* What has taken effect was claimed, so that its replies were sent, or    *)
(* its script is at work.                                                  *)
LEMMA KeptImplies == KeptInv => NoUpdateIsDropped
  <1> SUFFICES ASSUME KeptInv, NEW u \in RawUpdates,
                      telegram[u].acked, u \notin abandoned
               PROVE  \/ performed[u] = 1 /\ Answered(u)
                      \/ AtWork(u) \/ InQueue(u)
    BY DEF NoUpdateIsDropped, InQueue
  <1>1. Kept(u) /\ GasInv(u) /\ ClaimsAnswered(u)
    BY DEF KeptInv, OnceInv, AnswersKept
  <1>2. performed[u] = 1 => u \in claimed
    BY <1>1 DEF GasInv
  <1>3. \A g \in Runs : Replying(g, u) => AtWork(u)
    BY DEF Replying, HasClaim, AtWork
  <1> QED
    BY <1>1, <1>2, <1>3 DEF Kept, ClaimsAnswered

(* An update that Telegram has been answered 200 for has taken effect and  *)
(* all its replies were sent, or it is on its way in the queue or a        *)
(* script, or is among the dead letters; unless a script gave up on it,    *)
(* died, or could not have the lock, or its Worker died or was not waited  *)
(* for.                                                                    *)
THEOREM UpdatesAreKept == Spec => []NoUpdateIsDropped
  BY InitKept, NextKeepsAll, KeptImplies, PTL DEF Spec
=============================================================================
