--------------------------- MODULE UpdateDelivery ---------------------------
(***************************************************************************)
(* The way of an update from Telegram to its replies.  The gateway Worker  *)
(* (telegram-gateway/src/index.ts) lets the chat's object process an       *)
(* update and sends the replies one by one; or answers a request for the   *)
(* payment QR itself, under a claim that the object keeps; or, when the    *)
(* fast path is off, puts the update on a Cloudflare queue, from where its *)
(* consumer posts it to doPost of webhook.gs on Apps Script.               *)
(*                                                                         *)
(* Telegram delivers an update again until it is answered 200.  A send may *)
(* fail, or its answer be lost; a Worker or a script may die between two   *)
(* steps; Telegram and the consumer stop waiting while the other side goes *)
(* on; the script lock may not be had in time.                             *)
(*                                                                         *)
(* Abstracted data: an update is what the domain does with it (once: see   *)
(* TelegramSession) and a number of replies.  The clock is left out.       *)
(***************************************************************************)
EXTENDS Naturals, FiniteSets

CONSTANTS
    FastUpdates,    \* for the object of the chat
    QrUpdates,      \* /thanhtoan
    RawUpdates,     \* for Apps Script
    Replies,        \* replies to each
    Workers,        \* invocations of the Worker
    Runs,           \* executions of doPost
    None,           \* no Worker, no run, no update
    MaxTries,       \* bound: deliveries of one update
    MaxAttempts,    \* attempts of the queue before the dead letter queue
    MaxFaults       \* bound: faults of any kind

Updates == FastUpdates \cup QrUpdates \cup RawUpdates

(* A publication whose answer is lost puts an update on the queue twice.   *)
Message == [update: RawUpdates, copy: 1 .. MaxTries, attempts: 1 .. MaxAttempts]

ASSUME DeliveryAssumption ==
    /\ FastUpdates \cap QrUpdates = {} /\ FastUpdates \cap RawUpdates = {}
    /\ QrUpdates \cap RawUpdates = {}
    /\ None \notin Updates \cup Workers \cup Runs \cup Message
    /\ Replies \in Nat \ {0} /\ MaxAttempts \in Nat \ {0}
    /\ MaxTries \in Nat /\ MaxFaults \in Nat

VARIABLES
    telegram,     \* telegram[u]: deliveries so far, whether one was
                  \* answered 200, and the Worker Telegram waits for
    worker,       \* worker[w]: one invocation of the Worker
    processed,    \* processed_updates of the chats' objects
    performed,    \* performed[u]: times the domain has handled u
    received,     \* received[u][i]: times the chat has got reply i
    failed,       \* failed[u]: history: sends of a reply to u that failed
    queue,        \* messages of TELEGRAM_UPDATES
    deadLetters,  \* messages of TELEGRAM_DLQ
    consumer,     \* the message being forwarded, and the run it waits for
    run,          \* run[g]: one execution of doPost
    claimed,      \* the sheet ProcessedUpdates
    abandoned,    \* history: updates whose Worker or script died or was not
                  \* waited for, or whose script had no lock or threw
    faults        \* how many faults have happened, for the bound

edgeVars == <<telegram, worker, processed>>
chatVars == <<performed, received, failed>>
gasVars  == <<queue, deadLetters, consumer, run, claimed>>
vars     == <<edgeVars, chatVars, gasVars, abandoned, faults>>

IdleWorker == [step |-> "idle", update |-> None, sent |-> 0]

IdleConsumer == [message |-> None, run |-> None]

TypeOK ==
    /\ telegram \in [Updates -> [tries: 0 .. MaxTries, acked: BOOLEAN,
                                 waits: Workers \cup {None}]]
    /\ worker \in [Workers ->
           [step: {"idle", "routing", "sending", "releasing", "ok", "error"},
            update: Updates \cup {None}, sent: 0 .. Replies]]
    /\ processed \subseteq FastUpdates \cup QrUpdates
    /\ performed \in [Updates -> Nat]
    /\ received \in [Updates -> [1 .. Replies -> Nat]]
    /\ failed \in [Updates -> Nat]
    /\ queue \subseteq Message /\ deadLetters \subseteq Message
    /\ consumer \in [message: Message \cup {None}, run: Runs \cup {None}]
    /\ run \in [Runs ->
           [step: {"idle", "waiting", "handling", "sending", "ok", "dead"},
            update: RawUpdates \cup {None}, sent: 0 .. Replies]]
    /\ claimed \subseteq RawUpdates
    /\ abandoned \subseteq Updates
    /\ faults \in Nat

Init ==
    /\ telegram = [u \in Updates |->
                      [tries |-> 0, acked |-> FALSE, waits |-> None]]
    /\ worker = [w \in Workers |-> IdleWorker]
    /\ processed = {}
    /\ performed = [u \in Updates |-> 0]
    /\ received = [u \in Updates |-> [i \in 1 .. Replies |-> 0]]
    /\ failed = [u \in Updates |-> 0]
    /\ queue = {} /\ deadLetters = {} /\ consumer = IdleConsumer
    /\ run = [g \in Runs |-> IdleWorker]
    /\ claimed = {}
    /\ abandoned = {}
    /\ faults = 0

Fails ==
    /\ faults < MaxFaults                                          \* bound
    /\ faults' = faults + 1

Abandon(u) == abandoned' = abandoned \cup {u}

-----------------------------------------------------------------------------
(* Telegram.  max_connections is 1: it waits for one update at a time; yet *)
(* one it no longer waits for may still be at work when it comes again.    *)

Deliver(u, w) ==
    /\ ~telegram[u].acked /\ \A v \in Updates : telegram[v].waits = None
    /\ telegram[u].tries < MaxTries                                \* bound
    /\ worker[w] = IdleWorker
    /\ telegram' = [telegram EXCEPT ![u].tries = @ + 1, ![u].waits = w]
    /\ worker' = [worker EXCEPT ![w].step = "routing", ![w].update = u]
    /\ UNCHANGED <<processed, chatVars, gasVars, abandoned, faults>>

(* Telegram stops waiting, or the answer is lost on its way.               *)
TelegramGivesUp(u) ==
    /\ telegram[u].waits # None /\ Fails
    /\ telegram' = [telegram EXCEPT ![u].waits = None]
    /\ Abandon(u)
    /\ UNCHANGED <<worker, processed, chatVars, gasVars>>

-----------------------------------------------------------------------------
(* The Worker.                                                             *)

WorkerGoes(w, step) == worker' = [worker EXCEPT ![w].step = step]

Waited(w) == telegram[worker[w].update].waits = w

(* Mutant: the update is not stored with what it did. *)
ProcessUnrecorded(w) ==
    LET u == worker[w].update IN
    /\ worker[w].step = "routing" /\ u \in FastUpdates
    /\ performed' = [performed EXCEPT ![u] = @ + 1]
    /\ WorkerGoes(w, "sending")
    /\ UNCHANGED <<telegram, processed, received, failed, gasVars, abandoned,
                   faults>>

(* TelegramSession.process: the domain, and the update with its replies on *)
(* record, in one transaction; a known update returns its stored replies.  *)
Process(w) ==
    LET u == worker[w].update IN
    /\ worker[w].step = "routing" /\ u \in FastUpdates
    /\ \/ /\ u \in processed
          /\ UNCHANGED <<processed, performed>>
       \/ /\ u \notin processed
          /\ processed' = processed \cup {u}
          /\ performed' = [performed EXCEPT ![u] = @ + 1]
    /\ WorkerGoes(w, "sending")
    /\ UNCHANGED <<telegram, received, failed, gasVars, abandoned, faults>>

(* The object is evicted or throws, with or without the update on record.  *)
ProcessFails(w) ==
    LET u == worker[w].update IN
    /\ worker[w].step = "routing" /\ u \in FastUpdates /\ Fails
    /\ \/ UNCHANGED <<processed, performed>>
       \/ /\ u \notin processed
          /\ processed' = processed \cup {u}
          /\ performed' = [performed EXCEPT ![u] = @ + 1]
    /\ WorkerGoes(w, "error")
    /\ UNCHANGED <<telegram, received, failed, gasVars, abandoned>>

(* claimPaymentQrUpdate: who finds the update claimed answers 200.         *)
Claim(w) ==
    LET u == worker[w].update IN
    /\ worker[w].step = "routing" /\ u \in QrUpdates
    /\ processed' = processed \cup {u}
    /\ WorkerGoes(w, IF u \in processed THEN "ok" ELSE "sending")
    /\ UNCHANGED <<telegram, chatVars, gasVars, abandoned, faults>>

(* sendTelegramCommands: one reply after the other.                        *)
Send(w) ==
    LET u == worker[w].update
        i == worker[w].sent + 1 IN
    /\ worker[w].step = "sending"
    /\ received' = [received EXCEPT ![u][i] = @ + 1]
    /\ worker' = [worker EXCEPT
           ![w].step = IF i = Replies THEN "ok" ELSE "sending",
           ![w].sent = i]
    /\ UNCHANGED <<telegram, processed, performed, failed, gasVars,
                   abandoned, faults>>

(* A reply fails, or Telegram took it and its answer was lost.  It ends    *)
(* the sending; a claim is released.                                       *)
SendFails(w) ==
    LET u == worker[w].update
        i == worker[w].sent + 1 IN
    /\ worker[w].step = "sending" /\ Fails
    /\ \/ UNCHANGED received
       \/ received' = [received EXCEPT ![u][i] = @ + 1]
    /\ failed' = [failed EXCEPT ![u] = @ + 1]
    /\ WorkerGoes(w, IF u \in QrUpdates THEN "releasing" ELSE "error")
    /\ UNCHANGED <<telegram, processed, performed, gasVars, abandoned>>

(* Mutant: the claim is kept when the QR could not be sent. *)
ReleaseNothing(w) ==
    /\ worker[w].step = "releasing"
    /\ WorkerGoes(w, "error")
    /\ UNCHANGED <<telegram, processed, chatVars, gasVars, abandoned, faults>>

(* releasePaymentQrUpdate, and the error is thrown on.                     *)
Release(w) ==
    /\ worker[w].step = "releasing"
    /\ processed' = processed \ {worker[w].update}
    /\ WorkerGoes(w, "error")
    /\ UNCHANGED <<telegram, chatVars, gasVars, abandoned, faults>>

PutOnQueue(u) ==
    queue' = queue \cup {[update |-> u, copy |-> telegram[u].tries,
                          attempts |-> 1]}

Publish(w) ==
    LET u == worker[w].update IN
    /\ worker[w].step = "routing" /\ u \in RawUpdates
    /\ PutOnQueue(u)
    /\ WorkerGoes(w, "ok")
    /\ UNCHANGED <<telegram, processed, chatVars, deadLetters, consumer, run,
                   claimed, abandoned, faults>>

(* Mutant: Telegram is answered 200 although the queue refused. *)
PublishUnchecked(w) ==
    /\ worker[w].step = "routing" /\ worker[w].update \in RawUpdates
    /\ Fails
    /\ WorkerGoes(w, "ok")
    /\ UNCHANGED <<telegram, processed, chatVars, gasVars, abandoned>>

(* The queue refuses, or took the update and the answer was lost.          *)
PublishFails(w) ==
    LET u == worker[w].update IN
    /\ worker[w].step = "routing" /\ u \in RawUpdates /\ Fails
    /\ PutOnQueue(u) \/ UNCHANGED queue
    /\ WorkerGoes(w, "error")
    /\ UNCHANGED <<telegram, processed, chatVars, deadLetters, consumer, run,
                   claimed, abandoned>>

(* Mutant: an error is answered 200. *)
AnswerAlwaysOk(w) ==
    LET u == worker[w].update IN
    /\ worker[w].step \in {"ok", "error"}
    /\ telegram' = IF Waited(w)
           THEN [telegram EXCEPT ![u].waits = None, ![u].acked = TRUE]
           ELSE telegram
    /\ worker' = [worker EXCEPT ![w] = IdleWorker]
    /\ UNCHANGED <<processed, chatVars, gasVars, abandoned, faults>>

(* 200, or 500 and 503 for an error.                                       *)
Answer(w) ==
    LET u == worker[w].update IN
    /\ worker[w].step \in {"ok", "error"}
    /\ telegram' = IF Waited(w)
           THEN [telegram EXCEPT ![u].waits = None,
                                 ![u].acked = (worker[w].step = "ok")]
           ELSE telegram
    /\ worker' = [worker EXCEPT ![w] = IdleWorker]
    /\ UNCHANGED <<processed, chatVars, gasVars, abandoned, faults>>

WorkerDies(w) ==
    LET u == worker[w].update IN
    /\ worker[w].step # "idle" /\ Fails
    /\ worker' = [worker EXCEPT ![w] = IdleWorker]
    /\ telegram' = IF Waited(w) THEN [telegram EXCEPT ![u].waits = None]
                                ELSE telegram
    /\ Abandon(u)
    /\ UNCHANGED <<processed, chatVars, gasVars>>

-----------------------------------------------------------------------------
(* The consumer of the queue.                                              *)

Forward(m, g) ==
    /\ consumer = IdleConsumer /\ m \in queue /\ run[g] = IdleWorker
    /\ consumer' = [message |-> m, run |-> g]
    /\ run' = [run EXCEPT ![g].step = "waiting", ![g].update = m.update]
    /\ UNCHANGED <<edgeVars, chatVars, queue, deadLetters, claimed,
                   abandoned, faults>>

Acknowledge ==
    /\ consumer.run # None /\ run[consumer.run].step = "ok"
    /\ queue' = queue \ {consumer.message}
    /\ consumer' = IdleConsumer
    /\ run' = [run EXCEPT ![consumer.run] = IdleWorker]
    /\ UNCHANGED <<edgeVars, chatVars, deadLetters, claimed, abandoned,
                   faults>>

(* message.retry(), and the dead letter queue after the last attempt.      *)
Requeue(m) ==
    /\ consumer' = IdleConsumer
    /\ \/ /\ m.attempts < MaxAttempts
          /\ queue' = (queue \ {m}) \cup {[m EXCEPT !.attempts = @ + 1]}
          /\ UNCHANGED deadLetters
       \/ /\ m.attempts = MaxAttempts
          /\ queue' = queue \ {m}
          /\ deadLetters' = deadLetters \cup {m}

Retry ==
    /\ consumer.run # None /\ run[consumer.run].step = "dead"
    /\ Requeue(consumer.message)
    /\ run' = [run EXCEPT ![consumer.run] = IdleWorker]
    /\ UNCHANGED <<edgeVars, chatVars, claimed, abandoned, faults>>

(* The consumer waits 60 seconds; the script goes on.                      *)
ForwardTimesOut ==
    /\ consumer.run # None /\ Fails
    /\ Requeue(consumer.message)
    /\ UNCHANGED <<edgeVars, chatVars, run, claimed, abandoned>>

-----------------------------------------------------------------------------
(* doPost of webhook.gs.                                                   *)

RunGoes(g, step) == run' = [run EXCEPT ![g].step = step]

Locked == \E g \in Runs : run[g].step = "handling"

(* With the script lock: a known update is answered OK, another is marked. *)
GasClaims(g) ==
    LET u == run[g].update IN
    /\ run[g].step = "waiting" /\ ~Locked
    /\ claimed' = claimed \cup {u}
    /\ RunGoes(g, IF u \in claimed THEN "ok" ELSE "handling")
    /\ UNCHANGED <<edgeVars, chatVars, queue, deadLetters, consumer,
                   abandoned, faults>>

(* The domain, still under the lock.                                       *)
GasHandles(g) ==
    /\ run[g].step = "handling"
    /\ performed' = [performed EXCEPT ![run[g].update] = @ + 1]
    /\ RunGoes(g, "sending")
    /\ UNCHANGED <<edgeVars, received, failed, queue, deadLetters, consumer,
                   claimed, abandoned, faults>>

(* After the lock: the replies.                                            *)
GasSends(g) ==
    LET u == run[g].update
        i == run[g].sent + 1 IN
    /\ run[g].step = "sending"
    /\ received' = [received EXCEPT ![u][i] = @ + 1]
    /\ run' = [run EXCEPT ![g].step = IF i = Replies THEN "ok" ELSE "sending",
                          ![g].sent = i]
    /\ UNCHANGED <<edgeVars, performed, failed, queue, deadLetters, consumer,
                   claimed, abandoned, faults>>

(* No lock in 30 seconds, an error of the domain, or a reply that fails:   *)
(* the customer is sent an apology instead, and the answer is OK.          *)
GasFails(g) ==
    LET u == run[g].update IN
    /\ run[g].step \in {"waiting", "handling", "sending"} /\ Fails
    /\ RunGoes(g, "ok")
    /\ Abandon(u)
    /\ UNCHANGED <<edgeVars, chatVars, queue, deadLetters, consumer, claimed>>

(* The script dies; the consumer sees that the answer is not OK.           *)
GasDies(g) ==
    /\ run[g].step \in {"waiting", "handling", "sending"} /\ Fails
    /\ RunGoes(g, "dead")
    /\ Abandon(run[g].update)
    /\ UNCHANGED <<edgeVars, chatVars, queue, deadLetters, consumer, claimed>>

(* Nobody waits for the answer any more.                                   *)
Forget(g) ==
    /\ run[g].step \in {"ok", "dead"} /\ consumer.run # g
    /\ run' = [run EXCEPT ![g] = IdleWorker]
    /\ UNCHANGED <<edgeVars, chatVars, queue, deadLetters, consumer, claimed,
                   abandoned, faults>>

-----------------------------------------------------------------------------
Work(w) ==
    Process(w) \/ Claim(w) \/ Publish(w) \/ Send(w) \/ Release(w) \/ Answer(w)

WorkFails(w) ==
    ProcessFails(w) \/ SendFails(w) \/ PublishFails(w) \/ WorkerDies(w)

Execute(g) == GasClaims(g) \/ GasHandles(g) \/ GasSends(g) \/ Forget(g)

Next ==
    \/ \E u \in Updates : TelegramGivesUp(u) \/ \E w \in Workers : Deliver(u, w)
    \/ \E w \in Workers : Work(w) \/ WorkFails(w)
    \/ \E m \in queue, g \in Runs : Forward(m, g)
    \/ Acknowledge \/ Retry \/ ForwardTimesOut
    \/ \E g \in Runs : Execute(g) \/ GasFails(g) \/ GasDies(g)

Spec == Init /\ [][Next]_vars

(* Telegram delivers what it has not been answered (MaxTries is above      *)
(* MaxFaults); the queue delivers what it holds; Workers and scripts run   *)
(* to an end.  Deliveries and attempts are bounded, so that weak fairness  *)
(* of each stage keeps no update waiting for ever.                         *)
Fairness ==
    /\ WF_vars(\E u \in Updates, w \in Workers : Deliver(u, w))
    /\ \A w \in Workers : WF_vars(Work(w))
    /\ WF_vars(\E m \in queue, g \in Runs : Forward(m, g))
    /\ WF_vars(Acknowledge \/ Retry)
    /\ \A g \in Runs : WF_vars(Execute(g))

FairSpec == Spec /\ Fairness

-----------------------------------------------------------------------------
(* Properties.                                                             *)

Answered(u) == \A i \in 1 .. Replies : received[u][i] > 0

(* index.ts:928: the object stores update idempotency, so domain mutations *)
(* are never repeated; and the claim of webhook.gs does the same.          *)
PerformedOnce == \A u \in Updates : performed[u] <= 1

(* Apps Script replies once at most.                                       *)
GasRepliesOnce ==
    \A u \in RawUpdates, i \in 1 .. Replies : received[u][i] <= 1

(* Over all redeliveries, retries of the queue, Workers that overlap and   *)
(* scripts that outlive their forward, an update takes effect once at      *)
(* most, and Apps Script replies to it once at most.                       *)
DeliveryInv == TypeOK /\ PerformedOnce /\ GasRepliesOnce

(* An update of the fast path that Telegram will not deliver again has     *)
(* taken effect, and the customer has all its replies: none is lost to a   *)
(* Worker that dies, a reply that fails, or an attempt that overlaps.      *)
FastUpdatesAreComplete ==
    \A u \in FastUpdates :
        telegram[u].acked => performed[u] = 1 /\ Answered(u)

(* A claim that is kept does not swallow the request for a QR: unless a    *)
(* Worker has died or has not been waited for, who asks and is answered    *)
(* 200 has the QR.  And it is sent once more only when a send has failed.  *)
QrArrivesOnce ==
    \A u \in QrUpdates :
        /\ telegram[u].acked /\ u \notin abandoned => Answered(u)
        /\ \A i \in 1 .. Replies : received[u][i] <= 1 + failed[u]

AtWork(u) == \E g \in Runs : run[g].update = u /\ run[g].step # "dead"

(* An update that Telegram has been answered 200 for is never lost on its  *)
(* way: it has taken effect and all its replies were sent, or it is in the *)
(* queue or among the dead letters, or a script works on it; unless a      *)
(* script gave up on it, died, or could not have the lock.                 *)
NoUpdateIsDropped ==
    \A u \in RawUpdates :
        telegram[u].acked /\ u \notin abandoned =>
            \/ performed[u] = 1 /\ Answered(u)
            \/ AtWork(u)
            \/ \E m \in queue \cup deadLetters : m.update = u

(* Every update of the fast path is answered in the end, completely; and   *)
(* every update for Apps Script takes effect, unless it is a dead letter   *)
(* or was given up.                                                        *)
UpdatesTakeEffect ==
    /\ \A u \in FastUpdates : <>Answered(u)
    /\ \A u \in RawUpdates :
          <>(\/ performed[u] = 1 \/ u \in abandoned
             \/ \E m \in deadLetters : m.update = u)
=============================================================================
