---------------------------- MODULE SnapshotSync ----------------------------
(***************************************************************************)
(* The mirror of the chats in Google Sheets.  Every domain transaction of  *)
(* a TelegramSession object writes a snapshot of its customer, numbered by *)
(* a revision, into queue_outbox; the outbox is drained to the Cloudflare  *)
(* queue; the queue consumer of telegram-gateway/src/index.ts forwards one *)
(* snapshot at a time to Apps Script; and FastPathSync.gs applies it to    *)
(* the sheets under the script lock, row by row.                           *)
(*                                                                         *)
(* The queue repeats and reorders, a drain may send a snapshot again, a    *)
(* forward may time out while its script goes on, the lock may not be had  *)
(* in time, and a script may die between two writes (the sheets have no    *)
(* transactions).                                                          *)
(*                                                                         *)
(* Abstracted data: a snapshot stands for the rows it carries, so a row of *)
(* a sheet is the revision it was last written from, and every snapshot of *)
(* a customer has the same rows.  The clock is left out: a retry delay may *)
(* end at any time.                                                        *)
(***************************************************************************)
EXTENDS Naturals, FiniteSets

CONSTANTS
    Customers,    \* one per TelegramSession object
    Rows,         \* rows of a snapshot: the customer, its orders, its state
    Runs,         \* executions of the script that may be under way together
    None,         \* no message, no run, no customer
    MaxRevision,  \* bound: domain transactions of one customer
    MaxSends,     \* bound: times a drain sends one snapshot
    MaxRetries,   \* max_retries of the queue
    MaxDeaths,    \* bound: scripts that die while they hold the lock
    MaxFailures   \* bound: forwards that fail without that

Revisions == 0 .. MaxRevision

Message == [customer: Customers, revision: Revisions \ {0},
            copy: 1 .. MaxSends, attempts: 0 .. MaxRetries]

ASSUME SnapshotSyncAssumption ==
    /\ Rows \in Nat \ {0}
    /\ None \notin Runs /\ None \notin Customers /\ None \notin Message
    /\ MaxRevision \in Nat /\ MaxSends \in Nat /\ MaxRetries \in Nat
    /\ MaxDeaths \in Nat /\ MaxFailures \in Nat

VARIABLES
    revision,     \* sync_metadata.revision of each object
    published,    \* published[c]: revisions whose outbox row is published
    sends,        \* sends[c][r]: times the snapshot went to the queue
    queue,        \* messages in the queue
    deadLetters,  \* messages in the dead letter queue
    consumer,     \* the message being forwarded, and the run it waits for
    run,          \* run[g]: an execution of syncTelegramFastPathSnapshot
    sheet,        \* sheet[c][i]: revision that row i was written from
    markers,      \* markers[c][r]: its rows in FastPathSyncedUpdates
    lastRevision, \* FastPathSyncState
    faults        \* how many faults have happened, for the bounds

objectVars == <<revision, published, sends>>
queueVars  == <<queue, deadLetters, consumer>>
sheetVars  == <<sheet, markers, lastRevision>>
vars       == <<objectVars, queueVars, run, sheetVars, faults>>

RunSteps == {"idle", "waiting", "rows", "marker", "state", "ok", "failed"}

Run == [step: RunSteps, customer: Customers \cup {None}, revision: Revisions,
        row: 1 .. Rows]

IdleRun == [step |-> "idle", customer |-> None, revision |-> 0, row |-> 1]

IdleConsumer == [message |-> None, run |-> None]

TypeOK ==
    /\ revision \in [Customers -> Revisions]
    /\ published \in [Customers -> SUBSET Revisions]
    /\ sends \in [Customers -> [Revisions -> 0 .. MaxSends]]
    /\ queue \subseteq Message
    /\ deadLetters \subseteq Message
    /\ consumer \in [message: Message \cup {None}, run: Runs \cup {None}]
    /\ run \in [Runs -> Run]
    /\ sheet \in [Customers -> [1 .. Rows -> Revisions]]
    /\ markers \in [Customers -> [Revisions -> Nat]]
    /\ lastRevision \in [Customers -> Revisions]
    /\ faults \in [deaths: Nat, failures: Nat]

Init ==
    /\ revision = [c \in Customers |-> 0]
    /\ published = [c \in Customers |-> {}]
    /\ sends = [c \in Customers |-> [r \in Revisions |-> 0]]
    /\ queue = {} /\ deadLetters = {} /\ consumer = IdleConsumer
    /\ run = [g \in Runs |-> IdleRun]
    /\ sheet = [c \in Customers |-> [i \in 1 .. Rows |-> 0]]
    /\ markers = [c \in Customers |-> [r \in Revisions |-> 0]]
    /\ lastRevision = [c \in Customers |-> 0]
    /\ faults = [deaths |-> 0, failures |-> 0]

Dies ==
    /\ faults.deaths < MaxDeaths
    /\ faults' = [faults EXCEPT !.deaths = @ + 1]

Fails ==
    /\ faults.failures < MaxFailures
    /\ faults' = [faults EXCEPT !.failures = @ + 1]

-----------------------------------------------------------------------------
(* The object: createSnapshot and enqueueQueueMessage inside the domain    *)
(* transaction, and drainQueueOutbox.                                      *)

Change(c) ==
    /\ revision[c] < MaxRevision                                   \* bound
    /\ revision' = [revision EXCEPT ![c] = @ + 1]
    /\ UNCHANGED <<published, sends, queueVars, run, sheetVars, faults>>

(* An unpublished snapshot is sent; again when the answer to an earlier    *)
(* send was lost, or its lease ran out.                                    *)
Send(c, r) ==
    /\ r \in 1 .. revision[c] /\ r \notin published[c]
    /\ sends[c][r] < MaxSends                                      \* bound
    /\ sends' = [sends EXCEPT ![c][r] = @ + 1]
    /\ queue' = queue \cup {[customer |-> c, revision |-> r,
                             copy |-> sends[c][r] + 1, attempts |-> 0]}
    /\ UNCHANGED <<revision, published, deadLetters, consumer, run,
                   sheetVars, faults>>

(* Mutant: a snapshot counts as published before it was sent. *)
PublishUnsent(c, r) ==
    /\ r \notin published[c] /\ r \in 1 .. revision[c]
    /\ published' = [published EXCEPT ![c] = @ \cup {r}]
    /\ UNCHANGED <<revision, sends, queueVars, run, sheetVars, faults>>

(* The queue took the snapshot.                                            *)
Publish(c, r) ==
    /\ r \notin published[c] /\ sends[c][r] > 0
    /\ published' = [published EXCEPT ![c] = @ \cup {r}]
    /\ UNCHANGED <<revision, sends, queueVars, run, sheetVars, faults>>

-----------------------------------------------------------------------------
(* The queue consumer, one message at a time.                              *)

(* Messages come in any order.                                             *)
Forward(m, g) ==
    /\ consumer = IdleConsumer
    /\ m \in queue /\ run[g] = IdleRun
    /\ consumer' = [message |-> m, run |-> g]
    /\ run' = [run EXCEPT ![g] = [step |-> "waiting", customer |-> m.customer,
                                  revision |-> m.revision, row |-> 1]]
    /\ UNCHANGED <<objectVars, queue, deadLetters, sheetVars, faults>>

Acknowledge ==
    /\ consumer.run # None /\ run[consumer.run].step = "ok"
    /\ queue' = queue \ {consumer.message}
    /\ consumer' = IdleConsumer
    /\ run' = [run EXCEPT ![consumer.run] = IdleRun]
    /\ UNCHANGED <<objectVars, deadLetters, sheetVars, faults>>

(* Mutant: the message is dropped. *)
RequeueNothing(m) ==
    /\ consumer' = IdleConsumer
    /\ queue' = queue \ {m}
    /\ UNCHANGED deadLetters

(* message.retry(), and the dead letter queue after the last attempt.      *)
Requeue(m) ==
    /\ consumer' = IdleConsumer
    /\ \/ /\ m.attempts < MaxRetries
          /\ queue' = (queue \ {m}) \cup {[m EXCEPT !.attempts = @ + 1]}
          /\ UNCHANGED deadLetters
       \/ /\ m.attempts = MaxRetries
          /\ queue' = queue \ {m}
          /\ deadLetters' = deadLetters \cup {m}

Retry ==
    /\ consumer.run # None /\ run[consumer.run].step = "failed"
    /\ Requeue(consumer.message)
    /\ run' = [run EXCEPT ![consumer.run] = IdleRun]
    /\ UNCHANGED <<objectVars, sheetVars, faults>>

(* The forward times out, or its answer is lost; the script goes on.       *)
GiveUp ==
    /\ consumer.run # None
    /\ Fails
    /\ Requeue(consumer.message)
    /\ UNCHANGED <<objectVars, run, sheetVars>>

(* Staff put a dead letter back once the cause is gone.                    *)
Replay(m) ==
    /\ m \in deadLetters
    /\ deadLetters' = deadLetters \ {m}
    /\ queue' = queue \cup {[m EXCEPT !.attempts = 0]}
    /\ UNCHANGED <<objectVars, consumer, run, sheetVars, faults>>

-----------------------------------------------------------------------------
(* syncTelegramFastPathSnapshot.                                           *)

Locked == \E g \in Runs : run[g].step \in {"rows", "marker", "state"}

Goto(g, step) == run' = [run EXCEPT ![g].step = step]

Mark(c, r) == markers' = [markers EXCEPT ![c][r] = @ + 1]

(* Mutant: the script runs without the lock. *)
EnterUnlocked(g) ==
    LET c == run[g].customer
        r == run[g].revision
    IN
    /\ run[g].step = "waiting"
    /\ \/ markers[c][r] > 0 /\ Goto(g, "ok") /\ UNCHANGED markers
       \/ markers[c][r] = 0 /\ r <= lastRevision[c] /\ Goto(g, "ok")
             /\ Mark(c, r)
       \/ markers[c][r] = 0 /\ r > lastRevision[c] /\ Goto(g, "rows")
             /\ UNCHANGED markers
    /\ UNCHANGED <<objectVars, queueVars, sheet, lastRevision, faults>>

(* Mutant: the revision is not compared. *)
EnterAnyRevision(g) ==
    LET c == run[g].customer
        r == run[g].revision
    IN
    /\ run[g].step = "waiting" /\ ~Locked
    /\ Goto(g, IF markers[c][r] > 0 THEN "ok" ELSE "rows")
    /\ UNCHANGED <<objectVars, queueVars, sheetVars, faults>>

(* With the lock: a snapshot already marked is a duplicate; an older one   *)
(* than the last applied is stale, and only marked; else it is applied.    *)
Enter(g) ==
    LET c == run[g].customer
        r == run[g].revision
    IN
    /\ run[g].step = "waiting" /\ ~Locked
    /\ \/ markers[c][r] > 0 /\ Goto(g, "ok") /\ UNCHANGED markers
       \/ markers[c][r] = 0 /\ r <= lastRevision[c] /\ Goto(g, "ok")
             /\ Mark(c, r)
       \/ markers[c][r] = 0 /\ r > lastRevision[c] /\ Goto(g, "rows")
             /\ UNCHANGED markers
    /\ UNCHANGED <<objectVars, queueVars, sheet, lastRevision, faults>>

(* tryLock gives up after 30 seconds; other scripts use the lock too.      *)
LockTimesOut(g) ==
    /\ run[g].step = "waiting"
    /\ Fails
    /\ Goto(g, "failed")
    /\ UNCHANGED <<objectVars, queueVars, sheetVars>>

(* Mutant: an order row is left out. *)
WriteFirstRow(g) ==
    /\ run[g].step = "rows"
    /\ sheet' = [sheet EXCEPT ![run[g].customer][1] = run[g].revision]
    /\ Goto(g, "marker")
    /\ UNCHANGED <<objectVars, queueVars, markers, lastRevision, faults>>

WriteRow(g) ==
    LET i == run[g].row IN
    /\ run[g].step = "rows"
    /\ sheet' = [sheet EXCEPT ![run[g].customer][i] = run[g].revision]
    /\ run' = [run EXCEPT
           ![g].row = IF i < Rows THEN i + 1 ELSE i,
           ![g].step = IF i < Rows THEN "rows" ELSE "marker"]
    /\ UNCHANGED <<objectVars, queueVars, markers, lastRevision, faults>>

WriteMarker(g) ==
    /\ run[g].step = "marker"
    /\ Mark(run[g].customer, run[g].revision)
    /\ Goto(g, "state")
    /\ UNCHANGED <<objectVars, queueVars, sheet, lastRevision, faults>>

WriteState(g) ==
    /\ run[g].step = "state"
    /\ lastRevision' = [lastRevision EXCEPT ![run[g].customer] =
                                                run[g].revision]
    /\ Goto(g, "ok")
    /\ UNCHANGED <<objectVars, queueVars, sheet, markers, faults>>

(* Mutant: an error in the script is answered with SYNC_OK. *)
DiesUnnoticed(g) ==
    /\ run[g].step \in {"rows", "marker", "state"}
    /\ Dies
    /\ Goto(g, "ok")
    /\ UNCHANGED <<objectVars, queueVars, sheetVars>>

(* The script fails between two writes; the lock is released.              *)
RunDies(g) ==
    /\ run[g].step \in {"rows", "marker", "state"}
    /\ Dies
    /\ Goto(g, "failed")
    /\ UNCHANGED <<objectVars, queueVars, sheetVars>>

(* Nobody waits for the answer any more.                                   *)
Forget(g) ==
    /\ run[g].step \in {"ok", "failed"} /\ consumer.run # g
    /\ run' = [run EXCEPT ![g] = IdleRun]
    /\ UNCHANGED <<objectVars, queueVars, sheetVars, faults>>

Execute(g) ==
    Enter(g) \/ WriteRow(g) \/ WriteMarker(g) \/ WriteState(g) \/ Forget(g)

Next ==
    \/ \E c \in Customers :
          Change(c) \/ \E r \in Revisions : Send(c, r) \/ Publish(c, r)
    \/ \E m \in queue, g \in Runs : Forward(m, g)
    \/ Acknowledge \/ Retry \/ GiveUp
    \/ \E m \in deadLetters : Replay(m)
    \/ \E g \in Runs : Execute(g) \/ LockTimesOut(g) \/ RunDies(g)

Spec == Init /\ [][Next]_vars

(* The drain goes on until everything is published (scheduleNextAlarm);    *)
(* the queue delivers what it holds again and again, so every message gets *)
(* its turn; a script runs to an end; staff replay dead letters.  Nothing  *)
(* forces a change or a failure.                                           *)
Fairness ==
    /\ \A c \in Customers, r \in Revisions :
          WF_vars(Send(c, r)) /\ WF_vars(Publish(c, r))
    /\ \A m \in Message :
          SF_vars(\E g \in Runs : Forward(m, g)) /\ WF_vars(Replay(m))
    /\ WF_vars(Acknowledge) /\ WF_vars(Retry)
    /\ \A g \in Runs : SF_vars(Execute(g))

FairSpec == Spec /\ Fairness

-----------------------------------------------------------------------------
(* Properties.                                                             *)

(* Snapshot r of c is on its way: in the outbox, the queue or among the    *)
(* dead letters.                                                           *)
OnItsWay(c, r) ==
    \/ r \in 1 .. revision[c] /\ r \notin published[c]
    \/ \E m \in queue \cup deadLetters : m.customer = c /\ m.revision = r

(* No script has died half-way so far.  One that does can leave the sheets *)
(* behind for good: the marker is written before the revision is.          *)
Undisturbed == faults.deaths = 0

(* A sheet never goes back to an older snapshot (docs/telegram-fast-path-  *)
(* phase3.md: repeated or reordered delivery cannot roll the sheets back). *)
RowsNeverGoBack ==
    [][Undisturbed' =>
          \A c \in Customers, i \in 1 .. Rows :
              sheet'[c][i] >= sheet[c][i]]_vars

(* No snapshot is lost: when one is no longer on its way, every row of its *)
(* customer shows it or a later one.                                       *)
NothingIsLost ==
    Undisturbed =>
        \A c \in Customers, r \in Revisions \ {0} :
            r <= revision[c] /\ ~OnItsWay(c, r) =>
                \A i \in 1 .. Rows : sheet[c][i] >= r

(* Whoever takes the lock finds the rows of one snapshot, and finds it     *)
(* recorded as the last one.                                               *)
SheetsAreWhole ==
    Undisturbed /\ ~Locked =>
        \A c \in Customers, i \in 1 .. Rows : sheet[c][i] = lastRevision[c]

(* Each snapshot is marked once, however many copies of it the queue holds *)
(* and however many scripts run for it at the same time.                   *)
MarkedOnce ==
    \A c \in Customers, r \in Revisions : markers[c][r] <= 1

(* Rows that come from different snapshots, because a script died half-way *)
(* through writing them, are never left so: one of the snapshots they come *)
(* from is on its way again.                                               *)
TornSheetsAreRetried ==
    ~Locked =>
        \A c \in Customers, i, j \in 1 .. Rows :
            sheet[c][i] # sheet[c][j] =>
                \E r \in {sheet[c][i], sheet[c][j]} : OnItsWay(c, r)

(* The scripts, the rows, the marker and the revision together look like   *)
(* one step per snapshot.  A new snapshot is taken when its last row is    *)
(* written, a stale one when it is marked; and what the mirror shows is    *)
(* what stands in the last row.                                            *)
Marking(c) == {g \in Runs : run[g].step = "marker" /\ run[g].customer = c}

TakenOf(c) == {r \in Revisions : markers[c][r] > 0}
                  \cup {run[g].revision : g \in Marking(c)}

Mirrored == INSTANCE Mirror WITH
    latest <- revision,
    taken <- [c \in Customers |-> TakenOf(c)],
    shown <- [c \in Customers |-> sheet[c][Rows]],
    broken <- ~Undisturbed

RefinesMirror == Mirrored!Spec

(* Once a customer does nothing more, the sheets show the last snapshot.   *)
SheetsCatchUp ==
    \A c \in Customers :
        <>[](\A i \in 1 .. Rows : sheet[c][i] = revision[c])
=============================================================================
