------------------------ MODULE SnapshotSync_proofs ------------------------
(***************************************************************************)
(* Theorems about SnapshotSync: the script lock and the two guards of      *)
(* FastPathSync.gs keep the sheets whole and moving forward, for any       *)
(* number of customers, rows, copies, overlapping scripts and failed       *)
(* forwards, until a script dies between its writes.                       *)
(***************************************************************************)
EXTENDS SnapshotSync, TLAPS

Busy(g) == run[g].step \in {"rows", "marker", "state"}

(* Who is doing what: one script has the lock; a script that runs works    *)
(* for a customer, and one that has yet to mark its snapshot found it      *)
(* unmarked; a consumer that waits has a message.                          *)
OneScript ==
    /\ consumer.run # None => consumer.message \in Message
    /\ \A g, h \in Runs : Busy(g) /\ Busy(h) => g = h
    /\ \A g \in Runs : Busy(g) \/ run[g].step = "waiting" =>
                          run[g].customer \in Customers
    /\ \A g \in Runs : run[g].step \in {"rows", "marker"} =>
                          markers[run[g].customer][run[g].revision] = 0
    /\ MarkedOnce

LockInv == TypeOK /\ OneScript

(* What the sheets of a customer show: the last revision, and while a      *)
(* script works on them its own, newer one up to the row it has reached.   *)
Untouched(c) == \A g \in Runs : Busy(g) => run[g].customer # c

Written(g, i) == run[g].step = "rows" => i < run[g].row

Whole ==
    /\ \A c \in Customers :
          Untouched(c) => \A i \in 1 .. Rows : sheet[c][i] = lastRevision[c]
    /\ \A g \in Runs : run[g].step = "waiting" => run[g].row = 1
    /\ \A g \in Runs : Busy(g) =>
          /\ run[g].revision > lastRevision[run[g].customer]
          /\ \A i \in 1 .. Rows :
                sheet[run[g].customer][i] =
                    IF Written(g, i) THEN run[g].revision
                    ELSE lastRevision[run[g].customer]

-----------------------------------------------------------------------------
(* The lock.                                                               *)

LEMMA InitLock == Init => LockInv
  BY SnapshotSyncAssumption
  DEF Init, LockInv, OneScript, TypeOK, Revisions, IdleRun, IdleConsumer, Run, RunSteps,
      Busy, MarkedOnce, SnapshotSyncAssumption

(* The object and the queue leave the scripts and the sheets alone.        *)
LEMMA OneScriptStays ==
    ASSUME OneScript, UNCHANGED <<run, markers>>,
           consumer' = consumer \/ consumer' = IdleConsumer
    PROVE  OneScript'
  BY DEF OneScript, Busy, MarkedOnce, IdleConsumer

(* What a step of a script does to the runs.                               *)
LEMMA GotoMoves ==
    ASSUME run \in [Runs -> Run], NEW g \in Runs, NEW step \in RunSteps,
           Goto(g, step)
    PROVE  /\ run' \in [Runs -> Run]
           /\ \A h \in Runs \ {g} : run'[h] = run[h]
           /\ run'[g] = [run[g] EXCEPT !.step = step]
           /\ run'[g].step = step
           /\ run'[g].customer = run[g].customer
           /\ run'[g].revision = run[g].revision
           /\ run'[g].row = run[g].row
  <1>1. run[g] \in Run
    OBVIOUS
  <1>2. /\ [run[g] EXCEPT !.step = step] \in Run
        /\ [run[g] EXCEPT !.step = step].step = step
        /\ [run[g] EXCEPT !.step = step].customer = run[g].customer
        /\ [run[g] EXCEPT !.step = step].revision = run[g].revision
        /\ [run[g] EXCEPT !.step = step].row = run[g].row
    BY <1>1 DEF Run
  <1>3. run' = [run EXCEPT ![g] = [run[g] EXCEPT !.step = step]]
    BY DEF Goto
  <1> QED
    BY <1>2, <1>3

LEMMA RowMoves ==
    ASSUME run \in [Runs -> Run], NEW g \in Runs, WriteRow(g)
    PROVE  /\ run' \in [Runs -> Run]
           /\ \A h \in Runs \ {g} : run'[h] = run[h]
           /\ run'[g].customer = run[g].customer
           /\ run'[g].revision = run[g].revision
           /\ \/ /\ run[g].row < Rows /\ run'[g].row = run[g].row + 1
                 /\ run'[g].step = "rows"
              \/ /\ run[g].row = Rows /\ run'[g].row = run[g].row
                 /\ run'[g].step = "marker"
  <1> DEFINE i == run[g].row
             next == [run[g] EXCEPT
                        !.row = IF i < Rows THEN i + 1 ELSE i,
                        !.step = IF i < Rows THEN "rows" ELSE "marker"]
  <1>1. run[g] \in Run
    OBVIOUS
  <1>2. i \in 1 .. Rows /\ Rows \in Nat
    BY <1>1, SnapshotSyncAssumption DEF Run, SnapshotSyncAssumption
  <1>3. /\ next.customer = run[g].customer
        /\ next.revision = run[g].revision
        /\ next.row = IF i < Rows THEN i + 1 ELSE i
        /\ next.step = IF i < Rows THEN "rows" ELSE "marker"
    BY <1>1 DEF Run
  <1>4. next \in Run
    <2>1. (IF i < Rows THEN i + 1 ELSE i) \in 1 .. Rows
      BY <1>2
    <2>2. (IF i < Rows THEN "rows" ELSE "marker") \in RunSteps
      BY DEF RunSteps
    <2> QED
      BY <1>1, <2>1, <2>2 DEF Run
  <1>5. run' = [run EXCEPT ![g] = next]
    BY DEF WriteRow
  <1> HIDE DEF next
  <1>6. run'[g] = next /\ \A h \in Runs \ {g} : run'[h] = run[h]
    BY <1>5
  <1>7. run' \in [Runs -> Run]
    BY <1>4, <1>5
  <1> QED
    BY <1>2, <1>3, <1>6, <1>7

LEMMA SheetTypes ==
    ASSUME sheet \in [Customers -> [1 .. Rows -> Revisions]], NEW g \in Runs,
           run[g].customer \in Customers, run[g].revision \in Revisions,
           sheet' = [sheet EXCEPT ![run[g].customer][run[g].row] =
                                      run[g].revision]
    PROVE  sheet' \in [Customers -> [1 .. Rows -> Revisions]]
  OBVIOUS

LEMMA FaultsCount ==
    ASSUME faults \in [deaths: Nat, failures: Nat], Dies \/ Fails
    PROVE  faults' \in [deaths: Nat, failures: Nat]
  BY DEF Dies, Fails

LEMMA MarkCounts ==
    ASSUME markers \in [Customers -> [Revisions -> Nat]], MarkedOnce,
           NEW c \in Customers, NEW r \in Revisions,
           UNCHANGED markers \/ (Mark(c, r) /\ markers[c][r] = 0)
    PROVE  markers' \in [Customers -> [Revisions -> Nat]] /\ MarkedOnce'
  <1>1. CASE UNCHANGED markers
    BY <1>1 DEF MarkedOnce
  <1>2. CASE Mark(c, r) /\ markers[c][r] = 0
    <2>1. markers' = [markers EXCEPT ![c] = [markers[c] EXCEPT ![r] = 1]]
      BY <1>2 DEF Mark
    <2>2. [markers[c] EXCEPT ![r] = 1] \in [Revisions -> Nat]
      OBVIOUS
    <2>3. markers' \in [Customers -> [Revisions -> Nat]]
      BY <2>1, <2>2
    <2>4. \A d \in Customers, s \in Revisions :
             markers'[d][s] = 1 \/ markers'[d][s] = markers[d][s]
      BY <2>1
    <2>5. \A d \in Customers, s \in Revisions : markers[d][s] <= 1
      BY DEF MarkedOnce
    <2>6. MarkedOnce'
      BY <2>4, <2>5 DEF MarkedOnce
    <2> QED
      BY <2>3, <2>6
  <1> QED
    BY <1>1, <1>2

LEMMA ObjectKeepsLock ==
    ASSUME LockInv, NEW c \in Customers, NEW r \in Revisions,
           Change(c) \/ Send(c, r) \/ Publish(c, r)
    PROVE  LockInv'
  <1> USE SnapshotSyncAssumption DEF LockInv, SnapshotSyncAssumption
  <1>1. OneScript'
    <2>1. consumer' = consumer /\ run' = run /\ markers' = markers
      BY DEF Change, Send, Publish, queueVars, sheetVars
    <2> QED
      BY <2>1, OneScriptStays
  <1>2. CASE Change(c)
    <2>1. revision' \in [Customers -> Revisions]
      <3>1. revision \in [Customers -> Revisions] /\ revision[c] \in Revisions
        BY DEF TypeOK
      <3>2. revision[c] + 1 \in Revisions
        BY <1>2, <3>1 DEF Change, Revisions
      <3>3. revision' = [revision EXCEPT ![c] = revision[c] + 1]
        BY <1>2 DEF Change
      <3> QED
        BY <3>1, <3>2, <3>3
    <2>2. UNCHANGED <<published, sends, queueVars, run, sheetVars, faults>>
      BY <1>2 DEF Change
    <2> QED
      BY <1>1, <2>1, <2>2 DEF TypeOK, queueVars, sheetVars
  <1>3. CASE Send(c, r)
    <2>1. [customer |-> c, revision |-> r, copy |-> sends[c][r] + 1,
           attempts |-> 0] \in Message
      <3>1. sends[c] \in [Revisions -> 0 .. MaxSends] /\ r \in Revisions
        BY DEF TypeOK
      <3>2. sends[c][r] \in 0 .. MaxSends /\ sends[c][r] < MaxSends
        BY <1>3, <3>1 DEF Send
      <3>3. sends[c][r] + 1 \in 1 .. MaxSends /\ 0 \in 0 .. MaxRetries
        BY <3>2
      <3>4. r # 0
        BY <1>3 DEF Send
      <3> QED
        BY <3>1, <3>3, <3>4 DEF Message
    <2>2. sends' \in [Customers -> [Revisions -> 0 .. MaxSends]]
      <3>1. /\ sends \in [Customers -> [Revisions -> 0 .. MaxSends]]
            /\ sends[c] \in [Revisions -> 0 .. MaxSends]
            /\ sends[c][r] \in 0 .. MaxSends
        BY DEF TypeOK
      <3>2. sends[c][r] + 1 \in 0 .. MaxSends
        BY <1>3, <3>1 DEF Send
      <3>3. sends' = [sends EXCEPT ![c] = [sends[c] EXCEPT ![r] = @ + 1]]
        BY <1>3 DEF Send
      <3>4. [sends[c] EXCEPT ![r] = @ + 1] \in [Revisions -> 0 .. MaxSends]
        BY <3>1, <3>2
      <3> QED
        BY <3>1, <3>3, <3>4
    <2>3. queue' \subseteq Message
      BY <1>3, <2>1 DEF TypeOK, Send
    <2> QED
      BY <1>1, <1>3, <2>2, <2>3 DEF TypeOK, Send, sheetVars
  <1>4. CASE Publish(c, r)
    BY <1>1, <1>4 DEF TypeOK, Publish, queueVars, sheetVars
  <1> QED
    BY <1>2, <1>3, <1>4

LEMMA RequeueTypes ==
    ASSUME TypeOK, NEW m \in Message, Requeue(m)
    PROVE  /\ queue' \subseteq Message /\ deadLetters' \subseteq Message
           /\ consumer' = IdleConsumer
  <1>1. m.attempts < MaxRetries => [m EXCEPT !.attempts = @ + 1] \in Message
    BY SnapshotSyncAssumption DEF Message, SnapshotSyncAssumption
  <1> QED
    BY <1>1 DEF Requeue, TypeOK

(* Nothing that OneScript and the sheets speak of but the idle runs.       *)
LEMMA Idle ==
    /\ IdleRun \in Run /\ IdleRun.step = "idle"
    /\ IdleConsumer \in [message: Message \cup {None}, run: Runs \cup {None}]
    /\ IdleConsumer.run = None
  BY SnapshotSyncAssumption
  DEF SnapshotSyncAssumption, IdleRun, Run, RunSteps, Revisions, IdleConsumer

LEMMA ConsumerKeepsLock ==
    ASSUME LockInv,
           \/ \E m \in queue, g \in Runs : Forward(m, g)
           \/ Acknowledge \/ Retry \/ GiveUp
           \/ \E m \in deadLetters : Replay(m)
    PROVE  LockInv'
  <1> USE SnapshotSyncAssumption DEF LockInv, SnapshotSyncAssumption
  <1>1. CASE \E m \in queue, g \in Runs : Forward(m, g)
    <2>1. PICK m \in Message, g \in Runs : m \in queue /\ Forward(m, g)
      BY <1>1 DEF TypeOK
    <2>2. /\ m.customer \in Customers /\ m.revision \in Revisions
          /\ 1 \in 1 .. Rows
      BY DEF Message
    <2>3. run' \in [Runs -> Run]
      BY <2>1, <2>2 DEF TypeOK, Forward, Run, RunSteps
    <2>4. /\ \A h \in Runs : h # g => run'[h] = run[h]
          /\ run'[g].step = "waiting" /\ run'[g].customer = m.customer
          /\ consumer' = [message |-> m, run |-> g] /\ UNCHANGED markers
      BY <2>1 DEF TypeOK, Forward, sheetVars
    <2>5. TypeOK'
      BY <2>1, <2>3 DEF TypeOK, Forward, objectVars, sheetVars
    <2>6. OneScript'
      BY <2>2, <2>4 DEF OneScript, Busy, MarkedOnce
    <2> QED
      BY <2>5, <2>6
  <1>2. CASE Acknowledge \/ Retry
    <2>1. consumer.run \in Runs /\ consumer.message \in Message
      BY <1>2 DEF Acknowledge, Retry, TypeOK, OneScript
    <2>2. /\ run' = [run EXCEPT ![consumer.run] = IdleRun]
          /\ consumer' = IdleConsumer
          /\ queue' \subseteq Message /\ deadLetters' \subseteq Message
      BY <1>2, <2>1, RequeueTypes DEF Acknowledge, Retry, TypeOK
    <2>3. UNCHANGED <<objectVars, sheetVars, faults>>
      BY <1>2 DEF Acknowledge, Retry
    <2>4. run' \in [Runs -> Run]
      BY <2>2, Idle DEF TypeOK
    <2>5. \A h \in Runs : run'[h] = run[h] \/ run'[h].step = "idle"
      BY <2>1, <2>2, Idle DEF TypeOK
    <2>6. TypeOK'
      BY <2>2, <2>3, <2>4, Idle DEF TypeOK, objectVars, sheetVars
    <2>7. OneScript'
      BY <2>2, <2>3, <2>5, Idle DEF OneScript, Busy, MarkedOnce, sheetVars
    <2> QED
      BY <2>6, <2>7
  <1>3. CASE GiveUp
    <2>1. /\ queue' \subseteq Message /\ deadLetters' \subseteq Message
          /\ consumer' = IdleConsumer
      BY <1>3, RequeueTypes DEF GiveUp, OneScript
    <2>2. faults' \in [deaths: Nat, failures: Nat]
      BY <1>3, FaultsCount DEF GiveUp, TypeOK
    <2>3. UNCHANGED <<objectVars, run, sheetVars>>
      BY <1>3 DEF GiveUp
    <2>4. TypeOK'
      BY <2>1, <2>2, <2>3, Idle DEF TypeOK, objectVars, sheetVars
    <2> QED
      BY <2>1, <2>3, <2>4, OneScriptStays DEF sheetVars
  <1>4. CASE \E m \in deadLetters : Replay(m)
    <2>1. PICK m \in Message : Replay(m)
      BY <1>4 DEF TypeOK
    <2>2. [m EXCEPT !.attempts = 0] \in Message
      BY DEF Message
    <2>3. TypeOK'
      BY <2>1, <2>2 DEF TypeOK, Replay, objectVars, sheetVars
    <2> QED
      BY <2>1, <2>3, OneScriptStays DEF Replay, sheetVars
  <1> QED
    BY <1>1, <1>2, <1>3, <1>4

(* The script keeps the lock: it enters only when no other script has it,  *)
(* and marks what it found unmarked when it did.                           *)
LEMMA ScriptKeepsLock ==
    ASSUME LockInv, NEW g \in Runs,
           Execute(g) \/ LockTimesOut(g) \/ RunDies(g)
    PROVE  LockInv'
  <1> USE SnapshotSyncAssumption DEF LockInv, SnapshotSyncAssumption
  <1>1. /\ run[g] \in Run
        /\ Busy(g) \/ run[g].step = "waiting" => run[g].customer \in Customers
        /\ run[g].revision \in Revisions
    BY DEF TypeOK, OneScript, Run
  <1>2. CASE Enter(g)
    <2> DEFINE c == run[g].customer
               r == run[g].revision
    <2>1. /\ run[g].step = "waiting" /\ ~Locked
          /\ UNCHANGED <<objectVars, queueVars, sheet, lastRevision, faults>>
      BY <1>2 DEF Enter
    <2>2. \/ Goto(g, "ok") /\ UNCHANGED markers
          \/ markers[c][r] = 0 /\ Goto(g, "ok") /\ Mark(c, r)
          \/ markers[c][r] = 0 /\ Goto(g, "rows") /\ UNCHANGED markers
      BY <1>2 DEF Enter
    <2>3. \A h \in Runs : run[h].step \notin {"rows", "marker", "state"}
      BY <2>1 DEF Locked
    <2>4. PICK step \in RunSteps : step \in {"ok", "rows"} /\ Goto(g, step)
      BY <2>2 DEF RunSteps
    <2>5. /\ run' \in [Runs -> Run]
          /\ \A h \in Runs \ {g} : run'[h] = run[h]
          /\ run'[g].customer = c /\ run'[g].revision = r
          /\ run'[g].step \in {"ok", "rows"}
      BY <2>4, GotoMoves DEF TypeOK
    <2>6. markers' \in [Customers -> [Revisions -> Nat]] /\ MarkedOnce'
      <3>1. \/ UNCHANGED markers
            \/ Mark(c, r) /\ markers[c][r] = 0
        BY <2>2
      <3> QED
        BY <1>1, <2>1, <3>1, MarkCounts DEF TypeOK, OneScript
    <2>7. run'[g].step = "rows" => markers'[c][r] = 0
      <3>1. Goto(g, "ok") => run'[g].step = "ok"
        BY GotoMoves DEF TypeOK, RunSteps
      <3> QED
        BY <2>2, <3>1
    <2>8. TypeOK'
      BY <2>1, <2>5, <2>6 DEF TypeOK, objectVars, queueVars
    <2>9. OneScript'
      BY <1>1, <2>1, <2>3, <2>5, <2>6, <2>7 DEF OneScript, Busy, queueVars
    <2> QED
      BY <2>8, <2>9
  <1>3. CASE WriteMarker(g)
    <2> DEFINE c == run[g].customer
               r == run[g].revision
    <2>1. /\ run[g].step = "marker" /\ Mark(c, r) /\ Goto(g, "state")
          /\ UNCHANGED <<objectVars, queueVars, sheet, lastRevision, faults>>
      BY <1>3 DEF WriteMarker
    <2>2. c \in Customers /\ r \in Revisions /\ markers[c][r] = 0
      BY <1>1, <2>1 DEF Busy, OneScript
    <2>3. markers' \in [Customers -> [Revisions -> Nat]] /\ MarkedOnce'
      BY <2>1, <2>2, MarkCounts DEF TypeOK, OneScript
    <2>4. /\ run' \in [Runs -> Run]
          /\ \A h \in Runs \ {g} : run'[h] = run[h]
          /\ run'[g].customer = c /\ run'[g].step = "state"
      BY <2>1, GotoMoves DEF TypeOK, RunSteps
    <2>5. \A h \in Runs \ {g} : ~Busy(h)
      BY <2>1 DEF OneScript, Busy
    <2>6. TypeOK'
      BY <2>1, <2>3, <2>4 DEF TypeOK, objectVars, queueVars
    <2>7. OneScript'
      BY <2>1, <2>2, <2>3, <2>4, <2>5 DEF OneScript, Busy, queueVars
    <2> QED
      BY <2>6, <2>7
  <1>4. CASE WriteRow(g) \/ WriteState(g) \/ RunDies(g) \/ LockTimesOut(g)
              \/ Forget(g)
    <2>1. /\ run' \in [Runs -> Run]
          /\ \A h \in Runs \ {g} : run'[h] = run[h]
          /\ Busy(g)' \/ run'[g].step = "waiting" =>
                Busy(g) /\ run'[g].customer = run[g].customer
          /\ run'[g].step \in {"rows", "marker"} =>
                run[g].step = "rows" /\ run'[g].revision = run[g].revision
      <3>1. run \in [Runs -> Run]
        BY DEF TypeOK
      <3>2. CASE WriteRow(g)
        BY <3>1, <3>2, RowMoves DEF WriteRow, Busy
      <3>3. CASE Forget(g)
        BY <3>1, <3>3, Idle DEF Forget, Busy
      <3>4. CASE WriteState(g) \/ RunDies(g) \/ LockTimesOut(g)
        <4>1. PICK step \in {"ok", "failed"} : Goto(g, step)
          BY <3>4 DEF WriteState, RunDies, LockTimesOut
        <4> QED
          BY <3>1, <4>1, GotoMoves DEF RunSteps, Busy
      <3> QED
        BY <1>4, <3>2, <3>3, <3>4
    <2>3. UNCHANGED <<objectVars, queueVars, markers>>
      BY <1>4
      DEF WriteRow, WriteState, RunDies, LockTimesOut, Forget, sheetVars
    <2>4. sheet' \in [Customers -> [1 .. Rows -> Revisions]]
      <3>1. sheet \in [Customers -> [1 .. Rows -> Revisions]]
        BY DEF TypeOK
      <3>2. CASE WriteRow(g)
        BY <1>1, <3>1, <3>2, SheetTypes DEF WriteRow, Busy
      <3>3. CASE ~WriteRow(g)
        <4>1. sheet' = sheet
          BY <1>4, <3>3 DEF WriteState, RunDies, LockTimesOut, Forget, sheetVars
        <4> QED
          BY <3>1, <4>1
      <3> QED
        BY <3>2, <3>3
    <2>5. lastRevision' \in [Customers -> Revisions]
      <3>1. lastRevision \in [Customers -> Revisions]
        BY DEF TypeOK
      <3>2. CASE WriteState(g)
        BY <1>1, <3>1, <3>2 DEF WriteState, Busy
      <3>3. CASE ~WriteState(g)
        <4>1. lastRevision' = lastRevision
          BY <1>4, <3>3 DEF WriteRow, RunDies, LockTimesOut, Forget, sheetVars
        <4> QED
          BY <3>1, <4>1
      <3> QED
        BY <3>2, <3>3
    <2>6. faults' \in [deaths: Nat, failures: Nat]
      BY <1>4, FaultsCount
      DEF TypeOK, WriteRow, WriteState, RunDies, LockTimesOut, Forget
    <2>7. TypeOK'
      BY <2>1, <2>3, <2>4, <2>5, <2>6 DEF TypeOK, objectVars, queueVars
    <2>8. OneScript'
      BY <2>1, <2>3 DEF OneScript, Busy, MarkedOnce, queueVars
    <2> QED
      BY <2>7, <2>8
  <1> QED
    BY <1>2, <1>3, <1>4 DEF Execute

LEMMA LockMoves ==
    ASSUME LockInv, [Next]_vars
    PROVE  LockInv'
  <1>1. CASE UNCHANGED vars
    <2>1. UNCHANGED <<revision, published, sends, queue, deadLetters,
                      consumer, run, sheet, markers, lastRevision, faults>>
      BY <1>1 DEF vars, objectVars, queueVars, sheetVars
    <2>2. TypeOK'
      BY <2>1 DEF LockInv, TypeOK
    <2> QED
      BY <2>1, <2>2, OneScriptStays DEF LockInv
  <1>2. CASE Next
    <2>1. CASE \E c \in Customers :
                  Change(c) \/ \E r \in Revisions : Send(c, r) \/ Publish(c, r)
      <3>1. 0 \in Revisions
        BY SnapshotSyncAssumption DEF SnapshotSyncAssumption, Revisions
      <3> QED
        BY <2>1, <3>1, ObjectKeepsLock
    <2>2. CASE \E g \in Runs : Execute(g) \/ LockTimesOut(g) \/ RunDies(g)
      BY <2>2, ScriptKeepsLock
    <2> QED
      BY <1>2, <2>1, <2>2, ConsumerKeepsLock DEF Next
  <1> QED
    BY <1>1, <1>2

(* The invariant of the lock, for every number of customers, copies,       *)
(* scripts and faults: Spec => []LockInv.                                  *)
THEOREM LockHolds == Spec => []LockInv
  BY InitLock, LockMoves, PTL DEF Spec

(* Every reachable state is well typed.                                    *)
THEOREM SyncTypeCorrect == Spec => []TypeOK
  BY LockHolds, PTL DEF LockInv

(* A snapshot is marked at most once, however often the queue delivers it, *)
(* however many scripts run for it together and wherever they die: the     *)
(* lock and the duplicate check of FastPathSync.gs suffice.                *)
THEOREM SnapshotsMarkedOnce == Spec => []MarkedOnce
  BY LockHolds, PTL DEF LockInv, OneScript

-----------------------------------------------------------------------------
(* The sheets, until a script dies.                                        *)

LEMMA InitWhole == Init => Whole
  BY DEF Init, Whole, Untouched, Busy, IdleRun

(* A step of a run that is not writing, or of anybody else.                *)
LEMMA WholeStays ==
    ASSUME Whole, UNCHANGED <<sheet, lastRevision>>,
           \A h \in Runs : \/ run'[h] = run[h]
                           \/ /\ ~Busy(h) /\ ~Busy(h)'
                              /\ run'[h].step = "waiting" => run'[h].row = 1
    PROVE  Whole'
  <1>1. \A h \in Runs : Busy(h) <=> Busy(h)'
    BY DEF Busy
  <1>2. \A h \in Runs : Busy(h)' => run'[h] = run[h]
    BY DEF Busy
  <1>3. \A c \in Customers : Untouched(c)' => Untouched(c)
    BY <1>1, <1>2 DEF Untouched
  <1>4. \A h \in Runs, i \in 1 .. Rows :
           run'[h] = run[h] => (Written(h, i)' <=> Written(h, i))
    BY DEF Written
  <1> QED
    BY <1>1, <1>2, <1>3, <1>4 DEF Whole

LEMMA OthersKeepWhole ==
    ASSUME LockInv, Whole,
           \/ \E c \in Customers :
                 Change(c) \/ \E r \in Revisions : Send(c, r) \/ Publish(c, r)
           \/ \E m \in queue, g \in Runs : Forward(m, g)
           \/ Acknowledge \/ Retry \/ GiveUp
           \/ \E m \in deadLetters : Replay(m)
    PROVE  Whole'
  <1>1. run \in [Runs -> Run] /\ (consumer.run # None => consumer.run \in Runs)
    BY DEF LockInv, TypeOK
  <1>2. CASE \/ \E c \in Customers :
                  Change(c) \/ \E r \in Revisions : Send(c, r) \/ Publish(c, r)
             \/ GiveUp
             \/ \E m \in deadLetters : Replay(m)
    <2>1. UNCHANGED <<run, sheet, lastRevision>>
      BY <1>2 DEF Change, Send, Publish, GiveUp, Replay, sheetVars
    <2> QED
      BY <2>1, WholeStays
  <1>3. CASE \E m \in queue, g \in Runs : Forward(m, g)
    <2>1. PICK g \in Runs : \E m \in queue : Forward(m, g)
      BY <1>3
    <2>2. PICK m \in queue : Forward(m, g)
      BY <2>1
    <2>3. /\ run[g].step = "idle"
          /\ run'[g].step = "waiting" /\ run'[g].row = 1
          /\ \A h \in Runs \ {g} : run'[h] = run[h]
          /\ UNCHANGED <<sheet, lastRevision>>
      BY <1>1, <2>2 DEF Forward, IdleRun, sheetVars
    <2> QED
      BY <2>3, WholeStays DEF Busy
  <1>4. CASE Acknowledge \/ Retry
    <2>1. /\ consumer.run \in Runs
          /\ run[consumer.run].step \in {"ok", "failed"}
          /\ run' = [run EXCEPT ![consumer.run] = IdleRun]
          /\ UNCHANGED <<sheet, lastRevision>>
      BY <1>1, <1>4 DEF Acknowledge, Retry, sheetVars
    <2>2. /\ run'[consumer.run].step = "idle"
          /\ \A h \in Runs \ {consumer.run} : run'[h] = run[h]
      BY <1>1, <2>1, Idle
    <2> QED
      BY <2>1, <2>2, WholeStays DEF Busy
  <1> QED
    BY <1>2, <1>3, <1>4

LEMMA ScriptKeepsWhole ==
    ASSUME Undisturbed', LockInv, Whole, NEW g \in Runs,
           Execute(g) \/ LockTimesOut(g) \/ RunDies(g)
    PROVE  Whole' /\ \A c \in Customers, i \in 1 .. Rows :
                        sheet'[c][i] >= sheet[c][i]
  <1>1. /\ run \in [Runs -> Run] /\ run[g] \in Run
        /\ sheet \in [Customers -> [1 .. Rows -> Revisions]]
        /\ lastRevision \in [Customers -> Revisions]
        /\ Busy(g) \/ run[g].step = "waiting" => run[g].customer \in Customers
        /\ \A h \in Runs : Busy(g) /\ Busy(h) => g = h
    BY DEF LockInv, TypeOK, OneScript
  <1>2. /\ run[g].revision \in Revisions /\ run[g].row \in 1 .. Rows
        /\ Revisions \subseteq Nat /\ Rows \in Nat
    BY <1>1, SnapshotSyncAssumption
    DEF Run, Revisions, SnapshotSyncAssumption
  <1>3. ~RunDies(g)
    <2>1. faults \in [deaths: Nat, failures: Nat]
      BY DEF LockInv, TypeOK
    <2> QED
      BY <2>1 DEF RunDies, Dies, Undisturbed
  <1>4. \A c \in Customers, i \in 1 .. Rows : sheet[c][i] \in Nat
    BY <1>1, <1>2
  <1>5. CASE \/ LockTimesOut(g) \/ Forget(g)
             \/ run[g].step = "waiting" /\ Goto(g, "ok")
                   /\ UNCHANGED <<sheet, lastRevision>>
    <2>1. UNCHANGED <<sheet, lastRevision>>
      BY <1>5 DEF LockTimesOut, Forget, sheetVars
    <2>2. ~Busy(g) /\ run'[g].step \in {"ok", "failed", "idle"}
      BY <1>1, <1>5, GotoMoves, Idle DEF LockTimesOut, Forget, RunSteps, Busy
    <2>3. \A h \in Runs \ {g} : run'[h] = run[h]
      BY <1>1, <1>5, GotoMoves, Idle DEF LockTimesOut, Forget, RunSteps
    <2>4. Whole'
      BY <2>1, <2>2, <2>3, WholeStays DEF Busy
    <2> QED
      BY <1>4, <2>1, <2>4
  <1>6. CASE Enter(g) /\ Goto(g, "rows") /\
                run[g].revision > lastRevision[run[g].customer]
    <2>1. /\ run[g].step = "waiting" /\ run[g].row = 1
          /\ UNCHANGED <<sheet, lastRevision>>
          /\ \A h \in Runs : ~Busy(h)
      BY <1>6 DEF Enter, Whole, Locked, Busy
    <2>2. /\ \A h \in Runs \ {g} : run'[h] = run[h]
          /\ run'[g].step = "rows" /\ run'[g].row = 1
          /\ run'[g].customer = run[g].customer
          /\ run'[g].revision = run[g].revision
      BY <1>1, <1>6, <2>1, GotoMoves DEF RunSteps
    <2>3. \A c \in Customers, i \in 1 .. Rows : sheet[c][i] = lastRevision[c]
      BY <2>1 DEF Whole, Untouched
    <2>4. \A i \in 1 .. Rows : ~Written(g, i)'
      BY <2>2 DEF Written
    <2>5. \A h \in Runs : Busy(h)' => h = g
      BY <2>1, <2>2 DEF Busy
    <2>6. Whole'
      BY <1>1, <1>6, <2>1, <2>2, <2>3, <2>4, <2>5 DEF Whole, Untouched
    <2> QED
      BY <1>4, <2>1, <2>6
  <1>7. CASE WriteRow(g) \/ WriteMarker(g)
    <2> DEFINE c == run[g].customer
               r == run[g].revision
    <2>1. /\ Busy(g) /\ c \in Customers /\ UNCHANGED lastRevision
          /\ r > lastRevision[c]
      BY <1>1, <1>7 DEF WriteRow, WriteMarker, Busy, Whole
    <2>2. /\ \A h \in Runs \ {g} : run'[h] = run[h]
          /\ run'[g].customer = c /\ run'[g].revision = r
          /\ Busy(g)' /\ run'[g].step # "waiting"
      BY <1>1, <1>7, RowMoves, GotoMoves
      DEF WriteRow, WriteMarker, RunSteps, Busy
    <2>3. \A h \in Runs : Busy(h)' => h = g
      BY <1>1, <2>1, <2>2 DEF Busy
    <2>4. \A d \in Customers \ {c} : sheet'[d] = sheet[d]
      BY <1>1, <1>7 DEF WriteRow, WriteMarker
    <2>5. \A i \in 1 .. Rows :
             sheet'[c][i] = IF Written(g, i)' THEN r ELSE lastRevision[c]
      <3>1. \A i \in 1 .. Rows :
               sheet[c][i] = IF Written(g, i) THEN r ELSE lastRevision[c]
        BY <2>1 DEF Whole
      <3>2. CASE WriteRow(g)
        <4>1. /\ sheet'[c][run[g].row] = r
              /\ \A i \in 1 .. Rows : i # run[g].row => sheet'[c][i] = sheet[c][i]
          BY <1>1, <1>2, <2>1, <3>2 DEF WriteRow
        <4>2. \A i \in 1 .. Rows : Written(g, i)' <=> i <= run[g].row
          BY <1>1, <1>2, <3>2, RowMoves DEF Written
        <4>3. \A i \in 1 .. Rows : Written(g, i) <=> i < run[g].row
          BY <3>2 DEF Written, WriteRow
        <4> QED
          BY <1>2, <3>1, <4>1, <4>2, <4>3
      <3>3. CASE WriteMarker(g)
        <4>1. /\ sheet' = sheet /\ run[g].step = "marker"
              /\ run'[g].step = "state"
          BY <1>1, <3>3, GotoMoves DEF WriteMarker, RunSteps
        <4> QED
          BY <3>1, <4>1 DEF Written
      <3> QED
        BY <1>7, <3>2, <3>3
    <2>6. \A d \in Customers : Untouched(d)' => d # c /\ Untouched(d)
      BY <2>2 DEF Untouched, Busy
    <2>7. Whole'
      BY <2>1, <2>2, <2>3, <2>4, <2>5, <2>6 DEF Whole
    <2>8. \A i \in 1 .. Rows : sheet'[c][i] >= sheet[c][i]
      <3>1. \A i \in 1 .. Rows : sheet[c][i] = r \/ sheet[c][i] = lastRevision[c]
        BY <2>1 DEF Whole
      <3>2. \A i \in 1 .. Rows : sheet'[c][i] = r \/ sheet'[c][i] = sheet[c][i]
        <4>1. CASE WriteRow(g)
          BY <1>1, <2>1, <4>1 DEF WriteRow
        <4>2. CASE WriteMarker(g)
          BY <4>2 DEF WriteMarker
        <4> QED
          BY <1>7, <4>1, <4>2
      <3>3. r \in Nat /\ lastRevision[c] \in Nat
        BY <1>1, <1>2, <2>1
      <3>4. \A i \in 1 .. Rows : sheet[c][i] \in Nat /\ sheet[c][i] <= r
        BY <1>4, <2>1, <3>1, <3>3
      <3>5. \A i \in 1 .. Rows : sheet'[c][i] \in Nat /\ sheet'[c][i] >= sheet[c][i]
        BY <3>2, <3>3, <3>4
      <3> QED
        BY <3>5
    <2> QED
      BY <1>4, <2>4, <2>7, <2>8
  <1>8. CASE WriteState(g)
    <2> DEFINE c == run[g].customer
               r == run[g].revision
    <2>1. /\ Busy(g) /\ c \in Customers /\ UNCHANGED sheet
          /\ lastRevision' = [lastRevision EXCEPT ![c] = r]
          /\ run[g].step = "state" /\ Goto(g, "ok")
      BY <1>1, <1>8 DEF WriteState, Busy
    <2>2. /\ \A h \in Runs \ {g} : run'[h] = run[h]
          /\ run'[g].step = "ok"
      BY <1>1, <2>1, GotoMoves DEF RunSteps
    <2>3. \A i \in 1 .. Rows : sheet[c][i] = r
      BY <2>1 DEF Whole, Written
    <2>4. \A h \in Runs : ~Busy(h)'
      BY <1>1, <2>1, <2>2 DEF Busy
    <2>5. \A d \in Customers \ {c} : Untouched(d)
      BY <1>1, <2>1 DEF Untouched
    <2>6. /\ lastRevision'[c] = r
          /\ \A d \in Customers \ {c} : lastRevision'[d] = lastRevision[d]
      BY <1>1, <2>1
    <2>7. \A d \in Customers, i \in 1 .. Rows : sheet[d][i] = lastRevision'[d]
      BY <2>3, <2>5, <2>6 DEF Whole
    <2>8. Whole'
      BY <2>1, <2>2, <2>4, <2>7 DEF Whole
    <2> QED
      BY <1>4, <2>1, <2>8
  <1> QED
    BY <1>3, <1>5, <1>6, <1>7, <1>8 DEF Execute, Enter

(* Deaths are never forgotten.                                             *)
LEMMA DeathsOnlyGrow ==
    ASSUME LockInv, [Next]_vars, Undisturbed'
    PROVE  Undisturbed
  <1>1. faults \in [deaths: Nat, failures: Nat]
    BY DEF LockInv, TypeOK
  <1>2. UNCHANGED faults \/ Dies \/ Fails
    <2>1. CASE UNCHANGED vars
      BY <2>1 DEF vars
    <2>2. CASE Next
      BY <2>2
      DEF Next, Change, Send, Publish, Forward, Acknowledge, Retry, GiveUp,
          Replay, Execute, Enter, WriteRow, WriteMarker, WriteState, Forget,
          LockTimesOut, RunDies
    <2> QED
      BY <2>1, <2>2
  <1>3. faults'.deaths = faults.deaths \/ faults'.deaths = faults.deaths + 1
    BY <1>1, <1>2 DEF Dies, Fails
  <1> QED
    BY <1>1, <1>3 DEF Undisturbed

LEMMA WholeMoves ==
    ASSUME LockInv, Undisturbed => Whole, [Next]_vars
    PROVE  /\ Undisturbed' => Whole'
           /\ [Undisturbed' =>
                  \A c \in Customers, i \in 1 .. Rows :
                      sheet'[c][i] >= sheet[c][i]]_vars
  <1> SUFFICES ASSUME Undisturbed'
               PROVE  /\ Whole'
                      /\ \/ \A c \in Customers, i \in 1 .. Rows :
                               sheet'[c][i] >= sheet[c][i]
                         \/ UNCHANGED vars
    OBVIOUS
  <1>1. \A c \in Customers, i \in 1 .. Rows : sheet[c][i] \in Nat
    BY SnapshotSyncAssumption
    DEF LockInv, TypeOK, Revisions, SnapshotSyncAssumption
  <1>2. Whole
    BY DeathsOnlyGrow
  <1>3. CASE UNCHANGED vars
    <2>1. UNCHANGED <<run, sheet, lastRevision>>
      BY <1>3 DEF vars, sheetVars
    <2> QED
      BY <1>2, <1>3, <2>1, WholeStays
  <1>4. CASE \E g \in Runs : Execute(g) \/ LockTimesOut(g) \/ RunDies(g)
    BY <1>2, <1>4, ScriptKeepsWhole
  <1>5. CASE \/ \E c \in Customers :
                  Change(c) \/ \E r \in Revisions : Send(c, r) \/ Publish(c, r)
             \/ \E m \in queue, g \in Runs : Forward(m, g)
             \/ Acknowledge \/ Retry \/ GiveUp
             \/ \E m \in deadLetters : Replay(m)
    <2>1. UNCHANGED sheet
      BY <1>5
      DEF Change, Send, Publish, Forward, Acknowledge, Retry, GiveUp, Replay,
          sheetVars
    <2> QED
      BY <1>1, <1>2, <1>5, <2>1, OthersKeepWhole
  <1> QED
    BY <1>3, <1>4, <1>5 DEF Next

LEMMA WholeHolds == Spec => [](LockInv /\ (Undisturbed => Whole))
  <1>1. Init => LockInv /\ Whole
    BY InitLock, InitWhole
  <1>2. LockInv /\ (Undisturbed => Whole) /\ [Next]_vars =>
           (Undisturbed => Whole)'
    BY WholeMoves
  <1>3. Spec => []LockInv
    BY LockHolds
  <1> QED
    BY <1>1, <1>2, <1>3, PTL DEF Spec

(* Until a script dies half-way, whoever takes the lock finds the rows of  *)
(* one snapshot, the one FastPathSyncState names, in any order of delivery *)
(* and with any number of overlapping scripts.                             *)
THEOREM SheetsStayWhole == Spec => []SheetsAreWhole
  <1>1. LockInv /\ (Undisturbed => Whole) => SheetsAreWhole
    BY DEF Whole, Untouched, SheetsAreWhole, Locked, Busy
  <1> QED
    BY <1>1, WholeHolds, PTL

(* Until a script dies half-way, a row of a sheet is never overwritten by  *)
(* an older snapshot.                                                      *)
THEOREM SheetsOnlyAdvance == Spec => RowsNeverGoBack
  <1>1. LockInv /\ (Undisturbed => Whole) /\ [Next]_vars =>
           [Undisturbed' =>
               \A c \in Customers, i \in 1 .. Rows :
                   sheet'[c][i] >= sheet[c][i]]_vars
    BY WholeMoves
  <1> QED
    BY <1>1, WholeHolds, PTL DEF Spec, RowsNeverGoBack

-----------------------------------------------------------------------------
(* Where every snapshot is, whatever dies.                                 *)

Kept(c, r) ==
    \E m \in queue \cup deadLetters : m.customer = c /\ m.revision = r

Sent(c, r)   == sends[c][r] > 0
Marked(c, r) == markers[c][r] > 0

(* A snapshot that was sent is in one of the queues until it is marked.    *)
SentKept ==
    \A c \in Customers, r \in Revisions :
        /\ r \in published[c] => Sent(c, r)
        /\ Sent(c, r) => Kept(c, r) \/ Marked(c, r)

MessagesSent == \A m \in queue \cup deadLetters : Sent(m.customer, m.revision)

(* A script runs for a snapshot that was sent, and says OK only when that  *)
(* has been marked.                                                        *)
RunsSent ==
    \A g \in Runs :
        /\ run[g].step # "idle" => /\ run[g].customer \in Customers
                                   /\ Sent(run[g].customer, run[g].revision)
        /\ run[g].step \in {"state", "ok"} =>
              Marked(run[g].customer, run[g].revision)

(* The consumer waits for a run of its own message.                        *)
ConsumerWaits ==
    consumer.run # None =>
        /\ run[consumer.run].step # "idle"
        /\ run[consumer.run].customer = consumer.message.customer
        /\ run[consumer.run].revision = consumer.message.revision

Tracked == SentKept /\ MessagesSent /\ RunsSent /\ ConsumerWaits

LEMMA InitTracked == Init => Tracked
  BY SnapshotSyncAssumption
  DEF Init, Tracked, SentKept, MessagesSent, RunsSent, ConsumerWaits, Sent,
      IdleRun, IdleConsumer, SnapshotSyncAssumption

(* What counts is never taken back. *)
LEMMA SendingStays ==
    ASSUME TypeOK, NEW c \in Customers, NEW r \in Revisions, Send(c, r)
    PROVE  /\ Sent(c, r)'
           /\ \A d \in Customers, s \in Revisions : Sent(d, s) => Sent(d, s)'
           /\ \A d \in Customers, s \in Revisions :
                 Sent(d, s)' => Sent(d, s) \/ (d = c /\ s = r)
  <1>1. /\ sends \in [Customers -> [Revisions -> 0 .. MaxSends]]
        /\ sends' = [sends EXCEPT ![c][r] = @ + 1]
        /\ MaxSends \in Nat
    BY SnapshotSyncAssumption DEF TypeOK, Send, SnapshotSyncAssumption
  <1>2. /\ sends'[c][r] = sends[c][r] + 1
        /\ \A d \in Customers, s \in Revisions :
              d # c \/ s # r => sends'[d][s] = sends[d][s]
    BY <1>1
  <1>3. \A d \in Customers, s \in Revisions : sends[d][s] \in Nat
    BY <1>1
  <1> QED
    BY <1>2, <1>3 DEF Sent

LEMMA MarkStays ==
    ASSUME markers \in [Customers -> [Revisions -> Nat]],
           NEW c \in Customers, NEW r \in Revisions, Mark(c, r)
    PROVE  /\ Marked(c, r)'
           /\ \A d \in Customers, s \in Revisions :
                 Marked(d, s) => Marked(d, s)'
           /\ \A d \in Customers, s \in Revisions :
                 Marked(d, s)' => Marked(d, s) \/ (d = c /\ s = r)
  <1>1. /\ markers'[c][r] = markers[c][r] + 1
        /\ \A d \in Customers, s \in Revisions :
              d # c \/ s # r => markers'[d][s] = markers[d][s]
    BY DEF Mark
  <1>2. \A d \in Customers, s \in Revisions : markers[d][s] \in Nat
    OBVIOUS
  <1> QED
    BY <1>1, <1>2 DEF Marked

LEMMA RequeueKeeps ==
    ASSUME NEW m \in Message, Requeue(m)
    PROVE  /\ \A c \in Customers, r \in Revisions : Kept(c, r) => Kept(c, r)'
           /\ \A x \in queue' \cup deadLetters' :
                 \E y \in queue \cup deadLetters \cup {m} :
                    x.customer = y.customer /\ x.revision = y.revision
  <1>1. PICK n : n = [m EXCEPT !.attempts = @ + 1]
    OBVIOUS
  <1>2. n.customer = m.customer /\ n.revision = m.revision
    BY <1>1 DEF Message
  <1>3. \/ /\ queue' = (queue \ {m}) \cup {n}
           /\ deadLetters' = deadLetters
        \/ /\ queue' = queue \ {m}
           /\ deadLetters' = deadLetters \cup {m}
    BY <1>1 DEF Requeue
  <1> QED
    BY <1>2, <1>3 DEF Kept

LEMMA ObjectKeepsTracked ==
    ASSUME TypeOK, Tracked, NEW c \in Customers, NEW r \in Revisions,
           Change(c) \/ Send(c, r) \/ Publish(c, r)
    PROVE  Tracked'
  <1>1. UNCHANGED <<deadLetters, consumer, run, markers>>
    BY DEF Change, Send, Publish, queueVars, sheetVars
  <1>2. CASE Send(c, r)
    <2>1. PICK m : m = [customer |-> c, revision |-> r,
                        copy |-> sends[c][r] + 1, attempts |-> 0]
      OBVIOUS
    <2>2. queue' = queue \cup {m} /\ m.customer = c /\ m.revision = r
      BY <1>2, <2>1 DEF Send
    <2>3. UNCHANGED published
      BY <1>2 DEF Send
    <2>4. /\ Sent(c, r)'
          /\ \A d \in Customers, s \in Revisions : Sent(d, s) => Sent(d, s)'
          /\ \A d \in Customers, s \in Revisions :
                Sent(d, s)' => Sent(d, s) \/ (d = c /\ s = r)
      BY <1>2, SendingStays
    <2>5. Kept(c, r)' /\ \A d \in Customers, s \in Revisions :
                            Kept(d, s) => Kept(d, s)'
      BY <1>1, <2>2 DEF Kept
    <2>6. SentKept'
      <3>1. ASSUME NEW d \in Customers, NEW s \in Revisions
            PROVE  /\ s \in published'[d] => Sent(d, s)'
                   /\ Sent(d, s)' => Kept(d, s)' \/ Marked(d, s)'
        BY <1>1, <2>3, <2>4, <2>5 DEF Tracked, SentKept, Marked
      <3> QED
        BY <3>1 DEF SentKept
    <2>7. MessagesSent'
      <3>1. ASSUME NEW x \in queue' \cup deadLetters'
            PROVE  Sent(x.customer, x.revision)'
        <4>1. CASE x = m
          BY <2>2, <2>4, <4>1 DEF Sent
        <4>2. CASE x \in queue \cup deadLetters
          <5>1. PICK d \in Customers, s \in Revisions :
                    d = x.customer /\ s = x.revision
            BY <4>2 DEF TypeOK, Message
          <5>2. Sent(d, s)
            BY <4>2, <5>1 DEF Tracked, MessagesSent
          <5>3. Sent(d, s)'
            BY <2>4, <5>2
          <5> QED
            BY <5>1, <5>3 DEF Sent
        <4> QED
          BY <1>1, <2>2, <4>1, <4>2
      <3> QED
        BY <3>1 DEF MessagesSent
    <2>8. RunsSent'
      <3>1. ASSUME NEW g \in Runs
            PROVE  /\ run[g].step # "idle" =>
                         /\ run[g].customer \in Customers
                         /\ Sent(run[g].customer, run[g].revision)'
                   /\ run[g].step \in {"state", "ok"} =>
                         Marked(run[g].customer, run[g].revision)
        <4>1. run[g].revision \in Revisions
          BY DEF TypeOK, Run
        <4>2. PICK d, s : d = run[g].customer /\ s = run[g].revision
          OBVIOUS
        <4>3. run[g].step # "idle" => d \in Customers /\ Sent(d, s)
          BY <4>2 DEF Tracked, RunsSent
        <4>4. run[g].step # "idle" => Sent(d, s)'
          BY <2>4, <4>1, <4>2, <4>3
        <4> QED
          BY <1>1, <4>2, <4>3, <4>4 DEF Tracked, RunsSent, Sent
      <3> QED
        BY <1>1, <3>1 DEF RunsSent, Marked, Sent
    <2> QED
      BY <1>1, <2>6, <2>7, <2>8 DEF Tracked, ConsumerWaits
  <1>3. CASE Publish(c, r)
    <2>1. /\ UNCHANGED <<sends, queue>> /\ Sent(c, r)
          /\ published' = [published EXCEPT ![c] = @ \cup {r}]
      BY <1>3 DEF Publish, Sent, queueVars
    <2>2. \A d \in Customers, s \in Revisions :
              s \in published'[d] => s \in published[d] \/ (d = c /\ s = r)
      BY <2>1 DEF TypeOK
    <2> QED
      BY <1>1, <2>1, <2>2
      DEF Tracked, SentKept, MessagesSent, RunsSent, ConsumerWaits, Sent,
          Marked, Kept
  <1>4. CASE Change(c)
    BY <1>1, <1>4
    DEF Change, queueVars, Tracked, SentKept, MessagesSent, RunsSent,
        ConsumerWaits, Sent, Marked, Kept
  <1> QED
    BY <1>2, <1>3, <1>4

LEMMA ConsumerKeepsTracked ==
    ASSUME LockInv, Tracked,
           \/ \E m \in queue, g \in Runs : Forward(m, g)
           \/ Acknowledge \/ Retry \/ GiveUp
           \/ \E m \in deadLetters : Replay(m)
    PROVE  Tracked'
  <1>0. /\ TypeOK /\ run \in [Runs -> Run]
        /\ consumer.run # None =>
              /\ consumer.run \in Runs /\ consumer.message \in Message
              /\ Sent(consumer.message.customer, consumer.message.revision)
    BY DEF LockInv, TypeOK, OneScript, Tracked, ConsumerWaits, RunsSent
  <1>1. UNCHANGED <<published, sends, markers>>
    BY DEF Forward, Acknowledge, Retry, GiveUp, Replay, objectVars, sheetVars
  <1>2. ASSUME \A c \in Customers, r \in Revisions :
                   Kept(c, r) => Kept(c, r)' \/ Marked(c, r)
        PROVE  SentKept'
    <2>1. ASSUME NEW c \in Customers, NEW r \in Revisions
          PROVE  /\ r \in published'[c] => Sent(c, r)'
                 /\ Sent(c, r)' => Kept(c, r)' \/ Marked(c, r)'
      BY <1>1, <1>2 DEF Tracked, SentKept, Sent, Marked
    <2> QED
      BY <2>1 DEF SentKept
  <1>3. ASSUME \A x \in queue' \cup deadLetters' : Sent(x.customer, x.revision)
        PROVE  MessagesSent'
    BY <1>1, <1>3 DEF MessagesSent, Sent
  <1>4. ASSUME \A g \in Runs : run'[g] = run[g] \/ run'[g].step = "idle"
        PROVE  RunsSent'
    BY <1>1, <1>4 DEF Tracked, RunsSent, Sent, Marked
  <1>5. CASE \E m \in queue, g \in Runs : Forward(m, g)
    <2>1. PICK m \in Message, g \in Runs : m \in queue /\ Forward(m, g)
      BY <1>0, <1>5 DEF TypeOK
    <2>2. /\ m.customer \in Customers /\ m.revision \in Revisions
          /\ Sent(m.customer, m.revision)
      BY <2>1 DEF Message, Tracked, MessagesSent
    <2>3. /\ \A h \in Runs : h # g => run'[h] = run[h]
          /\ run'[g].step = "waiting" /\ run'[g].customer = m.customer
          /\ run'[g].revision = m.revision
          /\ consumer' = [message |-> m, run |-> g]
          /\ UNCHANGED <<queue, deadLetters>>
      BY <1>0, <2>1 DEF Forward
    <2>4. SentKept' /\ MessagesSent'
      BY <1>1, <2>3 DEF Tracked, SentKept, MessagesSent, Sent, Kept, Marked
    <2>5. RunsSent'
      BY <1>1, <2>2, <2>3 DEF Tracked, RunsSent, Sent, Marked
    <2>6. ConsumerWaits'
      BY <2>3 DEF ConsumerWaits
    <2> QED
      BY <2>4, <2>5, <2>6 DEF Tracked
  <1>6. CASE Acknowledge \/ Retry
    <2>1. /\ consumer.run \in Runs /\ consumer.message \in Message
          /\ run' = [run EXCEPT ![consumer.run] = IdleRun]
          /\ consumer' = IdleConsumer
      BY <1>0, <1>6 DEF Acknowledge, Retry, Requeue
    <2>2. PICK m \in Message : m = consumer.message
      BY <2>1
    <2>3. Sent(m.customer, m.revision)
      BY <1>0, <1>6, <2>2 DEF Acknowledge, Retry
    <2>4. \A h \in Runs : run'[h] = run[h] \/ run'[h].step = "idle"
      BY <1>0, <2>1, Idle
    <2>5. /\ \A c \in Customers, r \in Revisions :
                Kept(c, r) => Kept(c, r)' \/ Marked(c, r)
          /\ \A x \in queue' \cup deadLetters' : Sent(x.customer, x.revision)
      <3>1. CASE Acknowledge
        <4>1. queue' = queue \ {m} /\ UNCHANGED deadLetters
          BY <2>2, <3>1 DEF Acknowledge
        <4>2. Marked(m.customer, m.revision)
          BY <2>1, <2>2, <3>1
          DEF Acknowledge, Tracked, ConsumerWaits, RunsSent
        <4> QED
          BY <4>1, <4>2 DEF Kept, Tracked, MessagesSent
      <3>2. CASE Retry
        <4>1. Requeue(m)
          BY <2>2, <3>2 DEF Retry
        <4> QED
          BY <2>3, <4>1, RequeueKeeps DEF Tracked, MessagesSent
      <3> QED
        BY <1>6, <3>1, <3>2
    <2>6. ConsumerWaits'
      BY <2>1, Idle DEF ConsumerWaits
    <2> QED
      BY <1>2, <1>3, <1>4, <2>4, <2>5, <2>6 DEF Tracked
  <1>7. CASE GiveUp
    <2>1. PICK m \in Message : m = consumer.message
      BY <1>0, <1>7 DEF GiveUp
    <2>2. Sent(m.customer, m.revision)
      BY <1>0, <1>7, <2>1 DEF GiveUp
    <2>3. Requeue(m) /\ UNCHANGED run /\ consumer' = IdleConsumer
      BY <1>7, <2>1 DEF GiveUp, Requeue
    <2>4. /\ \A c \in Customers, r \in Revisions :
                Kept(c, r) => Kept(c, r)' \/ Marked(c, r)
          /\ \A x \in queue' \cup deadLetters' : Sent(x.customer, x.revision)
      BY <2>2, <2>3, RequeueKeeps DEF Tracked, MessagesSent
    <2>5. ConsumerWaits'
      BY <2>3, Idle DEF ConsumerWaits
    <2> QED
      BY <1>2, <1>3, <1>4, <2>3, <2>4, <2>5 DEF Tracked
  <1>8. CASE \E m \in deadLetters : Replay(m)
    <2>1. PICK m \in Message : m \in deadLetters /\ Replay(m)
      BY <1>0, <1>8 DEF TypeOK
    <2>2. PICK n : n = [m EXCEPT !.attempts = 0]
      OBVIOUS
    <2>3. n.customer = m.customer /\ n.revision = m.revision
      BY <2>2 DEF Message
    <2>4. /\ queue' = queue \cup {n} /\ deadLetters' = deadLetters \ {m}
          /\ UNCHANGED <<run, consumer>>
      BY <2>1, <2>2 DEF Replay
    <2>5. \A c \in Customers, r \in Revisions : Kept(c, r) => Kept(c, r)'
      BY <2>3, <2>4 DEF Kept
    <2>6. \A x \in queue' \cup deadLetters' : Sent(x.customer, x.revision)
      BY <2>1, <2>3, <2>4 DEF Tracked, MessagesSent
    <2>7. ConsumerWaits'
      BY <2>4 DEF Tracked, ConsumerWaits
    <2> QED
      BY <1>2, <1>3, <1>4, <2>4, <2>5, <2>6, <2>7 DEF Tracked
  <1> QED
    BY <1>5, <1>6, <1>7, <1>8

(* What a step of a script does to the run, and what it marks. *)
LEMMA ScriptMoves ==
    ASSUME LockInv, NEW g \in Runs,
           Execute(g) \/ LockTimesOut(g) \/ RunDies(g)
    PROVE  /\ UNCHANGED <<objectVars, queueVars>>
           /\ \A h \in Runs \ {g} : run'[h] = run[h]
           /\ \A c \in Customers, r \in Revisions :
                 /\ Marked(c, r) => Marked(c, r)'
                 /\ Marked(c, r)' =>
                       \/ Marked(c, r)
                       \/ c = run[g].customer /\ r = run[g].revision
           /\ \/ run'[g].step = "idle" /\ consumer.run # g
              \/ /\ run[g].step # "idle" /\ run'[g].step # "idle"
                 /\ run'[g].customer = run[g].customer
                 /\ run'[g].revision = run[g].revision
                 /\ run'[g].step \in {"state", "ok"} =>
                       \/ run[g].step = "state"
                       \/ markers'[run[g].customer][run[g].revision] > 0
  <1>1. /\ run \in [Runs -> Run] /\ run[g] \in Run
        /\ markers \in [Customers -> [Revisions -> Nat]]
        /\ Busy(g) \/ run[g].step = "waiting" => run[g].customer \in Customers
        /\ run[g].revision \in Revisions
    BY DEF LockInv, TypeOK, OneScript, Run
  <1>2. UNCHANGED <<objectVars, queueVars>>
    BY DEF Execute, Enter, WriteRow, WriteMarker, WriteState, Forget,
           LockTimesOut, RunDies
  <1>3. CASE Enter(g)
    <2>1. PICK c \in Customers, r \in Revisions :
              c = run[g].customer /\ r = run[g].revision
      BY <1>1, <1>3 DEF Enter
    <2>2. \/ Marked(c, r) /\ Goto(g, "ok") /\ UNCHANGED markers
          \/ Goto(g, "ok") /\ Mark(c, r)
          \/ Goto(g, "rows") /\ UNCHANGED markers
      BY <1>3, <2>1 DEF Enter, Marked
    <2>3. run[g].step # "idle"
      BY <1>3 DEF Enter
    <2>4. CASE Marked(c, r) /\ Goto(g, "ok") /\ UNCHANGED markers
      <3>1. \A d, s : Marked(d, s)' <=> Marked(d, s)
        BY <2>4 DEF Marked
      <3>2. markers'[run[g].customer][run[g].revision] > 0
        BY <2>1, <2>4 DEF Marked
      <3> QED
        BY <1>1, <1>2, <2>3, <2>4, <3>1, <3>2, GotoMoves DEF RunSteps
    <2>5. CASE Goto(g, "ok") /\ Mark(c, r)
      <3>1. /\ \A d \in Customers, s \in Revisions :
                  Marked(d, s) => Marked(d, s)'
            /\ \A d \in Customers, s \in Revisions :
                  Marked(d, s)' => Marked(d, s) \/ (d = c /\ s = r)
            /\ Marked(c, r)'
        BY <1>1, <2>5, MarkStays
      <3>2. markers'[run[g].customer][run[g].revision] > 0
        BY <2>1, <3>1 DEF Marked
      <3> QED
        BY <1>1, <1>2, <2>1, <2>3, <2>5, <3>1, <3>2, GotoMoves DEF RunSteps
    <2>6. CASE Goto(g, "rows") /\ UNCHANGED markers
      <3>1. \A d, s : Marked(d, s)' <=> Marked(d, s)
        BY <2>6 DEF Marked
      <3> QED
        BY <1>1, <1>2, <2>3, <2>6, <3>1, GotoMoves DEF RunSteps
    <2> QED
      BY <2>2, <2>4, <2>5, <2>6
  <1>4. CASE WriteMarker(g)
    <2>1. PICK c \in Customers, r \in Revisions :
              c = run[g].customer /\ r = run[g].revision
      BY <1>1, <1>4 DEF WriteMarker, Busy
    <2>2. /\ Mark(c, r) /\ Goto(g, "state") /\ run[g].step # "idle"
      BY <1>4, <2>1 DEF WriteMarker
    <2>3. /\ \A d \in Customers, s \in Revisions :
                Marked(d, s) => Marked(d, s)'
          /\ \A d \in Customers, s \in Revisions :
                Marked(d, s)' => Marked(d, s) \/ (d = c /\ s = r)
          /\ Marked(c, r)'
      BY <1>1, <2>2, MarkStays
    <2>4. markers'[run[g].customer][run[g].revision] > 0
      BY <2>1, <2>3 DEF Marked
    <2> QED
      BY <1>1, <1>2, <2>1, <2>2, <2>3, <2>4, GotoMoves DEF RunSteps
  <1>5. CASE WriteRow(g) \/ WriteState(g) \/ LockTimesOut(g) \/ RunDies(g)
               \/ Forget(g)
    <2>1. UNCHANGED markers
      BY <1>5
      DEF WriteRow, WriteState, LockTimesOut, RunDies, Forget, sheetVars
    <2>2. \A d, s : Marked(d, s)' <=> Marked(d, s)
      BY <2>1 DEF Marked
    <2>3. CASE WriteRow(g)
      <3>1. run[g].step # "idle"
        BY <2>3 DEF WriteRow
      <3>2. run'[g].step \in {"rows", "marker"}
        BY <1>1, <2>3, RowMoves
      <3>3. /\ \A h \in Runs \ {g} : run'[h] = run[h]
            /\ run'[g].customer = run[g].customer
            /\ run'[g].revision = run[g].revision
        BY <1>1, <2>3, RowMoves
      <3> QED
        BY <1>2, <2>2, <3>1, <3>2, <3>3
    <2>4. CASE WriteState(g)
      BY <1>1, <1>2, <2>2, <2>4, GotoMoves DEF RunSteps, WriteState
    <2>5. CASE LockTimesOut(g) \/ RunDies(g)
      BY <1>1, <1>2, <2>2, <2>5, GotoMoves DEF RunSteps, LockTimesOut, RunDies
    <2>6. CASE Forget(g)
      BY <1>1, <1>2, <2>2, <2>6, Idle DEF Forget
    <2> QED
      BY <1>5, <2>3, <2>4, <2>5, <2>6
  <1> QED
    BY <1>3, <1>4, <1>5 DEF Execute

LEMMA ScriptKeepsTracked ==
    ASSUME LockInv, Tracked, NEW g \in Runs,
           Execute(g) \/ LockTimesOut(g) \/ RunDies(g)
    PROVE  Tracked'
  <1>1. /\ UNCHANGED <<published, sends, queue, deadLetters, consumer>>
        /\ \A h \in Runs \ {g} : run'[h] = run[h]
        /\ \A c \in Customers, r \in Revisions : Marked(c, r) => Marked(c, r)'
        /\ \/ run'[g].step = "idle" /\ consumer.run # g
           \/ /\ run[g].step # "idle" /\ run'[g].step # "idle"
              /\ run'[g].customer = run[g].customer
              /\ run'[g].revision = run[g].revision
              /\ run'[g].step \in {"state", "ok"} =>
                    \/ run[g].step = "state"
                    \/ markers'[run[g].customer][run[g].revision] > 0
    BY ScriptMoves DEF objectVars, queueVars
  <1>2. SentKept' /\ MessagesSent'
    BY <1>1 DEF Tracked, SentKept, MessagesSent, Sent, Kept
  <1>3. RunsSent'
    <2>1. ASSUME NEW h \in Runs
          PROVE  /\ run'[h].step # "idle" =>
                       /\ run'[h].customer \in Customers
                       /\ Sent(run'[h].customer, run'[h].revision)
                 /\ run'[h].step \in {"state", "ok"} =>
                       markers'[run'[h].customer][run'[h].revision] > 0
      <3>1. PICK c, r : c = run[h].customer /\ r = run[h].revision
        OBVIOUS
      <3>2. r \in Revisions
        BY <3>1 DEF LockInv, TypeOK, Run
      <3>3. /\ run[h].step # "idle" => c \in Customers /\ Sent(c, r)
            /\ run[h].step \in {"state", "ok"} => c \in Customers /\ Marked(c, r)
        BY <3>1 DEF Tracked, RunsSent
      <3>4. run[h].step \in {"state", "ok"} => Marked(c, r)'
        BY <1>1, <3>2, <3>3
      <3>5. CASE h # g
        <4>1. run'[h].customer = c /\ run'[h].revision = r
                /\ run'[h].step = run[h].step
          BY <1>1, <3>1, <3>5
        <4> QED
          BY <3>3, <3>4, <4>1 DEF Marked
      <3>6. CASE h = g /\ run'[g].step = "idle"
        BY <3>6
      <3>7. CASE h = g /\ run'[g].step # "idle"
        <4>1. /\ run[g].step # "idle"
              /\ run'[g].customer = c /\ run'[g].revision = r
              /\ run'[g].step \in {"state", "ok"} =>
                    run[g].step = "state" \/ Marked(c, r)'
          BY <1>1, <3>1, <3>7 DEF Marked
        <4>2. run'[g].step \in {"state", "ok"} => Marked(c, r)'
          BY <3>4, <3>7, <4>1
        <4> QED
          BY <3>3, <3>7, <4>1, <4>2 DEF Marked
      <3> QED
        BY <3>5, <3>6, <3>7
    <2> QED
      BY <1>1, <2>1 DEF RunsSent, Sent, Marked
  <1>4. ConsumerWaits'
    <2>1. consumer.run # None => consumer.run \in Runs
      BY DEF LockInv, TypeOK
    <2> QED
      BY <1>1, <2>1 DEF Tracked, ConsumerWaits
  <1> QED
    BY <1>2, <1>3, <1>4 DEF Tracked

LEMMA TrackedMoves ==
    ASSUME LockInv, Tracked, [Next]_vars
    PROVE  Tracked'
  <1>1. CASE UNCHANGED vars
    <2>1. UNCHANGED <<published, sends, queue, deadLetters, consumer, run,
                      markers>>
      BY <1>1 DEF vars, objectVars, queueVars, sheetVars
    <2> QED
      BY <2>1
      DEF Tracked, SentKept, MessagesSent, RunsSent, ConsumerWaits, Sent,
          Marked, Kept
  <1>2. CASE Next
    <2>1. CASE \E c \in Customers :
                  Change(c) \/ \E r \in Revisions : Send(c, r) \/ Publish(c, r)
      <3>1. 0 \in Revisions
        BY SnapshotSyncAssumption DEF SnapshotSyncAssumption, Revisions
      <3> QED
        BY <2>1, <3>1, ObjectKeepsTracked DEF LockInv
    <2>2. CASE \E g \in Runs : Execute(g) \/ LockTimesOut(g) \/ RunDies(g)
      BY <2>2, ScriptKeepsTracked
    <2> QED
      BY <1>2, <2>1, <2>2, ConsumerKeepsTracked DEF Next
  <1> QED
    BY <1>1, <1>2

(* Every snapshot that is published has gone to the queue, and one that    *)
(* went there stays in the queue or among the dead letters until it is     *)
(* marked: no lost answer, lost race or dead script loses it.              *)
THEOREM SnapshotsAreTracked == Spec => []Tracked
  BY InitTracked, LockHolds, TrackedMoves, PTL DEF Spec

-----------------------------------------------------------------------------
(* The sheets, wherever scripts die.                                       *)

(* A snapshot that will be applied when its message comes again: it was    *)
(* sent, and is neither marked nor older than the last one applied.        *)
Open(c, r) == r > lastRevision[c] /\ ~Marked(c, r) /\ Sent(c, r)

StartsAtFirstRow == \A g \in Runs : run[g].step = "waiting" => run[g].row = 1

(* The script that has the lock has written its rows up to where it is.    *)
OwnRows ==
    \A g \in Runs : Busy(g) =>
        /\ run[g].revision > lastRevision[run[g].customer]
        /\ \A i \in 1 .. Rows :
              Written(g, i) => sheet[run[g].customer][i] = run[g].revision

(* Where two rows of a customer differ, the upper one, which is written    *)
(* first, comes from an open snapshot.                                     *)
TornAbove ==
    \A c \in Customers, i, j \in 1 .. Rows :
        i < j /\ sheet[c][i] # sheet[c][j] => Open(c, sheet[c][i])

RowsInv == StartsAtFirstRow /\ OwnRows /\ TornAbove

LEMMA InitRows == Init => RowsInv
  BY DEF Init, RowsInv, StartsAtFirstRow, OwnRows, TornAbove, Busy, IdleRun

(* A step that writes no row: what it marks is no longer open anyway.      *)
LEMMA RowsStay ==
    ASSUME TypeOK, RowsInv, UNCHANGED <<sheet, lastRevision>>,
           \A c \in Customers, r \in Revisions :
              /\ sends[c][r] > 0 => sends'[c][r] > 0
              /\ markers'[c][r] > 0 =>
                    markers[c][r] > 0 \/ ~(r > lastRevision[c]),
           \A h \in Runs :
              \/ run'[h] = run[h]
              \/ /\ run'[h].step \notin {"rows", "marker", "state"}
                 /\ run'[h].step = "waiting" => run'[h].row = 1
    PROVE  RowsInv'
  <1>1. StartsAtFirstRow'
    BY DEF RowsInv, StartsAtFirstRow
  <1>2. OwnRows'
    <2>1. ASSUME NEW h \in Runs, Busy(h)'
          PROVE  /\ run'[h].revision > lastRevision'[run'[h].customer]
                 /\ \A i \in 1 .. Rows :
                       Written(h, i)' =>
                          sheet'[run'[h].customer][i] = run'[h].revision
      <3>1. run'[h] = run[h] /\ Busy(h)
        BY <2>1 DEF Busy
      <3> QED
        BY <3>1 DEF RowsInv, OwnRows, Written
    <2> QED
      BY <2>1 DEF OwnRows
  <1>3. TornAbove'
    <2>1. ASSUME NEW c \in Customers, NEW i \in 1 .. Rows, NEW j \in 1 .. Rows,
                 i < j, sheet'[c][i] # sheet'[c][j]
          PROVE  Open(c, sheet[c][i])'
      <3>0. sheet[c] \in [1 .. Rows -> Revisions]
        BY DEF TypeOK
      <3>1. PICK r \in Revisions : r = sheet[c][i] /\ r = sheet'[c][i]
        BY <3>0
      <3>2. Open(c, r)
        BY <2>1, <3>1 DEF RowsInv, TornAbove
      <3> QED
        BY <3>1, <3>2 DEF Open, Marked, Sent
    <2> QED
      BY <2>1 DEF TornAbove
  <1> QED
    BY <1>1, <1>2, <1>3 DEF RowsInv

LEMMA OthersKeepRows ==
    ASSUME LockInv, RowsInv,
           \/ \E c \in Customers :
                 Change(c) \/ \E r \in Revisions : Send(c, r) \/ Publish(c, r)
           \/ \E m \in queue, g \in Runs : Forward(m, g)
           \/ Acknowledge \/ Retry \/ GiveUp
           \/ \E m \in deadLetters : Replay(m)
    PROVE  RowsInv'
  <1>1. /\ TypeOK /\ run \in [Runs -> Run]
        /\ consumer.run # None => consumer.run \in Runs
    BY DEF LockInv, TypeOK
  <1>2. UNCHANGED <<sheet, lastRevision, markers>>
    BY DEF Change, Send, Publish, Forward, Acknowledge, Retry, GiveUp, Replay,
           sheetVars
  <1>3. \A c \in Customers, r \in Revisions : sends[c][r] > 0 => sends'[c][r] > 0
    <2>1. CASE \E c \in Customers, r \in Revisions : Send(c, r)
      BY <1>1, <2>1, SendingStays DEF Sent
    <2>2. CASE ~\E c \in Customers, r \in Revisions : Send(c, r)
      <3>1. UNCHANGED sends
        BY <2>2
        DEF Change, Publish, Forward, Acknowledge, Retry, GiveUp, Replay,
            objectVars
      <3> QED
        BY <3>1
    <2> QED
      BY <2>1, <2>2
  <1>4. \A h \in Runs :
           \/ run'[h] = run[h]
           \/ /\ run'[h].step \notin {"rows", "marker", "state"}
              /\ run'[h].step = "waiting" => run'[h].row = 1
    <2>1. CASE \/ \E c \in Customers :
                     \/ Change(c)
                     \/ \E r \in Revisions : Send(c, r) \/ Publish(c, r)
               \/ GiveUp
               \/ \E m \in deadLetters : Replay(m)
      BY <2>1 DEF Change, Send, Publish, GiveUp, Replay
    <2>2. CASE \E m \in queue, g \in Runs : Forward(m, g)
      BY <1>1, <2>2 DEF Forward
    <2>3. CASE Acknowledge \/ Retry
      BY <1>1, <2>3, Idle DEF Acknowledge, Retry
    <2> QED
      BY <2>1, <2>2, <2>3
  <1> QED
    BY <1>1, <1>2, <1>3, <1>4, RowsStay

LEMMA ScriptKeepsRows ==
    ASSUME LockInv, Tracked, RowsInv, NEW g \in Runs,
           Execute(g) \/ LockTimesOut(g) \/ RunDies(g)
    PROVE  RowsInv'
  <1>1. /\ TypeOK /\ run \in [Runs -> Run] /\ run[g] \in Run
        /\ sheet \in [Customers -> [1 .. Rows -> Revisions]]
        /\ lastRevision \in [Customers -> Revisions]
        /\ markers \in [Customers -> [Revisions -> Nat]]
        /\ Busy(g) \/ run[g].step = "waiting" => run[g].customer \in Customers
        /\ \A h \in Runs : Busy(g) /\ Busy(h) => g = h
    BY DEF LockInv, TypeOK, OneScript
  <1>2. /\ run[g].revision \in Revisions /\ run[g].row \in 1 .. Rows
        /\ Revisions \subseteq Nat /\ Rows \in Nat
    BY <1>1, SnapshotSyncAssumption
    DEF Run, Revisions, SnapshotSyncAssumption
  <1>3. UNCHANGED sends
    BY DEF Execute, Enter, WriteRow, WriteMarker, WriteState, Forget,
           LockTimesOut, RunDies, objectVars
  <1>4. CASE LockTimesOut(g) \/ RunDies(g) \/ Forget(g)
    <2>1. UNCHANGED <<sheet, lastRevision, markers>>
      BY <1>4 DEF LockTimesOut, RunDies, Forget, sheetVars
    <2>2. /\ \A h \in Runs \ {g} : run'[h] = run[h]
          /\ run'[g].step \in {"failed", "idle"}
      BY <1>1, <1>4, GotoMoves, Idle DEF LockTimesOut, RunDies, Forget, RunSteps
    <2> QED
      BY <1>1, <1>3, <2>1, <2>2, RowsStay
  <1>5. CASE Enter(g)
    <2>1. PICK c \in Customers, r \in Revisions :
              c = run[g].customer /\ r = run[g].revision
      BY <1>1, <1>2, <1>5 DEF Enter
    <2>2. /\ run[g].step = "waiting" /\ run[g].row = 1
          /\ UNCHANGED <<sheet, lastRevision>>
          /\ \A h \in Runs : ~Busy(h)
      BY <1>5 DEF Enter, RowsInv, StartsAtFirstRow, Locked, Busy
    <2>3. \/ Goto(g, "ok") /\ UNCHANGED markers
          \/ r <= lastRevision[c] /\ Goto(g, "ok") /\ Mark(c, r)
          \/ r > lastRevision[c] /\ Goto(g, "rows") /\ UNCHANGED markers
      BY <1>5, <2>1 DEF Enter
    <2>4. CASE \/ Goto(g, "ok") /\ UNCHANGED markers
               \/ r <= lastRevision[c] /\ Goto(g, "ok") /\ Mark(c, r)
      <3>1. /\ \A h \in Runs \ {g} : run'[h] = run[h]
            /\ run'[g].step = "ok"
        BY <1>1, <2>4, GotoMoves DEF RunSteps
      <3>2. \A d \in Customers, s \in Revisions :
               markers'[d][s] > 0 => markers[d][s] > 0 \/ ~(s > lastRevision[d])
        <4>1. CASE UNCHANGED markers
          BY <4>1
        <4>2. CASE r <= lastRevision[c] /\ Mark(c, r)
          <5>0. r \in Nat /\ lastRevision[c] \in Nat
            BY <1>1, <1>2
          <5>1. ~(r > lastRevision[c])
            BY <4>2, <5>0
          <5>2. \A d \in Customers, s \in Revisions :
                   markers'[d][s] > 0 =>
                      markers[d][s] > 0 \/ (d = c /\ s = r)
            BY <1>1, <4>2, MarkStays DEF Marked
          <5> QED
            BY <5>1, <5>2
        <4> QED
          BY <2>4, <4>1, <4>2
      <3> QED
        BY <1>1, <1>3, <2>2, <3>1, <3>2, RowsStay
    <2>5. CASE r > lastRevision[c] /\ Goto(g, "rows") /\ UNCHANGED markers
      <3>1. /\ \A h \in Runs \ {g} : run'[h] = run[h]
            /\ run'[g].step = "rows" /\ run'[g].row = 1
            /\ run'[g].customer = c /\ run'[g].revision = r
        BY <1>1, <2>1, <2>2, <2>5, GotoMoves DEF RunSteps
      <3>2. StartsAtFirstRow'
        BY <3>1 DEF RowsInv, StartsAtFirstRow
      <3>3. OwnRows'
        BY <2>2, <2>5, <3>1 DEF OwnRows, Busy, Written
      <3>4. TornAbove'
        BY <1>3, <2>2, <2>5 DEF RowsInv, TornAbove, Open, Marked, Sent
      <3> QED
        BY <3>2, <3>3, <3>4 DEF RowsInv
    <2> QED
      BY <2>3, <2>4, <2>5
  <1>6. CASE WriteRow(g)
    <2>1. PICK c \in Customers, r \in Revisions, k \in 1 .. Rows :
              c = run[g].customer /\ r = run[g].revision /\ k = run[g].row
      BY <1>1, <1>2, <1>6 DEF WriteRow, Busy
    <2>2. /\ run[g].step = "rows" /\ Busy(g)
          /\ UNCHANGED <<markers, lastRevision>>
          /\ sheet' = [sheet EXCEPT ![c][k] = r]
      BY <1>6, <2>1 DEF WriteRow, Busy
    <2>3. /\ sheet'[c][k] = r
          /\ \A i \in 1 .. Rows \ {k} : sheet'[c][i] = sheet[c][i]
          /\ \A d \in Customers \ {c} : sheet'[d] = sheet[d]
      BY <1>1, <2>2
    <2>4. /\ r > lastRevision[c]
          /\ \A i \in 1 .. Rows : i < k => sheet[c][i] = r
      BY <2>1, <2>2 DEF RowsInv, OwnRows, Written
    <2>5. Open(c, r)
      <3>1. markers[c][r] = 0 /\ Sent(c, r)
        BY <2>1, <2>2 DEF LockInv, OneScript, Tracked, RunsSent
      <3> QED
        BY <2>4, <3>1 DEF Open, Marked
    <2>6. \A d \in Customers, s \in Revisions :
             sends'[d][s] = sends[d][s] /\ markers'[d][s] = markers[d][s]
                /\ lastRevision'[d] = lastRevision[d]
      BY <1>3, <2>2
    <2>7. /\ \A h \in Runs \ {g} : run'[h] = run[h] /\ ~Busy(h)
          /\ run'[g].customer = c /\ run'[g].revision = r
      BY <1>1, <1>6, <2>1, <2>2, RowMoves
    <2>8. \/ k < Rows /\ run'[g].row = k + 1 /\ run'[g].step = "rows"
          \/ k = Rows /\ run'[g].row = k /\ run'[g].step = "marker"
      BY <1>1, <1>6, <2>1, RowMoves
    <2>9. StartsAtFirstRow'
      BY <2>7, <2>8 DEF RowsInv, StartsAtFirstRow
    <2>10. OwnRows'
      <3>1. \A i \in 1 .. Rows :
               (run'[g].step = "rows" => i < run'[g].row) => i <= k
        BY <1>2, <2>8
      <3>2. \A i \in 1 .. Rows : i <= k => sheet'[c][i] = r
        BY <1>2, <2>3, <2>4
      <3>3. \A h \in Runs : Busy(h)' => h = g
        BY <2>7 DEF Busy
      <3> QED
        BY <2>4, <2>6, <2>7, <3>1, <3>2, <3>3 DEF OwnRows, Written
    <2>11. TornAbove'
      <3>1. ASSUME NEW d \in Customers, NEW i \in 1 .. Rows,
                   NEW j \in 1 .. Rows, i < j, sheet'[d][i] # sheet'[d][j]
            PROVE  Open(d, sheet'[d][i])
        <4>1. CASE d = c /\ i = k
          BY <2>3, <2>5, <4>1
        <4>2. CASE d = c /\ j = k
          BY <2>3, <2>4, <3>1, <4>2
        <4>3. CASE d # c \/ (i # k /\ j # k)
          <5>1. sheet'[d][i] = sheet[d][i] /\ sheet'[d][j] = sheet[d][j]
            BY <2>3, <4>3
          <5> QED
            BY <3>1, <5>1 DEF RowsInv, TornAbove
        <4> QED
          BY <4>1, <4>2, <4>3
      <3>2. \A d \in Customers, i \in 1 .. Rows : sheet'[d][i] \in Revisions
        <4>1. \A d \in Customers : sheet[d] \in [1 .. Rows -> Revisions]
          BY <1>1
        <4> QED
          BY <2>3, <4>1
      <3>3. ASSUME NEW d \in Customers, NEW i \in 1 .. Rows,
                   NEW j \in 1 .. Rows, i < j, sheet'[d][i] # sheet'[d][j]
            PROVE  Open(d, sheet[d][i])'
        <4>1. PICK s \in Revisions : s = sheet'[d][i]
          BY <3>2
        <4>2. Open(d, s)
          BY <3>1, <3>3, <4>1
        <4> QED
          BY <2>6, <4>1, <4>2 DEF Open, Sent, Marked
      <3> QED
        BY <3>3 DEF TornAbove
    <2> QED
      BY <2>9, <2>10, <2>11 DEF RowsInv
  <1>7. CASE WriteMarker(g) \/ WriteState(g)
    <2>1. PICK c \in Customers, r \in Revisions :
              c = run[g].customer /\ r = run[g].revision
      BY <1>1, <1>2, <1>7 DEF WriteMarker, WriteState, Busy
    <2>2. /\ run[g].step \in {"marker", "state"} /\ Busy(g)
          /\ UNCHANGED sheet
      BY <1>7 DEF WriteMarker, WriteState, Busy
    <2>3. /\ r > lastRevision[c]
          /\ \A i \in 1 .. Rows : sheet[c][i] = r
      BY <2>1, <2>2 DEF RowsInv, OwnRows, Written
    <2>4. /\ \A h \in Runs \ {g} : run'[h] = run[h] /\ ~Busy(h)
          /\ run'[g].customer = c /\ run'[g].revision = r
      BY <1>1, <1>7, <2>1, <2>2, GotoMoves
      DEF WriteMarker, WriteState, RunSteps
    <2>5. \/ WriteMarker(g) /\ run'[g].step = "state" /\ UNCHANGED lastRevision
          \/ WriteState(g) /\ run'[g].step = "ok"
      BY <1>1, <1>7, GotoMoves DEF WriteMarker, WriteState, RunSteps
    <2>6. \A d \in Customers \ {c} :
             /\ lastRevision'[d] = lastRevision[d]
             /\ \A s \in Revisions :
                   markers'[d][s] > 0 => markers[d][s] > 0
      <3>1. CASE WriteMarker(g)
        <4>1. Mark(c, r) /\ UNCHANGED lastRevision
          BY <2>1, <3>1 DEF WriteMarker
        <4> QED
          BY <1>1, <4>1, MarkStays DEF Marked
      <3>2. CASE WriteState(g)
        <4>1. UNCHANGED markers /\ lastRevision' = [lastRevision EXCEPT ![c] = r]
          BY <2>1, <3>2 DEF WriteState
        <4> QED
          BY <1>1, <4>1
      <3> QED
        BY <1>7, <3>1, <3>2
    <2>7. StartsAtFirstRow'
      BY <2>4, <2>5 DEF RowsInv, StartsAtFirstRow
    <2>8. OwnRows'
      <3>1. \A h \in Runs : Busy(h)' => h = g /\ UNCHANGED lastRevision
        BY <2>4, <2>5 DEF Busy
      <3> QED
        BY <2>2, <2>3, <2>4, <3>1 DEF OwnRows
    <2>9. TornAbove'
      <3>1. ASSUME NEW d \in Customers, NEW i \in 1 .. Rows,
                   NEW j \in 1 .. Rows, i < j, sheet'[d][i] # sheet'[d][j]
            PROVE  Open(d, sheet[d][i])'
        <4>1. d # c
          BY <2>2, <2>3, <3>1
        <4>2. PICK s \in Revisions : s = sheet[d][i]
          <5>1. sheet[d] \in [1 .. Rows -> Revisions]
            BY <1>1
          <5> QED
            BY <5>1
        <4>3. Open(d, s)
          BY <2>2, <3>1, <4>2 DEF RowsInv, TornAbove
        <4> QED
          BY <1>3, <2>2, <2>6, <4>1, <4>2, <4>3 DEF Open, Sent, Marked
      <3> QED
        BY <3>1 DEF TornAbove
    <2> QED
      BY <2>7, <2>8, <2>9 DEF RowsInv
  <1> QED
    BY <1>4, <1>5, <1>6, <1>7 DEF Execute

LEMMA RowsMove ==
    ASSUME LockInv, Tracked, RowsInv, [Next]_vars
    PROVE  RowsInv'
  <1>1. CASE UNCHANGED vars
    <2>1. UNCHANGED <<run, sheet, lastRevision, sends, markers>>
      BY <1>1 DEF vars, objectVars, sheetVars
    <2> QED
      BY <2>1, RowsStay DEF LockInv
  <1>2. CASE Next
    BY <1>2, ScriptKeepsRows, OthersKeepRows DEF Next
  <1> QED
    BY <1>1, <1>2

LEMMA RowsHold == Spec => [](LockInv /\ Tracked /\ RowsInv)
  BY InitRows, LockHolds, SnapshotsAreTracked, RowsMove, PTL DEF Spec

(* Rows of a customer that come from different snapshots, wherever a       *)
(* script died, are written again: the snapshot of the upper ones is still *)
(* in the queue or among the dead letters, unmarked and newer than the     *)
(* last one applied, since rows are written from the top, before the       *)
(* marker, which is written before the revision.                           *)
THEOREM TornSheetsComeAgain == Spec => []TornSheetsAreRetried
  <1>1. ASSUME LockInv, Tracked, RowsInv
        PROVE  TornSheetsAreRetried
    <2>1. ASSUME NEW c \in Customers, NEW i \in 1 .. Rows, NEW j \in 1 .. Rows,
                 i < j, sheet[c][i] # sheet[c][j]
          PROVE  OnItsWay(c, sheet[c][i])
      <3>0. sheet[c] \in [1 .. Rows -> Revisions]
        BY <1>1 DEF LockInv, TypeOK
      <3>1. PICK r \in Revisions : r = sheet[c][i]
        BY <3>0
      <3>2. Open(c, r)
        BY <1>1, <2>1, <3>1 DEF RowsInv, TornAbove
      <3>3. Kept(c, r)
        BY <1>1, <3>2 DEF Open, Tracked, SentKept
      <3> QED
        BY <3>1, <3>3 DEF OnItsWay, Kept
    <2>2. Rows \in Nat
      BY SnapshotSyncAssumption DEF SnapshotSyncAssumption
    <2>3. ASSUME NEW c \in Customers, NEW i \in 1 .. Rows, NEW j \in 1 .. Rows,
                 sheet[c][i] # sheet[c][j]
          PROVE  \E r \in {sheet[c][i], sheet[c][j]} : OnItsWay(c, r)
      <3>1. i < j \/ j < i
        BY <2>2, <2>3
      <3> QED
        BY <2>1, <2>3, <3>1
    <2> QED
      BY <2>3 DEF TornSheetsAreRetried
  <1> QED
    BY <1>1, RowsHold, PTL

-----------------------------------------------------------------------------
(* What a marker promises, until a script dies.                            *)

Shown(c, r) == \A i \in 1 .. Rows : sheet[c][i] >= r

MarkedShown ==
    \A c \in Customers, r \in Revisions : Marked(c, r) => Shown(c, r)

LEMMA InitShown == Init => MarkedShown
  BY DEF Init, MarkedShown, Marked

(* A snapshot is marked when all its rows are written, or when a later one *)
(* is recorded and its rows, whole, are there.                             *)
LEMMA ShownMoves ==
    ASSUME LockInv, RowsInv, Undisturbed => Whole, Undisturbed => MarkedShown,
           [Next]_vars
    PROVE  Undisturbed' => MarkedShown'
  <1> SUFFICES ASSUME Undisturbed' PROVE MarkedShown'
    OBVIOUS
  <1>0. Revisions \subseteq Nat
    BY SnapshotSyncAssumption DEF Revisions, SnapshotSyncAssumption
  <1>1. Undisturbed /\ Whole /\ MarkedShown
    BY DeathsOnlyGrow
  <1>2. /\ sheet \in [Customers -> [1 .. Rows -> Revisions]]
        /\ markers \in [Customers -> [Revisions -> Nat]]
        /\ lastRevision \in [Customers -> Revisions]
    BY DEF LockInv, TypeOK
  <1>3. \A c \in Customers, i \in 1 .. Rows :
           /\ sheet[c][i] \in Nat /\ sheet'[c][i] \in Nat
           /\ sheet'[c][i] >= sheet[c][i]
    <2>1. LockInv'
      BY LockMoves
    <2>2. \A c \in Customers : /\ sheet[c] \in [1 .. Rows -> Revisions]
                               /\ sheet'[c] \in [1 .. Rows -> Revisions]
      BY <1>2, <2>1 DEF LockInv, TypeOK
    <2>3. CASE UNCHANGED vars
      <3>1. UNCHANGED sheet
        BY <2>3 DEF vars, sheetVars
      <3>2. \A c \in Customers, i \in 1 .. Rows : sheet[c][i] \in Nat
        BY <1>0, <2>2
      <3> QED
        BY <3>1, <3>2
    <2>4. CASE ~UNCHANGED vars
      BY <1>0, <1>1, <2>2, <2>4, WholeMoves
    <2> QED
      BY <2>3, <2>4
  <1>4. ASSUME NEW c \in Customers, NEW r \in Revisions, Shown(c, r)
        PROVE  \A i \in 1 .. Rows : sheet'[c][i] >= r
    <2>1. ASSUME NEW i \in 1 .. Rows
          PROVE  sheet'[c][i] >= r
      <3>1. r \in Nat
        BY <1>0
      <3>2. sheet[c][i] >= r
        BY <1>4 DEF Shown
      <3>3. sheet[c][i] \in Nat /\ sheet'[c][i] \in Nat
               /\ sheet'[c][i] >= sheet[c][i]
        BY <1>3
      <3> QED
        BY <3>1, <3>2, <3>3
    <2> QED
      BY <2>1
  <1>5. ASSUME NEW c \in Customers, NEW r \in Revisions, Marked(c, r)'
        PROVE  Shown(c, r)
    <2>1. CASE Marked(c, r)
      BY <1>1, <2>1 DEF MarkedShown
    <2>2. CASE ~Marked(c, r)
      <3>1. PICK g \in Runs : Execute(g) \/ LockTimesOut(g) \/ RunDies(g)
        <4>1. markers' # markers
          BY <1>5, <2>2 DEF Marked
        <4> QED
          BY <4>1
          DEF Next, vars, Change, Send, Publish, Forward, Acknowledge, Retry,
              GiveUp, Replay, sheetVars
      <3>2. c = run[g].customer /\ r = run[g].revision
        BY <1>5, <2>2, <3>1, ScriptMoves
      <3>3. markers' # markers
        BY <1>5, <2>2 DEF Marked
      <3>4. CASE Enter(g)
        <4>1. r <= lastRevision[c] /\ ~Locked
          BY <3>2, <3>3, <3>4 DEF Enter
        <4>2. \A i \in 1 .. Rows : sheet[c][i] = lastRevision[c]
          BY <1>1, <4>1 DEF Whole, Untouched, Locked, Busy
        <4>3. r \in Nat /\ lastRevision[c] \in Nat
          BY <1>0, <1>2
        <4> QED
          BY <4>1, <4>2, <4>3 DEF Shown
      <3>5. CASE WriteMarker(g)
        <4>1. \A i \in 1 .. Rows : sheet[c][i] = r
          BY <3>2, <3>5 DEF WriteMarker, RowsInv, OwnRows, Busy, Written
        <4>2. r \in Nat
          BY <1>0
        <4> QED
          BY <4>1, <4>2 DEF Shown
      <3> QED
        BY <3>1, <3>3, <3>4, <3>5
        DEF Execute, WriteRow, WriteState, Forget, LockTimesOut, RunDies,
            sheetVars
    <2> QED
      BY <2>1, <2>2
  <1> QED
    BY <1>4, <1>5 DEF MarkedShown, Shown

LEMMA ShownHolds ==
    Spec => [](LockInv /\ Tracked /\ (Undisturbed => MarkedShown))
  BY InitShown, RowsHold, WholeHolds, ShownMoves, PTL DEF Spec

(* Until a script dies half-way, a snapshot that is on its way no more is  *)
(* in the sheets, itself or a later one, in all of its rows: it was        *)
(* published, so sent, so marked, and what is marked is shown.             *)
THEOREM SnapshotsAreNotLost == Spec => []NothingIsLost
  <1>1. ASSUME LockInv, Tracked, Undisturbed => MarkedShown
        PROVE  NothingIsLost
    <2> SUFFICES ASSUME Undisturbed, NEW c \in Customers,
                        NEW r \in Revisions \ {0}, r <= revision[c],
                        ~OnItsWay(c, r)
                 PROVE  \A i \in 1 .. Rows : sheet[c][i] >= r
      BY DEF NothingIsLost
    <2>1. r \in 1 .. revision[c]
      BY SnapshotSyncAssumption, <1>1
      DEF LockInv, TypeOK, Revisions, SnapshotSyncAssumption
    <2>2. r \in published[c] /\ ~Kept(c, r)
      BY <2>1 DEF OnItsWay, Kept
    <2>3. Marked(c, r)
      BY <1>1, <2>2 DEF Tracked, SentKept
    <2> QED
      BY <1>1, <2>3 DEF MarkedShown, Shown
  <1> QED
    BY <1>1, ShownHolds, PTL

-----------------------------------------------------------------------------
(* The mirror.                                                             *)

(* Snapshots go to the queue when they have been made.                     *)
SentExist ==
    \A c \in Customers, r \in Revisions : Sent(c, r) => r \in 1 .. revision[c]

LEMMA InitSentExist == Init => SentExist
  BY DEF Init, SentExist, Sent

LEMMA SentExistMoves ==
    ASSUME LockInv, SentExist, [Next]_vars
    PROVE  SentExist'
  <1>0. /\ revision \in [Customers -> Revisions] /\ Revisions \subseteq Nat
        /\ TypeOK
    <2>1. TypeOK
      BY DEF LockInv
    <2> QED
      BY <2>1 DEF TypeOK, Revisions
  <1>1. CASE UNCHANGED <<revision, sends>>
    BY <1>1 DEF SentExist, Sent
  <1>2. ASSUME NEW c \in Customers, Change(c)
        PROVE  SentExist'
    <2>1. UNCHANGED sends /\ revision' = [revision EXCEPT ![c] = @ + 1]
      BY <1>2 DEF Change
    <2>2. \A d \in Customers : revision[d] \in Nat /\ revision'[d] \in Nat
                                  /\ revision'[d] >= revision[d]
      <3> SUFFICES ASSUME NEW d \in Customers
                   PROVE  revision[d] \in Nat /\ revision'[d] \in Nat
                              /\ revision'[d] >= revision[d]
        OBVIOUS
      <3>1. revision[d] \in Nat
        BY <1>0
      <3>2. revision'[d] = IF d = c THEN revision[d] + 1 ELSE revision[d]
        BY <1>0, <2>1
      <3> QED
        BY <3>1, <3>2
    <2>3. \A d \in Customers : 1 .. revision[d] \subseteq 1 .. revision'[d]
      BY <2>2
    <2> QED
      BY <2>1, <2>3 DEF SentExist, Sent
  <1>3. ASSUME NEW c \in Customers, NEW r \in Revisions, Send(c, r)
        PROVE  SentExist'
    <2>1. r \in 1 .. revision[c] /\ UNCHANGED revision
      BY <1>3 DEF Send
    <2>2. \A d \in Customers, s \in Revisions :
             Sent(d, s)' => Sent(d, s) \/ (d = c /\ s = r)
      BY <1>0, <1>3, SendingStays
    <2> QED
      BY <2>1, <2>2 DEF SentExist
  <1>4. \/ UNCHANGED <<revision, sends>>
        \/ \E c \in Customers : Change(c)
        \/ \E c \in Customers, r \in Revisions : Send(c, r)
    <2>1. CASE UNCHANGED vars
      BY <2>1 DEF vars, objectVars
    <2>2. CASE Next
      <3>1. CASE \E c \in Customers :
                    Change(c) \/ \E r \in Revisions : Send(c, r) \/ Publish(c, r)
        BY <3>1 DEF Publish
      <3>2. CASE \/ \E m \in queue, g \in Runs : Forward(m, g)
                 \/ Acknowledge \/ Retry \/ GiveUp
                 \/ \E m \in deadLetters : Replay(m)
        BY <3>2
        DEF Forward, Acknowledge, Retry, GiveUp, Replay, objectVars
      <3>3. CASE \E g \in Runs : Execute(g) \/ LockTimesOut(g) \/ RunDies(g)
        BY <3>3
        DEF Execute, Enter, WriteRow, WriteMarker, WriteState, Forget,
            LockTimesOut, RunDies, objectVars
      <3> QED
        BY <2>2, <3>1, <3>2, <3>3 DEF Next
    <2> QED
      BY <2>1, <2>2
  <1> QED
    BY <1>1, <1>2, <1>3, <1>4

(* What the mirror has taken of a customer, in one line.                   *)
LEMMA TakenMeans ==
    ASSUME NEW c, NEW r
    PROVE  r \in TakenOf(c) <=>
               \/ r \in Revisions /\ markers[c][r] > 0
               \/ \E g \in Runs : /\ run[g].step = "marker"
                                  /\ run[g].customer = c /\ run[g].revision = r
  BY DEF TakenOf, Marking

(* The mirror sees nothing of a step that moves no script over the writing *)
(* of a last row and marks nothing.                                        *)
LEMMA MirrorStutters ==
    ASSUME Undisturbed, Undisturbed', UNCHANGED revision,
           \A c \in Customers : /\ TakenOf(c)' = TakenOf(c)
                                /\ sheet'[c][Rows] = sheet[c][Rows]
    PROVE  UNCHANGED Mirrored!vars
  <1>1. [c \in Customers |-> TakenOf(c)]' = [c \in Customers |-> TakenOf(c)]
    OBVIOUS
  <1>2. [c \in Customers |-> sheet[c][Rows]]'
           = [c \in Customers |-> sheet[c][Rows]]
    OBVIOUS
  <1>3. (~Undisturbed)' = ~Undisturbed
    OBVIOUS
  <1> QED
    BY <1>1, <1>2, <1>3 DEF Mirrored!vars

LEMMA MirrorTakes ==
    ASSUME Undisturbed, Undisturbed', UNCHANGED revision,
           NEW c \in Customers, NEW r \in 1 .. revision[c], r \notin TakenOf(c),
           TakenOf(c)' = TakenOf(c) \cup {r},
           sheet'[c][Rows] = IF r > sheet[c][Rows] THEN r ELSE sheet[c][Rows],
           \A d \in Customers \ {c} : /\ TakenOf(d)' = TakenOf(d)
                                      /\ sheet'[d][Rows] = sheet[d][Rows]
    PROVE  Mirrored!Next
  <1> DEFINE taken == [d \in Customers |-> TakenOf(d)]
             shown == [d \in Customers |-> sheet[d][Rows]]
  <1>1. taken' = [taken EXCEPT ![c] = @ \cup {r}]
    OBVIOUS
  <1>2. shown' = [shown EXCEPT ![c] = IF r > @ THEN r ELSE @]
    OBVIOUS
  <1>3. r \notin taken[c] /\ (~Undisturbed)' = ~Undisturbed
    OBVIOUS
  <1>4. Mirrored!Take(c, r)
    BY <1>1, <1>2, <1>3 DEF Mirrored!Take
  <1> QED
    BY <1>4 DEF Mirrored!Next

(* A step of anybody but a script: only a new snapshot shows.              *)
LEMMA OthersMirror ==
    ASSUME LockInv, Undisturbed, Undisturbed',
           \/ \E c \in Customers :
                 Change(c) \/ \E r \in Revisions : Send(c, r) \/ Publish(c, r)
           \/ \E m \in queue, g \in Runs : Forward(m, g)
           \/ Acknowledge \/ Retry \/ GiveUp
           \/ \E m \in deadLetters : Replay(m)
    PROVE  [Mirrored!Next]_(Mirrored!vars)
  <1>1. UNCHANGED <<sheet, markers>>
    BY DEF Change, Send, Publish, Forward, Acknowledge, Retry, GiveUp, Replay,
           sheetVars
  <1>2. ASSUME NEW g \in Runs
        PROVE  \/ run'[g] = run[g]
               \/ run[g].step # "marker" /\ run'[g].step # "marker"
    <2>1. run \in [Runs -> Run]
      BY DEF LockInv, TypeOK
    <2>2. IdleRun.step # "marker"
      BY DEF IdleRun
    <2>3. CASE UNCHANGED run
      BY <2>3
    <2>4. ASSUME NEW m \in queue, NEW h \in Runs, Forward(m, h)
          PROVE  \/ run'[g] = run[g]
                 \/ run[g].step # "marker" /\ run'[g].step # "marker"
      BY <2>1, <2>2, <2>4 DEF Forward
    <2>5. CASE Acknowledge \/ Retry
      BY <2>1, <2>2, <2>5 DEF Acknowledge, Retry
    <2> QED
      BY <2>3, <2>4, <2>5 DEF Change, Send, Publish, GiveUp, Replay
  <1>3. ASSUME NEW c \in Customers PROVE TakenOf(c)' = TakenOf(c)
    <2>1. Marking(c)' = Marking(c)
      BY <1>2 DEF Marking
    <2>2. \A g \in Marking(c) : run'[g].revision = run[g].revision
      BY <1>2 DEF Marking
    <2> QED
      BY <1>1, <2>1, <2>2 DEF TakenOf
  <1>4. CASE UNCHANGED revision
    BY <1>1, <1>3, <1>4, MirrorStutters
  <1>5. ASSUME NEW c \in Customers, Change(c)
        PROVE  Mirrored!Next
    <2>1. revision' = [revision EXCEPT ![c] = @ + 1]
      BY <1>5 DEF Change
    <2>2. [d \in Customers |-> TakenOf(d)]' = [d \in Customers |-> TakenOf(d)]
      BY <1>3
    <2>3. [d \in Customers |-> sheet[d][Rows]]'
              = [d \in Customers |-> sheet[d][Rows]]
      BY <1>1
    <2>4. (~Undisturbed)' = ~Undisturbed
      OBVIOUS
    <2>5. Mirrored!Change(c)
      BY <2>1, <2>2, <2>3, <2>4 DEF Mirrored!Change
    <2> QED
      BY <2>5 DEF Mirrored!Next
  <1>6. UNCHANGED revision \/ \E c \in Customers : Change(c)
    BY DEF Send, Publish, Forward, Acknowledge, Retry, GiveUp, Replay,
           objectVars
  <1> QED
    BY <1>4, <1>5, <1>6

(* The snapshot of a script that has yet to mark it, and what the sheets   *)
(* show while the script has not reached the last row.                     *)
LEMMA NotTaken ==
    ASSUME LockInv, Tracked, SentExist, NEW g \in Runs,
           \/ run[g].step = "rows"
           \/ run[g].step = "waiting" /\ ~Locked
                 /\ markers[run[g].customer][run[g].revision] = 0
    PROVE  /\ run[g].customer \in Customers
           /\ run[g].revision \in 1 .. revision[run[g].customer]
           /\ run[g].revision \notin TakenOf(run[g].customer)
           /\ \A h \in Runs : run[h].step # "marker"
  <1>1. run[g].revision \in Revisions
    BY DEF LockInv, TypeOK, Run
  <1>2. run[g].customer \in Customers
           /\ Sent(run[g].customer, run[g].revision)
    BY DEF Tracked, RunsSent
  <1>3. run[g].revision \in 1 .. revision[run[g].customer]
    BY <1>1, <1>2 DEF SentExist
  <1>4. \A h \in Runs : run[h].step # "marker"
    BY DEF LockInv, OneScript, Busy, Locked
  <1>5. markers[run[g].customer][run[g].revision] = 0
    BY DEF LockInv, OneScript
  <1> QED
    BY <1>2, <1>3, <1>4, <1>5, TakenMeans

(* What a mark, or the writing of a last row, adds to what is taken.       *)
LEMMA MarkTakes ==
    ASSUME LockInv, NEW c \in Customers, NEW r \in Revisions, Mark(c, r),
           NEW d \in Customers,
           \A h \in Runs : run[h].step # "marker" /\ run'[h].step # "marker"
    PROVE  TakenOf(d)' = IF d = c THEN TakenOf(d) \cup {r} ELSE TakenOf(d)
  <1>1. markers \in [Customers -> [Revisions -> Nat]]
    BY DEF LockInv, TypeOK
  <1>2. \A s \in Revisions :
           Marked(d, s)' <=> Marked(d, s) \/ (d = c /\ s = r)
    BY <1>1, MarkStays
  <1>3. Marking(d) = {} /\ Marking(d)' = {}
    BY DEF Marking
  <1> QED
    BY <1>2, <1>3 DEF TakenOf, Marked

LEMMA ScriptMirrors ==
    ASSUME LockInv, Tracked, SentExist, Whole, Undisturbed, Undisturbed',
           NEW g \in Runs, Execute(g) \/ LockTimesOut(g) \/ RunDies(g)
    PROVE  [Mirrored!Next]_(Mirrored!vars)
  <1>1. /\ run \in [Runs -> Run] /\ run[g] \in Run
        /\ sheet \in [Customers -> [1 .. Rows -> Revisions]]
        /\ lastRevision \in [Customers -> Revisions]
        /\ markers \in [Customers -> [Revisions -> Nat]]
        /\ Busy(g) \/ run[g].step = "waiting" => run[g].customer \in Customers
        /\ \A h \in Runs : Busy(g) /\ Busy(h) => g = h
    BY DEF LockInv, TypeOK, OneScript
  <1>2. /\ run[g].revision \in Revisions /\ run[g].row \in 1 .. Rows
        /\ Revisions \subseteq Nat /\ Rows \in Nat /\ Rows \in 1 .. Rows
    BY <1>1, SnapshotSyncAssumption
    DEF Run, Revisions, SnapshotSyncAssumption
  <1>3. UNCHANGED revision
    BY DEF Execute, Enter, WriteRow, WriteMarker, WriteState, Forget,
           LockTimesOut, RunDies, objectVars
  <1>4. ~RunDies(g)
    <2>1. faults \in [deaths: Nat, failures: Nat]
      BY DEF LockInv, TypeOK
    <2> QED
      BY <2>1 DEF RunDies, Dies, Undisturbed
  <1>5. PICK c, r : c = run[g].customer /\ r = run[g].revision
    OBVIOUS
  (* Steps that mark nothing and are not about a last row. *)
  <1>6. ASSUME UNCHANGED markers,
               \A d \in Customers : sheet'[d][Rows] = sheet[d][Rows],
               \A h \in Runs \ {g} : run'[h] = run[h],
               run[g].step # "marker", run'[g].step # "marker"
        PROVE  UNCHANGED Mirrored!vars
    <2>1. ASSUME NEW d \in Customers PROVE TakenOf(d)' = TakenOf(d)
      <3>1. Marking(d)' = Marking(d)
        BY <1>6 DEF Marking
      <3>2. \A h \in Marking(d) : run'[h].revision = run[h].revision
        BY <1>6 DEF Marking
      <3> QED
        BY <1>6, <3>1, <3>2 DEF TakenOf
    <2> QED
      BY <1>3, <1>6, <2>1, MirrorStutters
  <1>7. CASE LockTimesOut(g) \/ WriteState(g) \/ Forget(g)
    <2>1. UNCHANGED <<markers, sheet>> /\ run[g].step # "marker"
      BY <1>7 DEF LockTimesOut, WriteState, Forget, sheetVars
    <2>2. /\ run'[g].step # "marker"
          /\ \A h \in Runs \ {g} : run'[h] = run[h]
      BY <1>1, <1>7, GotoMoves, Idle
      DEF LockTimesOut, WriteState, Forget, RunSteps
    <2> QED
      BY <1>6, <2>1, <2>2
  <1>8. CASE Enter(g)
    <2>1. /\ run[g].step = "waiting" /\ ~Locked /\ UNCHANGED sheet
          /\ \/ UNCHANGED markers /\ (Goto(g, "ok") \/ Goto(g, "rows"))
             \/ /\ Goto(g, "ok") /\ Mark(c, r)
                /\ markers[c][r] = 0 /\ r <= lastRevision[c]
      BY <1>5, <1>8 DEF Enter
    <2>2. /\ \A h \in Runs \ {g} : run'[h] = run[h]
          /\ run'[g].step \in {"ok", "rows"}
      BY <1>1, <2>1, GotoMoves DEF RunSteps
    <2>3. CASE UNCHANGED markers
      BY <1>6, <2>1, <2>2, <2>3
    <2>4. CASE /\ Mark(c, r) /\ markers[c][r] = 0 /\ r <= lastRevision[c]
      <3>1. /\ c \in Customers /\ r \in Revisions
            /\ r \in 1 .. revision[c] /\ r \notin TakenOf(c)
            /\ \A h \in Runs : run[h].step # "marker"
        BY <1>2, <1>5, <2>1, <2>4, NotTaken
      <3>2. \A h \in Runs : run'[h].step # "marker"
        BY <2>2, <3>1
      <3>3. \A d \in Customers :
               TakenOf(d)' = IF d = c THEN TakenOf(d) \cup {r} ELSE TakenOf(d)
        BY <2>4, <3>1, <3>2, MarkTakes
      <3>4. sheet[c][Rows] = lastRevision[c]
        BY <1>2, <2>1, <3>1 DEF Whole, Untouched, Locked, Busy
      <3>5. sheet'[c][Rows] = IF r > sheet[c][Rows] THEN r ELSE sheet[c][Rows]
        <4>1. r \in Nat /\ lastRevision[c] \in Nat
          BY <1>1, <1>2, <3>1
        <4>2. ~(r > sheet[c][Rows])
          BY <2>4, <3>4, <4>1
        <4> QED
          BY <2>1, <4>2
      <3>6. TakenOf(c)' = TakenOf(c) \cup {r}
        BY <3>1, <3>3
      <3>7. \A d \in Customers \ {c} : /\ TakenOf(d)' = TakenOf(d)
                                       /\ sheet'[d][Rows] = sheet[d][Rows]
        BY <2>1, <3>3
      <3> QED
        BY <1>3, <3>1, <3>5, <3>6, <3>7, MirrorTakes
    <2> QED
      BY <2>1, <2>3, <2>4
  <1>9. CASE WriteRow(g)
    <2>1. /\ run[g].step = "rows" /\ UNCHANGED markers
          /\ sheet' = [sheet EXCEPT ![c][run[g].row] = r]
      BY <1>5, <1>9 DEF WriteRow
    <2>2. /\ c \in Customers /\ r \in Revisions
          /\ r \in 1 .. revision[c] /\ r \notin TakenOf(c)
          /\ \A h \in Runs : run[h].step # "marker"
      BY <1>2, <1>5, <2>1, NotTaken
    <2>3. /\ \A h \in Runs \ {g} : run'[h] = run[h]
          /\ run'[g].customer = c /\ run'[g].revision = r
          /\ \/ run[g].row < Rows /\ run'[g].step = "rows"
             \/ run[g].row = Rows /\ run'[g].step = "marker"
      BY <1>1, <1>5, <1>9, RowMoves
    <2>4. CASE run[g].row < Rows
      <3>1. run[g].row # Rows /\ run'[g].step # "marker"
        BY <1>2, <2>3, <2>4
      <3>2. \A d \in Customers : sheet'[d][Rows] = sheet[d][Rows]
        BY <1>1, <1>2, <2>1, <2>2, <3>1
      <3> QED
        BY <1>6, <2>1, <2>2, <2>3, <3>1, <3>2
    <2>5. CASE run[g].row = Rows
      <3>1. run'[g].step = "marker"
        BY <1>2, <2>3, <2>5
      <3>2. /\ sheet'[c][Rows] = r
            /\ \A d \in Customers \ {c} : sheet'[d][Rows] = sheet[d][Rows]
        BY <1>1, <1>2, <2>1, <2>2, <2>5
      <3>3. r > sheet[c][Rows]
        <4>1. ~Written(g, Rows)
          BY <1>2, <2>1, <2>5 DEF Written
        <4>2. sheet[c][Rows] = lastRevision[c] /\ r > lastRevision[c]
          BY <1>2, <1>5, <2>1, <4>1 DEF Whole, Busy
        <4> QED
          BY <4>2
      <3>4. \A d \in Customers :
               /\ Marking(d) = {}
               /\ Marking(d)' = IF d = c THEN {g} ELSE {}
        BY <2>2, <2>3, <3>1 DEF Marking
      <3>5. \A d \in Customers :
               TakenOf(d)' = IF d = c THEN TakenOf(d) \cup {r} ELSE TakenOf(d)
        <4>1. ASSUME NEW d \in Customers
              PROVE  TakenOf(d)' = IF d = c THEN TakenOf(d) \cup {r}
                                            ELSE TakenOf(d)
          <5>1. {run'[h].revision : h \in Marking(d)'}
                    = IF d = c THEN {r} ELSE {}
            BY <2>3, <3>4
          <5>2. {run[h].revision : h \in Marking(d)} = {}
            BY <3>4
          <5> QED
            BY <2>1, <5>1, <5>2 DEF TakenOf
        <4> QED
          BY <4>1
      <3>6. sheet'[c][Rows] = IF r > sheet[c][Rows] THEN r ELSE sheet[c][Rows]
        BY <3>2, <3>3
      <3>7. TakenOf(c)' = TakenOf(c) \cup {r}
        BY <2>2, <3>5
      <3>8. \A d \in Customers \ {c} : TakenOf(d)' = TakenOf(d)
        BY <3>5
      <3> QED
        BY <1>3, <2>2, <3>2, <3>6, <3>7, <3>8, MirrorTakes
    <2> QED
      BY <2>3, <2>4, <2>5
  <1>10. CASE WriteMarker(g)
    <2>1. /\ run[g].step = "marker" /\ Mark(c, r) /\ UNCHANGED sheet
          /\ Goto(g, "state")
      BY <1>5, <1>10 DEF WriteMarker
    <2>2. c \in Customers /\ r \in Revisions
      BY <1>1, <1>2, <1>5, <2>1 DEF Busy
    <2>3. /\ \A h \in Runs \ {g} : run'[h] = run[h]
          /\ run'[g].step = "state"
      BY <1>1, <2>1, GotoMoves DEF RunSteps
    <2>4. \A d \in Customers : /\ Marking(d) = IF d = c THEN {g} ELSE {}
                               /\ Marking(d)' = {}
      <3>1. \A h \in Runs : run[h].step = "marker" => h = g
        BY <1>1, <2>1 DEF Busy
      <3> QED
        BY <1>5, <2>1, <2>3, <3>1 DEF Marking
    <2>5. \A d \in Customers, s \in Revisions :
             markers'[d][s] > 0 <=> markers[d][s] > 0 \/ (d = c /\ s = r)
      BY <1>1, <2>1, <2>2, MarkStays DEF Marked
    <2>6. ASSUME NEW d \in Customers PROVE TakenOf(d)' = TakenOf(d)
      <3>1. {run'[h].revision : h \in Marking(d)'} = {}
        BY <2>4
      <3>2. {run[h].revision : h \in Marking(d)} = IF d = c THEN {r} ELSE {}
        BY <1>5, <2>4
      <3> QED
        BY <2>2, <2>5, <3>1, <3>2 DEF TakenOf
    <2> QED
      BY <1>3, <2>1, <2>6, MirrorStutters
  <1> QED
    BY <1>4, <1>7, <1>8, <1>9, <1>10 DEF Execute

LEMMA MirrorMoves ==
    ASSUME LockInv, Tracked, SentExist, Undisturbed => Whole, [Next]_vars
    PROVE  [Mirrored!Next]_(Mirrored!vars)
  <1>1. CASE ~Undisturbed'
    <2>1. Mirrored!Break
      BY <1>1 DEF Mirrored!Break
    <2> QED
      BY <2>1 DEF Mirrored!Next
  <1>2. CASE Undisturbed'
    <2>1. Undisturbed /\ Whole
      BY <1>2, DeathsOnlyGrow
    <2>2. CASE UNCHANGED vars
      <3>1. UNCHANGED <<revision, run, sheet, markers>>
        BY <2>2 DEF vars, objectVars, sheetVars
      <3>2. \A c \in Customers : TakenOf(c)' = TakenOf(c)
        BY <3>1 DEF TakenOf, Marking
      <3> QED
        BY <1>2, <2>1, <3>1, <3>2, MirrorStutters
    <2>3. CASE \E g \in Runs : Execute(g) \/ LockTimesOut(g) \/ RunDies(g)
      BY <1>2, <2>1, <2>3, ScriptMirrors
    <2>4. CASE \/ \E c \in Customers :
                    Change(c) \/ \E r \in Revisions : Send(c, r) \/ Publish(c, r)
               \/ \E m \in queue, g \in Runs : Forward(m, g)
               \/ Acknowledge \/ Retry \/ GiveUp
               \/ \E m \in deadLetters : Replay(m)
      BY <1>2, <2>1, <2>4, OthersMirror
    <2> QED
      BY <2>2, <2>3, <2>4 DEF Next
  <1> QED
    BY <1>1, <1>2

LEMMA MirrorBegins == Init => Mirrored!Init
  <1> SUFFICES ASSUME Init PROVE Mirrored!Init
    OBVIOUS
  <1>1. \A c \in Customers : TakenOf(c) = {}
    BY DEF Init, TakenOf, Marking, IdleRun
  <1>2. \A c \in Customers : sheet[c][Rows] = 0
    BY SnapshotSyncAssumption DEF Init, SnapshotSyncAssumption
  <1>3. Undisturbed /\ revision = [c \in Customers |-> 0]
    BY DEF Init, Undisturbed
  <1> QED
    BY <1>1, <1>2, <1>3 DEF Mirrored!Init

(* Outbox, queue, scripts, lock, rows, marker and revision together look   *)
(* like a mirror that takes each snapshot in one step, once, and shows the *)
(* latest it has taken: syncTelegramFastPathSnapshot is linearizable until *)
(* a script dies between its writes.                                       *)
THEOREM SyncImplementsMirror == Spec => RefinesMirror
  <1>1. Spec => []SentExist
    BY InitSentExist, SentExistMoves, LockHolds, PTL DEF Spec
  <1>2. LockInv /\ Tracked /\ SentExist /\ (Undisturbed => Whole) /\ [Next]_vars
           => [Mirrored!Next]_(Mirrored!vars)
    BY MirrorMoves
  <1> QED
    BY <1>1, <1>2, MirrorBegins, WholeHolds, SnapshotsAreTracked, PTL
    DEF Spec, RefinesMirror, Mirrored!Spec

-----------------------------------------------------------------------------
(* When nothing is on its way.                                             *)

(* No row comes from a snapshot that was not made.                         *)
RowsExist ==
    \A c \in Customers, i \in 1 .. Rows : sheet[c][i] <= revision[c]

LEMMA RowsExistMoves ==
    ASSUME LockInv, Tracked, SentExist, RowsExist, [Next]_vars
    PROVE  RowsExist'
  <1>0. /\ revision \in [Customers -> Revisions] /\ Revisions \subseteq Nat
        /\ sheet \in [Customers -> [1 .. Rows -> Revisions]]
        /\ run \in [Runs -> Run]
    <2>1. TypeOK
      BY DEF LockInv
    <2> QED
      BY <2>1 DEF TypeOK, Revisions
  <1>1. CASE UNCHANGED <<sheet, revision>>
    BY <1>1 DEF RowsExist
  <1>2. ASSUME NEW c \in Customers, Change(c)
        PROVE  RowsExist'
    <2>1. UNCHANGED sheet /\ revision' = [revision EXCEPT ![c] = @ + 1]
      BY <1>2 DEF Change, sheetVars
    <2>2. ASSUME NEW d \in Customers, NEW i \in 1 .. Rows
          PROVE  sheet'[d][i] <= revision'[d]
      <3>1. /\ sheet[d][i] \in Nat /\ revision[d] \in Nat
            /\ revision'[d] = IF d = c THEN revision[d] + 1 ELSE revision[d]
        BY <1>0, <2>1
      <3>2. sheet'[d][i] = sheet[d][i] /\ sheet[d][i] <= revision[d]
        BY <2>1 DEF RowsExist
      <3> QED
        BY <3>1, <3>2
    <2> QED
      BY <2>2 DEF RowsExist
  <1>3. ASSUME NEW g \in Runs, WriteRow(g)
        PROVE  RowsExist'
    <2>1. PICK c, r, k : /\ c = run[g].customer /\ r = run[g].revision
                         /\ k = run[g].row
      OBVIOUS
    <2>2. /\ sheet' = [sheet EXCEPT ![c][k] = r] /\ UNCHANGED revision
          /\ run[g].step = "rows"
      BY <1>3, <2>1 DEF WriteRow, objectVars
    <2>3. c \in Customers /\ r \in 1 .. revision[c] /\ k \in 1 .. Rows
      BY <1>0, <2>1, <2>2, NotTaken DEF Run
    <2>4. ASSUME NEW d \in Customers, NEW i \in 1 .. Rows
          PROVE  sheet'[d][i] <= revision[d]
      <3>1. sheet'[d][i] = IF d = c /\ i = k THEN r ELSE sheet[d][i]
        BY <1>0, <2>2, <2>3
      <3>2. sheet[d][i] <= revision[d]
        BY DEF RowsExist
      <3>3. r <= revision[c]
        BY <1>0, <2>3
      <3> QED
        BY <3>1, <3>2, <3>3
    <2> QED
      BY <2>2, <2>4 DEF RowsExist
  <1>4. \/ UNCHANGED <<sheet, revision>>
        \/ \E c \in Customers : Change(c)
        \/ \E g \in Runs : WriteRow(g)
    <2>1. CASE UNCHANGED vars
      BY <2>1 DEF vars, objectVars, sheetVars
    <2>2. CASE \E c \in Customers :
                  Change(c) \/ \E r \in Revisions : Send(c, r) \/ Publish(c, r)
      BY <2>2 DEF Send, Publish, sheetVars
    <2>3. CASE \/ \E m \in queue, g \in Runs : Forward(m, g)
               \/ Acknowledge \/ Retry \/ GiveUp
               \/ \E m \in deadLetters : Replay(m)
      BY <2>3
      DEF Forward, Acknowledge, Retry, GiveUp, Replay, objectVars, sheetVars
    <2>4. CASE \E g \in Runs : Execute(g) \/ LockTimesOut(g) \/ RunDies(g)
      BY <2>4
      DEF Execute, Enter, WriteMarker, WriteState, Forget, LockTimesOut,
          RunDies, objectVars, sheetVars
    <2> QED
      BY <2>1, <2>2, <2>3, <2>4 DEF Next
  <1> QED
    BY <1>1, <1>2, <1>3, <1>4

(* The rows of a customer of whom nothing is on its way.                   *)
UpToDate ==
    \A c \in Customers :
        (\A r \in 1 .. revision[c] : ~OnItsWay(c, r)) =>
            \A i \in 1 .. Rows : sheet[c][i] = revision[c]

LEMMA SettledIsUpToDate ==
    ASSUME LockInv, RowsExist, Undisturbed, NothingIsLost
    PROVE  UpToDate
  <1>1. ASSUME NEW c \in Customers, NEW i \in 1 .. Rows,
               \A r \in 1 .. revision[c] : ~OnItsWay(c, r)
        PROVE  sheet[c][i] = revision[c]
    <2>1. /\ revision[c] \in Revisions /\ revision[c] \in Nat
          /\ sheet[c][i] \in Nat
      <3>1. revision[c] \in Revisions /\ sheet[c] \in [1 .. Rows -> Revisions]
        BY DEF LockInv, TypeOK
      <3>2. Revisions \subseteq Nat
        BY SnapshotSyncAssumption DEF Revisions, SnapshotSyncAssumption
      <3> QED
        BY <3>1, <3>2
    <2>2. sheet[c][i] <= revision[c]
      BY DEF RowsExist
    <2>3. CASE revision[c] = 0
      BY <2>1, <2>2, <2>3
    <2>4. CASE revision[c] # 0
      <3>1. revision[c] \in 1 .. revision[c] /\ revision[c] <= revision[c]
        BY <2>1, <2>4
      <3>2. sheet[c][i] >= revision[c]
        BY <1>1, <2>1, <2>4, <3>1 DEF NothingIsLost
      <3> QED
        BY <2>1, <2>2, <3>2
    <2> QED
      BY <2>3, <2>4
  <1> QED
    BY <1>1 DEF UpToDate

(* The safety half of SheetsCatchUp: until a script dies half-way, every   *)
(* row of a customer of whom no snapshot is in the outbox, the queue or    *)
(* among the dead letters shows exactly the last snapshot made.            *)
THEOREM SettledSheetsAreCurrent == Spec => [](Undisturbed => UpToDate)
  <1>1. Init => RowsExist
    BY DEF Init, RowsExist
  <1>2. Spec => []SentExist
    BY InitSentExist, SentExistMoves, LockHolds, PTL DEF Spec
  <1>3. LockInv /\ Tracked /\ SentExist /\ RowsExist /\ [Next]_vars => RowsExist'
    BY RowsExistMoves
  <1>4. LockInv /\ RowsExist /\ NothingIsLost => (Undisturbed => UpToDate)
    BY SettledIsUpToDate
  <1> QED
    BY <1>1, <1>2, <1>3, <1>4, LockHolds, SnapshotsAreTracked,
       SnapshotsAreNotLost, PTL DEF Spec
=============================================================================
