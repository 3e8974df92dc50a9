--------------------------- MODULE JobsRefinement ---------------------------
(***************************************************************************)
(* The dispatcher implements the job service: every step of Jobs is, seen  *)
(* through the mapping of `Service`, a step of JobService or none.         *)
(***************************************************************************)
EXTENDS JobsProofs

(* What the mapping needs beyond the invariants of JobsProofs: a live worker *)
(* has an event to raise, the row being started has no worker yet, the row   *)
(* whose outcome is applied is out of the reaper's hands, and a row that     *)
(* _timeouts has on its list has not been queued again.                      *)
MapInv ==
    /\ \A j \in Job : worker[j] = "alive" => event[j] # "none"
    /\ pc = "launch" => worker[cur] = "none"
    /\ pc \in {"write", "done", "resolve", "failed"} => cur \notin reaped
    /\ late # {} => pc \in {"timeouts", "expire", "expired"}
    /\ \A j \in late : row[j] \notin {"absent", "queued"}

(* Events and the rows in hand have their types.                             *)
LEMMA MapFacts ==
    ASSUME Typed
    PROVE  /\ event \in [Job -> {"none", "clear", "set"}]
           /\ overrun \subseteq Job /\ todo \in Seq(Job)
BY DEF Typed, TypeOK

(* Every step keeps what the mapping needs.                                  *)
LEMMA MapStep ==
    ASSUME Typed, WorkerInv, HookInv, MapInv, [Next]_vars
    PROVE  MapInv'
<1>. USE TypeFacts, MapFacts DEF Busy, MapInv, Live, Ended
<1>1. ASSUME NEW j \in Job, Submit(j)
      PROVE  MapInv'
  BY <1>1 DEF Submit, ledger, threads, pass, log, bounds
<1>2. ASSUME NEW j \in Job, Due(j)
      PROVE  MapInv'
  BY <1>2 DEF Due, ledger, threads, pass, log, bounds
<1>3. ASSUME NEW j \in Job, Overrun(j)
      PROVE  MapInv'
  BY <1>3 DEF Overrun, ledger, threads, pass, log, bounds
<1>4. ASSUME NEW j \in Job, Ack(j)
      PROVE  MapInv'
  BY <1>4 DEF Ack, ledger, threads, pass, log, bounds
<1>5. ASSUME NEW j \in Job, CancelMark(j)
      PROVE  MapInv'
  BY <1>5 DEF CancelMark, Update, ledger, threads, pass, log, bounds
<1>6. ASSUME NEW j \in Job, CancelSignal(j)
      PROVE  MapInv'
  BY <1>6 DEF CancelSignal, Signalled, ledger, threads, pass, log, bounds
<1>7. ASSUME NEW j \in Job, CancelFinish(j)
      PROVE  MapInv'
  BY <1>7 DEF CancelFinish, ledger, threads, pass, log, bounds
<1>8. ASSUME NEW j \in Job, CancelFault(j)
      PROVE  MapInv'
  BY <1>8 DEF CancelFault, ledger, threads, pass, log, bounds
<1>9. ASSUME NEW j \in Job, WorkerExit(j)
      PROVE  MapInv'
  BY <1>9 DEF WorkerExit, ledger, threads, pass, log, bounds
<1>10. ASSUME NEW j \in Job, ApplyRead(j)
      PROVE  MapInv'
  BY <1>10 DEF ApplyRead, WorkerInv, ledger, threads, pass, log, bounds
<1>11. ASSUME NEW j \in Job, TimeOut(j)
      PROVE  MapInv'
  BY <1>11 DEF TimeOut, Signalled, ledger, threads, pass, log, bounds
<1>12. ASSUME NEW j \in Job, Recover(j)
      PROVE  MapInv'
  BY <1>12 DEF Recover, ledger, threads, pass, log, bounds
<1>13. CASE Tick
  BY <1>13 DEF Tick, Popped, ledger, threads, pass, log, bounds
<1>14. CASE ApplyWrite
  BY <1>14 DEF ApplyWrite, WorkerInv, Update, NextStatus, ledger, threads, pass, log, bounds
<1>15. CASE ApplyDone
  BY <1>15 DEF ApplyDone, ledger, threads, pass, log, bounds
<1>16. CASE ResolveWrite
  BY <1>16 DEF ResolveWrite, Update, ledger, threads, pass, log, bounds
<1>17. CASE ResolveFailed
  BY <1>17 DEF ResolveFailed, ledger, threads, pass, log, bounds
<1>18. CASE Timeouts
  BY <1>18 DEF Timeouts, Overdue, Running, ledger, threads, pass, log, bounds
<1>19. CASE StartDue
  BY <1>19 DEF StartDue, ledger, threads, pass, log, bounds
<1>20. CASE StartSkip
  BY <1>20 DEF StartSkip, ledger, threads, pass, log, bounds
<1>21. CASE StartFull
  BY <1>21 DEF StartFull, ledger, threads, pass, log, bounds
<1>22. CASE StartRow
  BY <1>22 DEF StartRow, WorkerInv, OneWorkerPerRow, Update, ledger, threads, pass, log, bounds
<1>23. CASE Launch
  BY <1>23 DEF Launch, Update, ledger, threads, pass, log, bounds
<1>24. CASE After
  BY <1>24 DEF After, ledger, threads, pass, log, bounds
<1>25. CASE StartDone
  BY <1>25 DEF StartDone, ClearPass, ledger, threads, pass, log, bounds
<1>26. CASE Sweep
  BY <1>26 DEF Sweep, ledger, threads, pass, log, bounds
<1>27. CASE Recovered
  BY <1>27 DEF Recovered, ledger, threads, pass, log, bounds
<1>28. CASE TickFault
  BY <1>28 DEF TickFault, ClearPass, ledger, threads, pass, log, bounds
<1>29. CASE Crash
  BY <1>29 DEF Crash, ClearPass, ledger, threads, pass, log, bounds
<1>30. CASE UNCHANGED vars
  BY <1>30 DEF vars, ledger, threads, pass, log, bounds
<1>. QED
  BY <1>1, <1>2, <1>3, <1>4, <1>5, <1>6, <1>7, <1>8, <1>9, <1>10, <1>11, <1>12, <1>13, <1>14, <1>15, <1>16, <1>17, <1>18, <1>19, <1>20, <1>21, <1>22, <1>23, <1>24, <1>25, <1>26, <1>27, <1>28, <1>29, <1>30, Zenon DEF Next, Dispatch, Request, Off

(* The handler of one row changes: the abstract thread as a function.        *)
LEMMA ThreadExcept ==
    ASSUME NEW j \in Job, NEW v,
           \A k \in Job : HandlerOf(k)' = IF k = j THEN v ELSE HandlerOf(k)
    PROVE  [k \in Job |-> HandlerOf(k)]' = [[k \in Job |-> HandlerOf(k)] EXCEPT ![j] = v]
OBVIOUS

(* The service counts running rows as the dispatcher does.                   *)
LEMMA SameCardinality ==
    ASSUME NEW S
    PROVE  Service!Cardinality(S) = Cardinality(S)
BY Zenon DEF Cardinality, Service!Cardinality, IsFiniteSet, Service!IsFiniteSet

(* Every step of the dispatcher, the workers and the requests is a step of   *)
(* the service or changes nothing the service shows.                         *)
LEMMA RefineStep ==
    ASSUME IndInv, MapInv, [Next]_vars
    PROVE  [Service!JobNext]_(Service!jobVars)
<1>. USE TypeFacts, MapFacts, NoJobAssumption DEF Busy, IndInv, WorkerInv, HookInv, OwnerInv, MapInv, Live, Ended
<1>1. ASSUME NEW j \in Job, Submit(j)
      PROVE  [Service!JobNext]_(Service!jobVars)
  <2>1. Service!JobSubmit(j)
    BY <1>1 DEF Submit, Service!JobSubmit, HandlerOf, Threads, Flagged, Settling, Up, ledger, threads, pass, log, bounds
  <2>. QED
    BY <2>1, Zenon DEF Service!JobNext
<1>2. ASSUME NEW j \in Job, Due(j)
      PROVE  [Service!JobNext]_(Service!jobVars)
  BY <1>2 DEF Due, Service!jobVars, HandlerOf, Threads, Flagged, Settling, Up, Threads, Flagged, Settling, Up, ledger, threads, pass, log, bounds
<1>3. ASSUME NEW j \in Job, Overrun(j)
      PROVE  [Service!JobNext]_(Service!jobVars)
  BY <1>3 DEF Overrun, Service!jobVars, HandlerOf, Threads, Flagged, Settling, Up, Threads, Flagged, Settling, Up, ledger, threads, pass, log, bounds
<1>4. ASSUME NEW j \in Job, Ack(j)
      PROVE  [Service!JobNext]_(Service!jobVars)
  BY <1>4 DEF Ack, Service!jobVars, HandlerOf, Threads, Flagged, Settling, Up, Threads, Flagged, Settling, Up, ledger, threads, pass, log, bounds
<1>5. ASSUME NEW j \in Job, CancelMark(j)
      PROVE  [Service!JobNext]_(Service!jobVars)
  <2>1. Service!JobCancel(j)
    BY <1>5 DEF CancelMark, Service!JobCancel, HandlerOf, Threads, Flagged, Settling, Up, Service!JobLive, Update, ledger, threads, pass, log, bounds
  <2>. QED
    BY <2>1, Zenon DEF Service!JobNext
<1>6. ASSUME NEW j \in Job, CancelSignal(j)
      PROVE  [Service!JobNext]_(Service!jobVars)
  <2>1. Service!JobCancelSignal(j)
    BY <1>6 DEF CancelSignal, Service!JobCancelSignal, HandlerOf, Threads, Flagged, Settling, Up, Service!Raised, Signalled, ledger, threads, pass, log, bounds
  <2>. QED
    BY <2>1, Zenon DEF Service!JobNext
<1>7. ASSUME NEW j \in Job, CancelFinish(j)
      PROVE  [Service!JobNext]_(Service!jobVars)
  <2>1. Service!JobCancelFinish(j)
    BY <1>7 DEF CancelFinish, Service!JobCancelFinish, HandlerOf, Threads, Flagged, Settling, Up, ledger, threads, pass, log, bounds
  <2>. QED
    BY <2>1, Zenon DEF Service!JobNext
<1>8. ASSUME NEW j \in Job, CancelFault(j)
      PROVE  [Service!JobNext]_(Service!jobVars)
  <2>1. Service!JobCancelFinish(j)
    BY <1>8 DEF CancelFault, Service!JobCancelFinish, HandlerOf, Threads, Flagged, Settling, Up, ledger, threads, pass, log, bounds
  <2>. QED
    BY <2>1, Zenon DEF Service!JobNext
<1>9. ASSUME NEW j \in Job, WorkerExit(j)
      PROVE  [Service!JobNext]_(Service!jobVars)
  <2>1. \A k \in Job : HandlerOf(k)' = IF k = j THEN "over" ELSE HandlerOf(k)
    BY <1>9 DEF HandlerOf, WorkerExit, ledger, threads, pass, log, bounds
  <2>2. HandlerOf(j) = "alive"
    BY <1>9 DEF HandlerOf, WorkerExit, ledger, threads, pass, log, bounds
  <2>3. Flagged' = Flagged \ {j}
    BY <1>9, <2>1, <2>2 DEF Flagged, WorkerExit, ledger, threads, pass, log, bounds
  <2>4. Threads' = [Threads EXCEPT ![j] = "over"] /\ Threads[j] = "alive"
    BY <2>1, <2>2, ThreadExcept DEF Threads
  <2>5. Settling' = Settling /\ Up' = Up
    BY <1>9 DEF Settling, Up, WorkerExit, ledger, threads, pass, log, bounds
  <2>6. UNCHANGED <<row, cpc>>
    BY <1>9 DEF WorkerExit, ledger, threads, pass, log, bounds
  <2>7. Service!JobReturn(j)
    BY <2>3, <2>4, <2>5, <2>6 DEF Service!JobReturn
  <2>. QED
    BY <2>7, Zenon DEF Service!JobNext
<1>10. ASSUME NEW j \in Job, ApplyRead(j)
      PROVE  [Service!JobNext]_(Service!jobVars)
  <2>1. CASE row[j] # "running"
    <3>1. \A k \in Job : HandlerOf(k)' = IF k = j THEN "none" ELSE HandlerOf(k)
      BY <1>10, <2>1 DEF HandlerOf, ApplyRead, ledger, threads, pass, log, bounds
    <3>2. HandlerOf(j) = "over"
      BY <1>10, <2>1 DEF HandlerOf, ApplyRead, ledger, threads, pass, log, bounds
    <3>3. Flagged' = Flagged
      BY <1>10, <2>1, <3>1, <3>2 DEF Flagged, ApplyRead, ledger, threads, pass, log, bounds
    <3>4. Threads' = [Threads EXCEPT ![j] = "none"] /\ Threads[j] = "over"
      BY <3>1, <3>2, ThreadExcept DEF Threads
    <3>5. Settling' = Settling /\ Up' = Up
      BY <1>10, <2>1 DEF Settling, Up, ApplyRead, ledger, threads, pass, log, bounds
    <3>6. row[j] # "running" /\ UNCHANGED <<row, cpc>>
      BY <1>10, <2>1 DEF ApplyRead, ledger, threads, pass, log, bounds
    <3>7. Service!JobSettle(j, "done")
      BY <3>3, <3>4, <3>5, <3>6 DEF Service!JobSettle
    <3>. QED
      BY <3>7, Zenon DEF Service!JobNext
  <2>2. CASE row[j] = "running"
    BY <1>10, <2>2 DEF ApplyRead, Service!jobVars, HandlerOf, Threads, Flagged, Settling, Up, ledger, threads, pass, log, bounds
  <2>. QED
    BY <1>10, <2>1, <2>2
<1>11. ASSUME NEW j \in Job, TimeOut(j)
      PROVE  [Service!JobNext]_(Service!jobVars)
  <2>1. Service!JobExpireSignal(j)
    BY <1>11 DEF TimeOut, Service!JobExpireSignal, HandlerOf, Threads, Flagged, Settling, Up, Service!Raised, Signalled, ledger, threads, pass, log, bounds
  <2>. QED
    BY <2>1, Zenon DEF Service!JobNext
<1>12. ASSUME NEW j \in Job, Recover(j)
      PROVE  [Service!JobNext]_(Service!jobVars)
  <2>1. \E to \in {"queued", "failed"} : Service!JobRecover(j, to)
    BY <1>12 DEF Recover, Service!JobRecover, HandlerOf, Threads, Flagged, Settling, Up, ledger, threads, pass, log, bounds
  <2>. QED
    BY <2>1, Zenon DEF Service!JobNext
<1>13. CASE Tick
  BY <1>13 DEF Tick, Service!jobVars, HandlerOf, Threads, Flagged, Settling, Up, Threads, Flagged, Settling, Up, Popped, ledger, threads, pass, log, bounds
<1>14. CASE ApplyWrite
  <2>0. PICK j \in Job : j = cur
    BY <1>14 DEF ApplyWrite
  <2>a. PICK to \in {"queued", "done"} : to = NextStatus(j)
    BY DEF NextStatus
  <2>1. \A k \in Job : HandlerOf(k)' = IF k = j THEN "none" ELSE HandlerOf(k)
    BY <1>14, <2>0, <2>a DEF HandlerOf, ApplyWrite, Update, HookDue, ledger, threads, pass, log, bounds
  <2>2. HandlerOf(j) = "over"
    BY <1>14, <2>0, <2>a DEF HandlerOf, ApplyWrite, Update, HookDue, ledger, threads, pass, log, bounds
  <2>3. Flagged' = Flagged
    BY <1>14, <2>0, <2>a, <2>1, <2>2 DEF Flagged, ApplyWrite, Update, HookDue, ledger, threads, pass, log, bounds
  <2>4. Threads' = [Threads EXCEPT ![j] = "none"] /\ Threads[j] = "over"
    BY <2>1, <2>2, ThreadExcept DEF Threads
  <2>5. Settling' = (IF to = "queued" THEN Settling ELSE Settling \cup {j}) /\ Up' = Up
    BY <1>14, <2>0, <2>a DEF Settling, Up, ApplyWrite, Update, HookDue, ledger, threads, pass, log, bounds
  <2>6. row' = (IF row[j] = "running" THEN [row EXCEPT ![j] = to] ELSE row) /\ UNCHANGED cpc
    BY <1>14, <2>0, <2>a DEF ApplyWrite, Update, HookDue, ledger, threads, pass, log, bounds
  <2>7. Service!JobSettle(j, to)
    BY <2>3, <2>4, <2>5, <2>6, <2>a DEF Service!JobSettle
  <2>. QED
    BY <2>7 DEF Service!JobNext
<1>15. CASE ApplyDone
  <2>0. PICK j \in Job : j = cur
    BY <1>15 DEF ApplyDone
  <2>1. Service!JobFinish(j)
    BY <1>15, <2>0 DEF ApplyDone, Service!JobFinish, HandlerOf, Threads, Flagged, Settling, Up, ledger, threads, pass, log, bounds
  <2>. QED
    BY <2>1, Zenon DEF Service!JobNext
<1>16. CASE ResolveWrite
  <2>0. PICK j \in Job : j = cur
    BY <1>16 DEF ResolveWrite
  <2>1. CASE pc = "resolve"
    <3>1. \A k \in Job : HandlerOf(k)' = IF k = j THEN "none" ELSE HandlerOf(k)
      BY <1>16, <2>0, <2>1 DEF HandlerOf, ResolveWrite, Update, FailedIt, ledger, threads, pass, log, bounds
    <3>2. HandlerOf(j) = "over"
      BY <1>16, <2>0, <2>1 DEF HandlerOf, ResolveWrite, Update, FailedIt, ledger, threads, pass, log, bounds
    <3>3. Flagged' = Flagged
      BY <1>16, <2>0, <2>1, <3>1, <3>2 DEF Flagged, ResolveWrite, Update, FailedIt, ledger, threads, pass, log, bounds
    <3>4. Threads' = [Threads EXCEPT ![j] = "none"] /\ Threads[j] = "over"
      BY <3>1, <3>2, ThreadExcept DEF Threads
    <3>5. Settling' = (IF row[j] = "running" THEN Settling \cup {j} ELSE Settling) /\ Up' = Up
      BY <1>16, <2>0, <2>1 DEF Settling, Up, ResolveWrite, Update, FailedIt, ledger, threads, pass, log, bounds
    <3>6. row' = (IF row[j] = "running" THEN [row EXCEPT ![j] = "failed"] ELSE row) /\ UNCHANGED cpc
      BY <1>16, <2>0, <2>1 DEF ResolveWrite, Update, FailedIt, ledger, threads, pass, log, bounds
    <3>7. Service!JobSettle(j, "failed")
      BY <3>3, <3>4, <3>5, <3>6 DEF Service!JobSettle
    <3>. QED
      BY <3>7, Zenon DEF Service!JobNext
  <2>2. CASE pc = "expire" /\ row[j] = "running"
    <3>1. Service!JobExpire(j)
      BY <1>16, <2>0, <2>2 DEF ResolveWrite, Service!JobExpire, HandlerOf, Threads, Flagged, Settling, Up, Update, FailedIt, ledger, threads, pass, log, bounds
    <3>. QED
      BY <3>1, Zenon DEF Service!JobNext
  <2>3. CASE pc = "expire" /\ row[j] # "running"
    BY <1>16, <2>0, <2>3 DEF ResolveWrite, Service!jobVars, HandlerOf, Threads, Flagged, Settling, Up, Update, FailedIt, ledger, threads, pass, log, bounds
  <2>. QED
    BY <1>16, <2>1, <2>2, <2>3 DEF ResolveWrite
<1>17. CASE ResolveFailed
  <2>0. PICK j \in Job : j = cur
    BY <1>17 DEF ResolveFailed
  <2>1. Service!JobFinish(j)
    BY <1>17, <2>0 DEF ResolveFailed, Service!JobFinish, HandlerOf, Threads, Flagged, Settling, Up, ledger, threads, pass, log, bounds
  <2>. QED
    BY <2>1, Zenon DEF Service!JobNext
<1>18. CASE Timeouts
  BY <1>18 DEF Timeouts, Service!jobVars, HandlerOf, Threads, Flagged, Settling, Up, Threads, Flagged, Settling, Up, ledger, threads, pass, log, bounds
<1>19. CASE StartDue
  BY <1>19 DEF StartDue, Service!jobVars, HandlerOf, Threads, Flagged, Settling, Up, Threads, Flagged, Settling, Up, ledger, threads, pass, log, bounds
<1>20. CASE StartSkip
  BY <1>20 DEF StartSkip, Service!jobVars, HandlerOf, Threads, Flagged, Settling, Up, Threads, Flagged, Settling, Up, ledger, threads, pass, log, bounds
<1>21. CASE StartFull
  BY <1>21 DEF StartFull, Service!jobVars, HandlerOf, Threads, Flagged, Settling, Up, Threads, Flagged, Settling, Up, ledger, threads, pass, log, bounds
<1>22. CASE StartRow
  <2>0. PICK j \in Job : j = Head(todo)
    BY <1>22 DEF StartRow
  <2>1. CASE row[j] = "queued"
    <3>1. \A k \in Job : row[k] = "running" => KeysOf[j] \cap KeysOf[k] = {}
      BY <1>22, <2>0 DEF StartRow, KeyInv, Clash, Running
    <3>2. Cardinality({k \in Job : row[k] = "running"}) < Workers
      BY <1>22, RunningFinite, WorkersAssumption DEF StartRow, CapInv, Full, Running, Typed, TypeOK
    <3>3. worker[j] = "none" /\ reaped = {} /\ cur = NoJob
      BY <1>22, <2>0, <2>1 DEF StartRow, OneWorkerPerRow
    <3>4. /\ pc = "start" /\ pc' = "launch" /\ cur' = j
          /\ row' = [row EXCEPT ![j] = "running"] /\ UNCHANGED <<worker, event, reaped, cpc>>
      BY <1>22, <2>0, <2>1 DEF StartRow, Update, ledger, threads, pass, log, bounds
    <3>5. \A k \in Job : HandlerOf(k)' = IF k = j THEN "due" ELSE HandlerOf(k)
      BY <3>3, <3>4 DEF HandlerOf
    <3>6. HandlerOf(j) = "none"
      BY <3>3, <3>4 DEF HandlerOf
    <3>7. Flagged' = Flagged /\ Settling' = Settling /\ Up' = Up /\ Up
      BY <3>4, <3>5, <3>6 DEF Flagged, Settling, Up
    <3>8. Threads' = [Threads EXCEPT ![j] = "due"] /\ Threads[j] = "none"
      BY <3>5, <3>6, ThreadExcept DEF Threads
    <3>9. UNCHANGED <<Flagged, cpc, Settling, Up>>
      BY <3>4, <3>7
    <3>10. row' = [row EXCEPT ![j] = "running"] /\ Up
      BY <3>4, <3>7, Zenon
    <3>11. Service!Cardinality({k \in Job : row[k] = "running"}) < Workers
      BY <3>2, SameCardinality
    <3>12. Service!JobStart(j)
      BY <2>1, <3>1, <3>8, <3>9, <3>10, <3>11, Zenon DEF Service!JobStart
    <3>. QED
      BY <3>12, Zenon DEF Service!JobNext
  <2>2. CASE row[j] # "queued"
    BY <1>22, <2>0, <2>2 DEF StartRow, Service!jobVars, HandlerOf, Threads, Flagged, Settling, Up, Update, ledger, threads, pass, log, bounds
  <2>. QED
    BY <2>1, <2>2
<1>23. CASE Launch
  <2>0. PICK j \in Job : j = cur
    BY <1>23 DEF Launch
  <2>1. CASE Registered(j)
    <3>1. \A k \in Job : HandlerOf(k)' = IF k = j THEN "alive" ELSE HandlerOf(k)
      BY <1>23, <2>0, <2>1 DEF HandlerOf, Launch, ledger, threads, pass, log, bounds
    <3>2. HandlerOf(j) = "due"
      BY <1>23, <2>0, <2>1 DEF HandlerOf, Launch, ledger, threads, pass, log, bounds
    <3>3. Flagged' = Flagged
      BY <1>23, <2>0, <2>1, <3>1, <3>2 DEF Flagged, Launch, ledger, threads, pass, log, bounds
    <3>4. Threads' = [Threads EXCEPT ![j] = "alive"] /\ Threads[j] = "due"
      BY <3>1, <3>2, ThreadExcept DEF Threads
    <3>5. Settling' = Settling /\ Up' = Up
      BY <1>23, <2>0, <2>1 DEF Settling, Up, Launch, ledger, threads, pass, log, bounds
    <3>6. UNCHANGED <<row, cpc>>
      BY <1>23, <2>0, <2>1 DEF Launch, ledger, threads, pass, log, bounds
    <3>7. Service!JobLaunch(j)
      BY <3>3, <3>4, <3>5, <3>6 DEF Service!JobLaunch
    <3>. QED
      BY <3>7, Zenon DEF Service!JobNext
  <2>2. CASE ~Registered(j)
    <3>1. \A k \in Job : HandlerOf(k)' = IF k = j THEN "none" ELSE HandlerOf(k)
      BY <1>23, <2>0, <2>2 DEF HandlerOf, Launch, Update, ledger, threads, pass, log, bounds
    <3>2. HandlerOf(j) = "due"
      BY <1>23, <2>0, <2>2 DEF HandlerOf, Launch, Update, ledger, threads, pass, log, bounds
    <3>3. Flagged' = Flagged
      BY <1>23, <2>0, <2>2, <3>1, <3>2 DEF Flagged, Launch, Update, ledger, threads, pass, log, bounds
    <3>4. Threads' = [Threads EXCEPT ![j] = "none"] /\ Threads[j] = "due"
      BY <3>1, <3>2, ThreadExcept DEF Threads
    <3>5. Settling' = Settling /\ Up' = Up
      BY <1>23, <2>0, <2>2 DEF Settling, Up, Launch, Update, ledger, threads, pass, log, bounds
    <3>6. row' = (IF row[j] = "running" THEN [row EXCEPT ![j] = "failed"] ELSE row) /\ UNCHANGED cpc
      BY <1>23, <2>0, <2>2 DEF Launch, Update, ledger, threads, pass, log, bounds
    <3>7. Service!JobUnknown(j)
      BY <3>3, <3>4, <3>5, <3>6 DEF Service!JobUnknown
    <3>. QED
      BY <3>7, Zenon DEF Service!JobNext
  <2>. QED
    BY <1>23, <2>1, <2>2
<1>24. CASE After
  BY <1>24 DEF After, Service!jobVars, HandlerOf, Threads, Flagged, Settling, Up, Threads, Flagged, Settling, Up, ledger, threads, pass, log, bounds
<1>25. CASE StartDone
  BY <1>25 DEF StartDone, Service!jobVars, HandlerOf, Threads, Flagged, Settling, Up, Threads, Flagged, Settling, Up, ClearPass, ledger, threads, pass, log, bounds
<1>26. CASE Sweep
  <2>1. UNCHANGED <<cur, worker, event, reaped, cpc>> /\ pc = "sweep" /\ pc' = "idle"
    BY <1>26 DEF Sweep, ledger, threads, pass, log, bounds
  <2>2. \A k \in Job : HandlerOf(k)' = HandlerOf(k)
    BY <2>1 DEF HandlerOf
  <2>3. UNCHANGED <<Threads, Flagged, Settling, Up>>
    BY <2>1, <2>2 DEF Threads, Flagged, Settling, Up
  <2>4. PICK old \in SUBSET {j \in Job : row[j] \in Ended} :
          row' = [j \in Job |-> IF j \in old THEN "swept" ELSE row[j]]
    BY <1>26 DEF Sweep
  <2>5. Service!JobSweep
    BY <2>1, <2>3, <2>4 DEF Service!JobSweep, Service!JobEnded
  <2>. QED
    BY <2>5, Zenon DEF Service!JobNext
<1>27. CASE Recovered
  <2>1. Service!JobRecovered
    BY <1>27 DEF Recovered, Service!JobRecovered, HandlerOf, Threads, Flagged, Settling, Up, Running, ledger, threads, pass, log, bounds
  <2>. QED
    BY <2>1, Zenon DEF Service!JobNext
<1>28. CASE TickFault
  <2>. DEFINE lost == {j \in Job : HandlerOf(j) \in {"due", "over"} /\ worker[j] = "none"}
  <2>1. /\ pc' \in {"idle", "off"} /\ cur' = NoJob /\ reaped' = {}
        /\ UNCHANGED <<row, worker, event, cpc>>
    BY <1>28 DEF TickFault, ClearPass, ledger, threads, pass, log, bounds
  <2>2. \A k \in Job : HandlerOf(k)' = IF k \in lost THEN "none" ELSE HandlerOf(k)
    BY <2>1 DEF HandlerOf
  <2>3. \A k \in Job : HandlerOf(k)' = "alive" <=> HandlerOf(k) = "alive"
    BY <2>1 DEF HandlerOf
  <2>4. Threads' = [k \in Job |-> IF k \in lost THEN "none" ELSE Threads[k]]
    BY <2>2 DEF Threads
  <2>5. lost \in SUBSET {j \in Job : Threads[j] \in {"due", "over"}}
    BY DEF Threads
  <2>6. Flagged' = Flagged /\ Settling' = {} /\ Up' = TRUE
    BY <2>1, <2>3 DEF Flagged, Settling, Up
  <2>. HIDE DEF lost
  <2>7. Service!JobFault
    BY <2>1, <2>4, <2>5, <2>6 DEF Service!JobFault
  <2>. QED
    BY <2>7, Zenon DEF Service!JobNext
<1>29. CASE Crash
  <2>1. Service!JobCrash
    BY <1>29 DEF Crash, Service!JobCrash, HandlerOf, Threads, Flagged, Settling, Up, ClearPass, ledger, threads, pass, log, bounds
  <2>. QED
    BY <2>1, Zenon DEF Service!JobNext
<1>30. CASE UNCHANGED vars
  BY <1>30 DEF vars, Service!jobVars, HandlerOf, Threads, Flagged, Settling, Up, ledger, threads, pass, log, bounds
<1>. QED
  BY <1>1, <1>2, <1>3, <1>4, <1>5, <1>6, <1>7, <1>8, <1>9, <1>10, <1>11, <1>12, <1>13, <1>14, <1>15, <1>16, <1>17, <1>18, <1>19, <1>20, <1>21, <1>22, <1>23, <1>24, <1>25, <1>26, <1>27, <1>28, <1>29, <1>30, Zenon DEF Next, Dispatch, Request, Off

(* The dispatcher starts as the service does: no row, no thread, nothing due. *)
LEMMA RefineInit == Init => Service!JobInit /\ MapInv
<1>. SUFFICES ASSUME Init PROVE Service!JobInit /\ MapInv
  OBVIOUS
<1>. USE NoJobAssumption
<1>1. \A j \in Job : HandlerOf(j) = "none"
  BY DEF Init, HandlerOf
<1>2. Threads = [j \in Job |-> "none"]
  BY <1>1 DEF Threads
<1>3. Flagged = {} /\ Settling = {} /\ Up = TRUE
  BY <1>1 DEF Init, Flagged, Settling, Up
<1>4. row = [j \in Job |-> "absent"] /\ cpc = [j \in Job |-> "none"]
  BY DEF Init
<1>5. MapInv
  BY DEF Init, MapInv
<1>. QED
  BY <1>2, <1>3, <1>4, <1>5 DEF Service!JobInit

(* jobs.py and its dispatcher implement the job service for every set of     *)
(* jobs, keys, bound on workers and number of faults and restarts: the       *)
(* batches, the due list, the per-row reads and writes, the reaper, late     *)
(* cancels and timeouts show nothing that JobService does not allow.         *)
THEOREM Refinement == Spec => ImplementsService
<1>1. Spec => [](IndInv /\ MapInv)
  <2>1. Init => IndInv /\ MapInv
    BY IndInvInit, RefineInit
  <2>2. IndInv /\ MapInv /\ [Next]_vars => (IndInv /\ MapInv)'
    BY IndInvStep, MapStep DEF IndInv
  <2>. QED
    BY <2>1, <2>2, PTL DEF Spec
<1>2. IndInv /\ MapInv /\ [Next]_vars => [Service!JobNext]_(Service!jobVars)
  BY RefineStep
<1>. QED
  BY <1>1, <1>2, RefineInit, PTL DEF Spec, ImplementsService, Service!JobSpec
=============================================================================
