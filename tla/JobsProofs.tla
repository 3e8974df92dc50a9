----------------------------- MODULE JobsProofs -----------------------------
(***************************************************************************)
(* Proofs about the job service, for every set of rows, keys and workers.  *)
(***************************************************************************)
EXTENDS Jobs, FiniteSetTheorems, SequenceTheorems, TLAPS

(* Taking a row out of the due list leaves a list of rows.                   *)
LEMMA DropType ==
    ASSUME NEW S, NEW s \in Seq(S), NEW j
    PROVE  Drop(s, j) \in Seq(S)
<1>. DEFINE At == {i \in DOMAIN s : s[i] = j}
            i == CHOOSE i \in At : TRUE
<1>1. CASE At = {}
  BY <1>1 DEF Drop
<1>2. CASE At # {}
  <2>1. i \in At
    BY <1>2
  <2>2. i \in 1..Len(s)
    BY <2>1
  <2>. HIDE DEF i
  <2>3. SubSeq(s, 1, i - 1) \in Seq(S) /\ SubSeq(s, i + 1, Len(s)) \in Seq(S)
    BY <2>2
  <2>4. Drop(s, j) = SubSeq(s, 1, i - 1) \o SubSeq(s, i + 1, Len(s))
    BY <1>2, Zenon DEF Drop, i
  <2>. QED
    BY <2>3, <2>4
<1>. QED
  BY <1>1, <1>2

(* A guarded UPDATE keeps the ledger's types.                                *)
LEMMA UpdateType ==
    ASSUME TypeOK, NEW j \in Job, NEW froms, NEW to \in Status, Update(j, froms, to)
    PROVE  /\ row' \in [Job -> Status]
           /\ ready' \in Seq(Job)
           /\ overrun' \subseteq Job
BY DropType DEF TypeOK, Update

(* Where the dispatcher works on one row.                                    *)
Busy == {"write", "done", "resolve", "failed", "expire", "expired", "launch", "after"}

Typed ==
    /\ TypeOK
    /\ pc \in Busy => cur \in Job
    /\ pc \in {"launch", "after"} => count > 0

(* Every step keeps the types.                                               *)
LEMMA TypeStep ==
    ASSUME Typed, [Next]_vars
    PROVE  Typed'
<1>. USE NoJobAssumption, KeysAssumption, KindsAssumption, JobAssumption
     DEF Typed, TypeOK, Busy, Status, Live, Ended, Outcome
<1>1. ASSUME NEW j \in Job, Submit(j)
      PROVE  Typed'
  <2>1. ASSUME NEW i \in 0..Len(ready)
        PROVE  SubSeq(ready, 1, i) \o <<j>> \o SubSeq(ready, i + 1, Len(ready)) \in Seq(Job)
    <3>1. SubSeq(ready, 1, i) \in Seq(Job) /\ SubSeq(ready, i + 1, Len(ready)) \in Seq(Job)
      OBVIOUS
    <3>2. <<j>> \in Seq(Job)
      OBVIOUS
    <3>. QED
      BY <3>1, <3>2
  <2>2. ready' \in Seq(Job)
    <3>1. CASE UNCHANGED ready
      BY <3>1
    <3>2. CASE ~UNCHANGED ready
      <4>1. PICK i \in 0..Len(ready) :
              ready' = SubSeq(ready, 1, i) \o <<j>> \o SubSeq(ready, i + 1, Len(ready))
        BY <1>1, <3>2, Zenon DEF Submit
      <4>. QED
        BY <4>1, <2>1
    <3>. QED
      BY <3>1, <3>2
  <2>. QED
    BY <1>1, <2>2 DEF Submit, threads, pass, log, bounds
<1>2. ASSUME NEW j \in Job, Due(j)
      PROVE  Typed'
  BY <1>2 DEF Due, threads, pass, log, bounds
<1>3. ASSUME NEW j \in Job, Overrun(j)
      PROVE  Typed'
  BY <1>3 DEF Overrun, threads, pass, log, bounds
<1>4. ASSUME NEW j \in Job, Ack(j)
      PROVE  Typed'
  BY <1>4 DEF Ack, threads, pass, log, bounds
<1>5. ASSUME NEW j \in Job, CancelMark(j)
      PROVE  Typed'
  <2>1. row' \in [Job -> Status] /\ ready' \in Seq(Job) /\ overrun' \subseteq Job
    BY <1>5, UpdateType DEF CancelMark
  <2>. QED
    BY <1>5, <2>1, Zenon DEF CancelMark, threads, pass, log, bounds
<1>6. ASSUME NEW j \in Job, CancelSignal(j)
      PROVE  Typed'
  BY <1>6 DEF CancelSignal, Signalled, ledger, pass, log, bounds
<1>7. ASSUME NEW j \in Job, CancelFinish(j)
      PROVE  Typed'
  BY <1>7 DEF CancelFinish, OnFinish, ledger, threads, pass, bounds
<1>8. ASSUME NEW j \in Job, CancelFault(j)
      PROVE  Typed'
  BY <1>8 DEF CancelFault, ledger, threads, pass, log
<1>9. ASSUME NEW j \in Job, WorkerExit(j)
      PROVE  Typed'
  BY <1>9 DEF WorkerExit, ledger, pass, log, bounds
<1>10. ASSUME NEW j \in Job, ApplyRead(j)
      PROVE  Typed'
  BY <1>10, Zenon DEF ApplyRead, ledger, log, bounds
<1>11. ASSUME NEW j \in Job, TimeOut(j)
      PROVE  Typed'
  BY <1>11 DEF TimeOut, Signalled, ledger, log, bounds
<1>12. ASSUME NEW j \in Job, Recover(j)
       PROVE  Typed'
  <2>1. CASE Registered(j) /\ j \in Requeued
    <3>1. Append(ready, j) \in Seq(Job)
      OBVIOUS
    <3>. QED
      BY <1>12, <2>1, <3>1, Zenon DEF Recover, threads, pass, bounds
  <2>2. CASE ~(Registered(j) /\ j \in Requeued)
    <3>1. /\ row' = [row EXCEPT ![j] = "failed"] /\ UNCHANGED ready
          /\ alerted' = alerted \cup {j} /\ OnFinish(j)
      BY <1>12, <2>2 DEF Recover
    <3>2. finishes' \in [Job -> Nat]
      BY <3>1 DEF OnFinish
    <3>. QED
      BY <1>12, <3>1, <3>2, Zenon DEF Recover, threads, pass, bounds
  <2>. QED
    BY <2>1, <2>2, Zenon
<1>13. CASE Tick
  BY <1>13 DEF Tick, Popped, ledger, log, bounds
<1>14. CASE ApplyWrite
  <2>1. row' \in [Job -> Status] /\ ready' \in Seq(Job) /\ overrun' \subseteq Job
    BY <1>14, UpdateType DEF ApplyWrite, NextStatus
  <2>2. left' \in [Job -> Nat]
    BY <1>14 DEF ApplyWrite, RunsAgain
  <2>. QED
    BY <1>14, <2>1, <2>2, Zenon DEF ApplyWrite, log, bounds
<1>15. CASE ApplyDone
  BY <1>15 DEF ApplyDone, OnFinish, ledger, threads, bounds
<1>16. CASE ResolveWrite
  <2>1. row' \in [Job -> Status] /\ ready' \in Seq(Job) /\ overrun' \subseteq Job
    BY <1>16, UpdateType DEF ResolveWrite
  <2>. QED
    BY <1>16, <2>1, Zenon DEF ResolveWrite, FailedIt, log, bounds
<1>17. CASE ResolveFailed
  BY <1>17 DEF ResolveFailed, OnFinish, ledger, bounds
<1>18. CASE Timeouts
  BY <1>18 DEF Timeouts, Overdue, Running, ledger, threads, log, bounds
<1>19. CASE StartDue
  <2>. DEFINE live == Running \cup {j \in Job : worker[j] # "none" /\ row[j] # "swept"}
  <2>1. live \subseteq Job /\ IsFiniteSet(live)
    BY FS_Subset DEF Running
  <2>2. Cardinality(live) \in Nat
    BY <2>1, FS_CardinalityType
  <2>3. held' \subseteq Key
    BY <1>19, <2>1 DEF StartDue
  <2>. QED
    BY <1>19, <2>2, <2>3 DEF StartDue, ledger, threads, log, bounds
<1>20. CASE StartSkip
  BY <1>20 DEF StartSkip, ledger, threads, log, bounds
<1>21. CASE StartFull
  BY <1>21 DEF StartFull, ledger, threads, log, bounds
<1>22. CASE StartRow
  <2>1. row' \in [Job -> Status] /\ ready' \in Seq(Job) /\ overrun' \subseteq Job
    BY <1>22, UpdateType DEF StartRow
  <2>2. Head(todo) \in Job /\ Tail(todo) \in Seq(Job)
    BY <1>22 DEF StartRow
  <2>3. /\ held' \subseteq Key /\ count' \in Nat /\ cur' \in Job \cup {NoJob}
        /\ pc' \in {"start", "launch"}
        /\ pc' = "launch" => cur' \in Job /\ count' > 0
    BY <1>22, <2>2 DEF StartRow
  <2>. QED
    BY <1>22, <2>1, <2>2, <2>3 DEF StartRow, threads, log, bounds
<1>23. CASE Launch
  <2>1. CASE Registered(cur)
    BY <1>23, <2>1, Zenon DEF Launch, pass, bounds
  <2>2. CASE ~Registered(cur)
    <3>1. /\ Update(cur, {"running"}, "failed")
          /\ alerted' = IF row[cur] = "running" THEN alerted \cup {cur} ELSE alerted
          /\ event' = [event EXCEPT ![cur] = "none"] /\ UNCHANGED worker
      BY <1>23, <2>2 DEF Launch
    <3>2. row' \in [Job -> Status] /\ ready' \in Seq(Job) /\ overrun' \subseteq Job
      BY <1>23, <3>1, UpdateType DEF Launch
    <3>. QED
      BY <1>23, <3>1, <3>2, Zenon DEF Launch, pass, bounds
  <2>. QED
    BY <2>1, <2>2, Zenon
<1>24. CASE After
  BY <1>24 DEF After, ledger, threads, log, bounds
<1>25. CASE StartDone
  BY <1>25 DEF StartDone, ClearPass, ledger, threads, log, bounds
<1>26. CASE Sweep
  BY <1>26 DEF Sweep, threads, pass, log, bounds
<1>27. CASE Recovered
  BY <1>27 DEF Recovered, ledger, threads, pass, log, bounds
<1>28. CASE TickFault
  BY <1>28 DEF TickFault, ClearPass, ledger, log
<1>29. CASE Crash
  BY <1>29 DEF Crash, ClearPass, ledger, log
<1>30. CASE UNCHANGED vars
  BY <1>30 DEF vars, ledger, threads, pass, log, bounds
<1>. QED
  BY <1>1, <1>2, <1>3, <1>4, <1>5, <1>6, <1>7, <1>8, <1>9, <1>10, <1>11, <1>12, <1>13, <1>14, <1>15, <1>16, <1>17, <1>18, <1>19, <1>20, <1>21, <1>22, <1>23, <1>24, <1>25, <1>26, <1>27, <1>28, <1>29, <1>30, Zenon DEF Next, Dispatch, Request, Off

-----------------------------------------------------------------------------
(* Why two running rows share no key: from StartDue to the end of the walk   *)
(* `held` covers the keys of every running row, and the row being started    *)
(* shares no key with the others, so giving its keys back uncovers nobody.   *)
KeyInv ==
    /\ RunningExclusive
    /\ pc \in {"start", "launch", "after"} => \A j \in Running : KeysOf[j] \subseteq held
    /\ pc \in {"launch", "after"} =>
         \A j \in Running : j # cur => KeysOf[j] \cap KeysOf[cur] = {}

(* Why the cap holds: `count` is at least the number of running rows, and    *)
(* more than the number of the others while one is being started.            *)
CapInv ==
    /\ WorkerCap
    /\ pc \in {"start", "launch", "after"} => Cardinality(Running) <= count
    /\ pc \in {"launch", "after"} => Cardinality(Running \ {cur}) < count

(* Why a queued row has no worker: a worker is popped before its outcome can *)
(* queue the row again, and one is created only for a row that left queued.  *)
WorkerInv ==
    /\ OneWorkerPerRow
    /\ \A j \in Job : row[j] = "absent" => worker[j] = "none"
    /\ pc = "boot" => \A j \in Job : worker[j] = "none"
    /\ \A j \in reaped : worker[j] = "none"
    /\ reaped # {} => pc \in {"reap", "write", "done", "resolve", "failed"}
    /\ pc \in {"write", "done", "resolve", "failed"} => worker[cur] = "none"
    /\ pc = "launch" => row[cur] \notin {"absent", "queued"}

(* What the hooks run for: the status of the row between the guarded write   *)
(* and the hook that follows it.                                             *)
HookInv ==
    /\ HooksInOrder
    /\ \A j \in Job : cpc[j] # "none" => row[j] \in {"cancelled", "swept"}
    /\ pc = "write" => row[cur] \in {"running", "cancelled"}
    /\ pc = "done" => row[cur] \in {"done", "cancelled"}
    /\ pc \in {"failed", "expired"} => row[cur] = "failed"
    /\ pc = "done" /\ row[cur] = "done" => finishes[cur] = 0
    /\ pc \in {"failed", "expired"} => finishes[cur] = 0

-----------------------------------------------------------------------------
(* A guarded UPDATE to another status starts no row.                         *)
LEMMA UpdateStartsNone ==
    ASSUME TypeOK, NEW j \in Job, NEW froms, NEW to \in Status, to # "running",
           Update(j, froms, to)
    PROVE  Running' \subseteq Running
BY DEF TypeOK, Update, Running

(* Only _start_due marks rows running, and only StartDue, StartRow and After *)
(* touch what the walk over the due rows counts as taken.                    *)
LEMMA WalkFrame ==
    ASSUME Typed, [Next]_vars, ~StartDue, ~StartRow, ~After
    PROVE  /\ Running' \subseteq Running
           /\ pc' \in {"start", "launch", "after"} =>
                pc \in {"start", "launch", "after"} /\ held' = held /\ count' = count
           /\ pc' \in {"launch", "after"} => pc \in {"launch", "after"} /\ cur' = cur
<1>. DEFINE Frame ==
       /\ pc' \in {"start", "launch", "after"} =>
            pc \in {"start", "launch", "after"} /\ held' = held /\ count' = count
       /\ pc' \in {"launch", "after"} => pc \in {"launch", "after"} /\ cur' = cur
<1>. SUFFICES Running' \subseteq Running /\ Frame
  OBVIOUS
<1>. USE DEF Typed, TypeOK, Busy, Status, Live, Ended
<1>1. ASSUME NEW j \in Job, Submit(j)
      PROVE  Running' \subseteq Running /\ Frame
  BY <1>1 DEF Running, Submit, pass
<1>2. ASSUME NEW j \in Job, Due(j)
      PROVE  Running' \subseteq Running /\ Frame
  BY <1>2 DEF Running, Due, pass
<1>3. ASSUME NEW j \in Job, Overrun(j)
      PROVE  Running' \subseteq Running /\ Frame
  BY <1>3 DEF Running, Overrun, pass
<1>4. ASSUME NEW j \in Job, Ack(j)
      PROVE  Running' \subseteq Running /\ Frame
  BY <1>4 DEF Running, Ack, pass
<1>5. ASSUME NEW j \in Job, CancelMark(j)
      PROVE  Running' \subseteq Running /\ Frame
  <2>1. Running' \subseteq Running
    BY <1>5, UpdateStartsNone DEF CancelMark
  <2>. QED
    BY <1>5, <2>1 DEF CancelMark, pass
<1>6. ASSUME NEW j \in Job, CancelSignal(j)
      PROVE  Running' \subseteq Running /\ Frame
  BY <1>6 DEF Running, CancelSignal, ledger, pass
<1>7. ASSUME NEW j \in Job, CancelFinish(j)
      PROVE  Running' \subseteq Running /\ Frame
  BY <1>7 DEF Running, CancelFinish, ledger, pass
<1>8. ASSUME NEW j \in Job, CancelFault(j)
      PROVE  Running' \subseteq Running /\ Frame
  BY <1>8 DEF Running, CancelFault, ledger, pass
<1>9. ASSUME NEW j \in Job, WorkerExit(j)
      PROVE  Running' \subseteq Running /\ Frame
  BY <1>9 DEF Running, WorkerExit, ledger, pass
<1>10. ASSUME NEW j \in Job, ApplyRead(j)
      PROVE  Running' \subseteq Running /\ Frame
  BY <1>10 DEF Running, ApplyRead, ledger
<1>11. ASSUME NEW j \in Job, TimeOut(j)
      PROVE  Running' \subseteq Running /\ Frame
  BY <1>11 DEF Running, TimeOut, ledger
<1>12. ASSUME NEW j \in Job, Recover(j)
      PROVE  Running' \subseteq Running /\ Frame
  BY <1>12 DEF Running, Recover, pass
<1>13. CASE Tick
  BY <1>13 DEF Running, Tick, ledger
<1>14. CASE ApplyWrite
  <2>1. Running' \subseteq Running
    BY <1>14, UpdateStartsNone DEF ApplyWrite, NextStatus
  <2>. QED
    BY <1>14, <2>1 DEF ApplyWrite
<1>15. CASE ApplyDone
  BY <1>15 DEF Running, ApplyDone, ledger
<1>16. CASE ResolveWrite
  <2>1. Running' \subseteq Running
    BY <1>16, UpdateStartsNone DEF ResolveWrite
  <2>. QED
    BY <1>16, <2>1 DEF ResolveWrite
<1>17. CASE ResolveFailed
  BY <1>17 DEF Running, ResolveFailed, ledger
<1>18. CASE Timeouts
  BY <1>18 DEF Running, Timeouts, ledger
<1>19. CASE StartSkip
  BY <1>19 DEF Running, StartSkip, ledger
<1>20. CASE StartFull
  BY <1>20 DEF Running, StartFull, ledger
<1>21. CASE Launch
  <2>1. CASE Registered(cur)
    BY <1>21, <2>1 DEF Launch, Running, pass
  <2>2. CASE ~Registered(cur)
    <3>1. Running' \subseteq Running
      BY <1>21, <2>2, UpdateStartsNone DEF Launch
    <3>. QED
      BY <1>21, <3>1 DEF Launch, pass
  <2>. QED
    BY <2>1, <2>2
<1>22. CASE StartDone
  BY <1>22 DEF Running, StartDone, ledger
<1>23. CASE Sweep
  BY <1>23 DEF Running, Sweep, pass
<1>24. CASE Recovered
  BY <1>24 DEF Running, Recovered, ledger, pass
<1>25. CASE TickFault
  BY <1>25 DEF Running, TickFault, ledger
<1>26. CASE Crash
  BY <1>26 DEF Running, Crash, ledger
<1>27. CASE UNCHANGED vars
  BY <1>27 DEF Running, vars, ledger, pass
<1>. QED
  BY <1>1, <1>2, <1>3, <1>4, <1>5, <1>6, <1>7, <1>8, <1>9, <1>10, <1>11, <1>12, <1>13, <1>14, <1>15, <1>16, <1>17, <1>18, <1>19, <1>20, <1>21, <1>22, <1>23, <1>24, <1>25, <1>26, <1>27 DEF Next, Dispatch, Request, Off

(* What StartRow does: nothing to the ledger, or one queued row, clashing    *)
(* with no taken key, becomes running.                                       *)
LEMMA StartRowEffect ==
    ASSUME Typed, StartRow
    PROVE  \/ Running' = Running /\ pc' = "start" /\ UNCHANGED <<held, count, cur>>
           \/ /\ cur' \in Job \ Running /\ Running' = Running \cup {cur'}
              /\ KeysOf[cur'] \cap held = {} /\ held' = held \cup KeysOf[cur']
              /\ count < Workers /\ count' = count + 1 /\ pc' = "launch"
<1>1. Head(todo) \in Job
  BY DEF Typed, TypeOK, StartRow
<1>2. CASE row[Head(todo)] = "queued"
  BY <1>1, <1>2, WorkersAssumption
     DEF Typed, TypeOK, StartRow, Update, Running, Clash, Full
<1>3. CASE row[Head(todo)] # "queued"
  BY <1>1, <1>3 DEF Typed, TypeOK, StartRow, Update, Running
<1>. QED
  BY <1>2, <1>3

(* No step makes two rows with a common exclusive key running, and the keys  *)
(* _start_due counts as taken cover those of the running rows.               *)
LEMMA KeyStep ==
    ASSUME Typed, KeyInv, [Next]_vars
    PROVE  KeyInv'
<1>. USE KeysAssumption DEF KeyInv, RunningExclusive
<1>1. CASE StartDue
  BY <1>1 DEF StartDue, Running, ledger
<1>2. CASE StartRow
  BY <1>2, StartRowEffect DEF StartRow
<1>3. CASE After
  BY <1>3 DEF After, Running, ledger, Typed, Busy
<1>4. CASE ~StartDue /\ ~StartRow /\ ~After
  BY <1>4, WalkFrame
<1>. QED
  BY <1>1, <1>2, <1>3, <1>4

(* The running rows can be counted.                                          *)
LEMMA RunningFinite == IsFiniteSet(Running) /\ Cardinality(Running) \in Nat
<1>1. IsFiniteSet(Running)
  BY JobAssumption, FS_Subset DEF Running
<1>. QED
  BY <1>1, FS_CardinalityType

(* No step starts more rows than the cap, and _start_due's own count is at   *)
(* least the number of running rows while it walks.                          *)
LEMMA CapStep ==
    ASSUME Typed, CapInv, [Next]_vars
    PROVE  CapInv'
<1>. USE WorkersAssumption DEF CapInv, WorkerCap
<1>1. CASE StartDue
  <2>. DEFINE live == Running \cup {j \in Job : worker[j] # "none" /\ row[j] # "swept"}
  <2>1. IsFiniteSet(live)
    BY JobAssumption, FS_Subset DEF Running
  <2>2. Cardinality(Running) <= Cardinality(live)
    BY <2>1, FS_Subset
  <2>3. Running' = Running /\ count' = Cardinality(live) /\ pc' = "start"
    BY <1>1 DEF StartDue, Running, ledger
  <2>. QED
    BY <2>2, <2>3
<1>2. CASE StartRow
  <2>1. CASE Running' = Running /\ pc' = "start" /\ UNCHANGED <<held, count, cur>>
    BY <1>2, <2>1 DEF StartRow
  <2>2. CASE /\ cur' \in Job \ Running /\ Running' = Running \cup {cur'}
             /\ count < Workers /\ count' = count + 1 /\ pc' = "launch"
    <3>1. Cardinality(Running') = Cardinality(Running) + 1
      BY <2>2, RunningFinite, FS_AddElement
    <3>2. Running' \ {cur'} = Running
      BY <2>2
    <3>3. Cardinality(Running) <= count
      BY <1>2 DEF StartRow
    <3>4. count \in Nat /\ Cardinality(Running) \in Nat
      BY RunningFinite DEF Typed, TypeOK
    <3>5. Cardinality(Running') <= Workers /\ Cardinality(Running') <= count'
      BY <2>2, <3>1, <3>3, <3>4
    <3>6. Cardinality(Running' \ {cur'}) < count'
      <4>1. Cardinality(Running' \ {cur'}) = Cardinality(Running)
        BY <3>2
      <4>2. count' = count + 1
        BY <2>2
      <4>. HIDE DEF CapInv
      <4>. QED
        BY <4>1, <4>2, <3>3, <3>4
    <3>. QED
      BY <3>5, <3>6
  <2>. QED
    BY <1>2, <2>1, <2>2, StartRowEffect
<1>3. CASE After
  <2>1. Running' = Running /\ pc' = "start"
    BY <1>3 DEF After, Running, ledger
  <2>2. CASE row[cur] = "running"
    BY <1>3, <2>1, <2>2 DEF After
  <2>3. CASE row[cur] # "running"
    <3>1. Running \ {cur} = Running
      BY <2>3 DEF Running
    <3>2. Cardinality(Running) < count
      BY <1>3, <3>1, Zenon DEF After
    <3>3. count \in Nat /\ Cardinality(Running) \in Nat /\ count' = count - 1
      BY <1>3, <2>3, RunningFinite DEF After, Typed, TypeOK
    <3>4. Cardinality(Running') <= count'
      BY <2>1, <3>2, <3>3
    <3>5. Cardinality(Running') <= Workers
      BY <2>1
    <3>. QED
      BY <2>1, <3>4, <3>5
  <2>. QED
    BY <2>2, <2>3
<1>4. CASE ~StartDue /\ ~StartRow /\ ~After
  <2>1. Running' \subseteq Running
    BY <1>4, WalkFrame
  <2>2. Cardinality(Running') <= Cardinality(Running) /\ Cardinality(Running') \in Nat
    BY <2>1, RunningFinite, FS_Subset, FS_CardinalityType
  <2>3. Cardinality(Running') <= Workers
    BY <2>2, RunningFinite
  <2>4. ASSUME pc' \in {"start", "launch", "after"}
        PROVE  Cardinality(Running') <= count'
    BY <1>4, <2>2, <2>4, WalkFrame, RunningFinite DEF Typed, TypeOK
  <2>5. ASSUME pc' \in {"launch", "after"}
        PROVE  Cardinality(Running' \ {cur'}) < count'
    <3>1. cur' = cur /\ count' = count /\ pc \in {"launch", "after"}
      BY <1>4, <2>5, WalkFrame
    <3>2. Running' \ {cur} \subseteq Running \ {cur} /\ IsFiniteSet(Running \ {cur})
      BY <2>1, RunningFinite, FS_Subset
    <3>3. /\ Cardinality(Running' \ {cur}) <= Cardinality(Running \ {cur})
          /\ Cardinality(Running' \ {cur}) \in Nat /\ Cardinality(Running \ {cur}) \in Nat
      BY <3>2, FS_Subset, FS_CardinalityType
    <3>. QED
      BY <3>1, <3>3 DEF Typed, TypeOK
  <2>. QED
    BY <2>3, <2>4, <2>5
<1>. QED
  BY <1>1, <1>2, <1>3, <1>4

(* The typing facts the invariants of rows, workers and hooks rest on.       *)
LEMMA TypeFacts ==
    ASSUME Typed
    PROVE  /\ row \in [Job -> Status] /\ worker \in [Job -> {"none", "alive", "dead"}]
           /\ cpc \in [Job -> {"none", "signal", "finish"}] /\ finishes \in [Job -> Nat]
           /\ reaped \subseteq Job /\ late \subseteq Job /\ alerted \subseteq Job
           /\ pc \in Busy => cur \in Job
           /\ todo # <<>> => Head(todo) \in Job
BY DEF Typed, TypeOK

(* Every step keeps rows, events and worker threads consistent.              *)
LEMMA WorkerStep ==
    ASSUME Typed, WorkerInv, [Next]_vars
    PROVE  WorkerInv'
<1>. USE TypeFacts DEF Busy, WorkerInv, OneWorkerPerRow, Live, Ended
<1>1. ASSUME NEW j \in Job, Submit(j)
      PROVE  WorkerInv'
  BY <1>1 DEF Submit, threads, pass
<1>2. ASSUME NEW j \in Job, Due(j)
      PROVE  WorkerInv'
  BY <1>2 DEF Due, threads, pass
<1>3. ASSUME NEW j \in Job, Overrun(j)
      PROVE  WorkerInv'
  BY <1>3 DEF Overrun, threads, pass
<1>4. ASSUME NEW j \in Job, Ack(j)
      PROVE  WorkerInv'
  BY <1>4 DEF Ack, threads, pass
<1>5. ASSUME NEW j \in Job, CancelMark(j)
      PROVE  WorkerInv'
  BY <1>5 DEF CancelMark, Update, threads, pass
<1>6. ASSUME NEW j \in Job, CancelSignal(j)
      PROVE  WorkerInv'
  BY <1>6 DEF CancelSignal, ledger, pass
<1>7. ASSUME NEW j \in Job, CancelFinish(j)
      PROVE  WorkerInv'
  BY <1>7 DEF CancelFinish, ledger, threads, pass
<1>8. ASSUME NEW j \in Job, CancelFault(j)
      PROVE  WorkerInv'
  BY <1>8 DEF CancelFault, ledger, threads, pass
<1>9. ASSUME NEW j \in Job, WorkerExit(j)
      PROVE  WorkerInv'
  BY <1>9 DEF WorkerExit, ledger, pass
<1>10. ASSUME NEW j \in Job, ApplyRead(j)
      PROVE  WorkerInv'
  BY <1>10 DEF ApplyRead, ledger
<1>11. ASSUME NEW j \in Job, TimeOut(j)
      PROVE  WorkerInv'
  BY <1>11 DEF TimeOut, ledger
<1>12. ASSUME NEW j \in Job, Recover(j)
      PROVE  WorkerInv'
  BY <1>12 DEF Recover, threads, pass
<1>13. CASE Tick
  BY <1>13 DEF Tick, Popped, ledger
<1>14. CASE ApplyWrite
  BY <1>14 DEF ApplyWrite, Update, NextStatus
<1>15. CASE ApplyDone
  BY <1>15 DEF ApplyDone, ledger, threads
<1>16. CASE ResolveWrite
  BY <1>16 DEF ResolveWrite, Update
<1>17. CASE ResolveFailed
  BY <1>17 DEF ResolveFailed, ledger
<1>18. CASE Timeouts
  BY <1>18 DEF Timeouts, ledger, threads
<1>19. CASE StartDue
  BY <1>19 DEF StartDue, ledger, threads
<1>20. CASE StartSkip
  BY <1>20 DEF StartSkip, ledger, threads
<1>21. CASE StartFull
  BY <1>21 DEF StartFull, ledger, threads
<1>22. CASE StartRow
  BY <1>22 DEF StartRow, Update, threads
<1>23. CASE Launch
  BY <1>23 DEF Launch, Update, Registered, pass
<1>24. CASE After
  BY <1>24 DEF After, ledger, threads
<1>25. CASE StartDone
  BY <1>25 DEF StartDone, ClearPass, ledger, threads
<1>26. CASE Sweep
  BY <1>26 DEF Sweep, threads, pass
<1>27. CASE Recovered
  BY <1>27 DEF Recovered, ledger, threads, pass
<1>28. CASE TickFault
  BY <1>28 DEF TickFault, ClearPass, ledger
<1>29. CASE Crash
  BY <1>29 DEF Crash, ClearPass, ledger
<1>30. CASE UNCHANGED vars
  BY <1>30 DEF vars, ledger, threads, pass
<1>. QED
  BY <1>1, <1>2, <1>3, <1>4, <1>5, <1>6, <1>7, <1>8, <1>9, <1>10, <1>11, <1>12, <1>13, <1>14, <1>15, <1>16, <1>17, <1>18, <1>19, <1>20, <1>21, <1>22, <1>23, <1>24, <1>25, <1>26, <1>27, <1>28, <1>29, <1>30, Zenon DEF Next, Dispatch, Request, Off

(* Every step keeps the hooks' record consistent with the ledger.            *)
LEMMA HookStep ==
    ASSUME Typed, HookInv, [Next]_vars
    PROVE  HookInv'
<1>. USE TypeFacts DEF Busy, HookInv, HooksInOrder, Live, Ended
<1>1. ASSUME NEW j \in Job, Submit(j)
      PROVE  HookInv'
  BY <1>1 DEF Submit, pass, log
<1>2. ASSUME NEW j \in Job, Due(j)
      PROVE  HookInv'
  BY <1>2 DEF Due, pass, log
<1>3. ASSUME NEW j \in Job, Overrun(j)
      PROVE  HookInv'
  BY <1>3 DEF Overrun, pass, log
<1>4. ASSUME NEW j \in Job, Ack(j)
      PROVE  HookInv'
  BY <1>4 DEF Ack, pass, log
<1>5. ASSUME NEW j \in Job, CancelMark(j)
      PROVE  HookInv'
  BY <1>5 DEF CancelMark, Update, pass, log
<1>6. ASSUME NEW j \in Job, CancelSignal(j)
      PROVE  HookInv'
  BY <1>6 DEF CancelSignal, ledger, pass, log
<1>7. ASSUME NEW j \in Job, CancelFinish(j)
      PROVE  HookInv'
  BY <1>7, Zenon DEF CancelFinish, OnFinish, ledger, pass
<1>8. ASSUME NEW j \in Job, CancelFault(j)
      PROVE  HookInv'
  BY <1>8 DEF CancelFault, ledger, pass, log
<1>9. ASSUME NEW j \in Job, WorkerExit(j)
      PROVE  HookInv'
  BY <1>9 DEF WorkerExit, ledger, pass, log
<1>10. ASSUME NEW j \in Job, ApplyRead(j)
      PROVE  HookInv'
  BY <1>10 DEF ApplyRead, ledger, log
<1>11. ASSUME NEW j \in Job, TimeOut(j)
      PROVE  HookInv'
  BY <1>11 DEF TimeOut, ledger, log
<1>12. ASSUME NEW j \in Job, Recover(j)
      PROVE  HookInv'
  <2>1. CASE Registered(j) /\ j \in Requeued
    <3>1. row' = [row EXCEPT ![j] = "queued"] /\ UNCHANGED <<alerted, finishes>>
      BY <1>12, <2>1 DEF Recover
    <3>2. row[j] = "running" /\ pc = "boot" /\ pc' = "boot" /\ cpc' = cpc
      BY <1>12 DEF Recover
    <3>. QED
      BY <3>1, <3>2
  <2>2. CASE ~(Registered(j) /\ j \in Requeued)
    <3>1. row' = [row EXCEPT ![j] = "failed"] /\ alerted' = alerted \cup {j} /\ OnFinish(j)
      BY <1>12, <2>2 DEF Recover
    <3>2. /\ finishes[j] = 0 /\ finishes'[j] \in {0, 1}
          /\ \A k \in Job : k # j => finishes'[k] = finishes[k]
      <4>1. row[j] = "running"
        BY <1>12 DEF Recover
      <4>2. finishes[j] = 0
        <5>1. finishes[j] > 0 => row[j] \in Ended \cup {"swept"}
          OBVIOUS
        <5>2. finishes[j] \in Nat /\ row[j] \notin Ended \cup {"swept"}
          BY <4>1
        <5>. QED
          BY <5>1, <5>2
      <4>3. finishes' = [finishes EXCEPT ![j] = @ + 1] \/ finishes' = finishes
        BY <3>1 DEF OnFinish
      <4>. QED
        BY <4>2, <4>3
    <3>3. row[j] = "running" /\ pc = "boot" /\ pc' = "boot" /\ cpc' = cpc
      BY <1>12 DEF Recover
    <3>. QED
      BY <3>1, <3>2, <3>3
  <2>. QED
    BY <2>1, <2>2
<1>13. CASE Tick
  BY <1>13 DEF Tick, ledger, log
<1>14. CASE ApplyWrite
  BY <1>14 DEF ApplyWrite, Update, NextStatus, HookDue, log
<1>15. CASE ApplyDone
  BY <1>15 DEF ApplyDone, OnFinish, ledger
<1>16. CASE ResolveWrite
  BY <1>16 DEF ResolveWrite, FailedIt, Update, log
<1>17. CASE ResolveFailed
  BY <1>17 DEF ResolveFailed, OnFinish, ledger
<1>18. CASE Timeouts
  BY <1>18 DEF Timeouts, ledger, log
<1>19. CASE StartDue
  BY <1>19, Zenon DEF StartDue, ledger, log
<1>20. CASE StartSkip
  BY <1>20 DEF StartSkip, ledger, log
<1>21. CASE StartFull
  BY <1>21 DEF StartFull, ledger, log
<1>22. CASE StartRow
  <2>1. Head(todo) \in Job
    BY <1>22 DEF StartRow
  <2>2. pc = "start" /\ pc' \in {"start", "launch"} /\ UNCHANGED <<cpc, alerted, finishes>>
    BY <1>22 DEF StartRow, log
  <2>3. \A k \in Job : row'[k] # row[k] => row[k] = "queued" /\ row'[k] = "running"
    BY <1>22, <2>1 DEF StartRow, Update
  <2>. QED
    BY <2>2, <2>3, Zenon
<1>23. CASE Launch
  <2>1. CASE Registered(cur)
    BY <1>23, <2>1 DEF Launch, pass
  <2>2. CASE ~Registered(cur)
    <3>1. /\ Update(cur, {"running"}, "failed")
          /\ alerted' = IF row[cur] = "running" THEN alerted \cup {cur} ELSE alerted
      BY <1>23, <2>2 DEF Launch
    <3>. QED
      BY <1>23, <3>1 DEF Launch, Update, pass
  <2>. QED
    BY <2>1, <2>2
<1>24. CASE After
  BY <1>24 DEF After, ledger, log
<1>25. CASE StartDone
  BY <1>25 DEF StartDone, ClearPass, ledger, log
<1>26. CASE Sweep
  BY <1>26 DEF Sweep, pass, log
<1>27. CASE Recovered
  BY <1>27 DEF Recovered, ledger, pass, log
<1>28. CASE TickFault
  BY <1>28 DEF TickFault, ClearPass, ledger, log
<1>29. CASE Crash
  BY <1>29 DEF Crash, ClearPass, ledger, log
<1>30. CASE UNCHANGED vars
  BY <1>30 DEF vars, ledger, pass, log
<1>. QED
  BY <1>1, <1>2, <1>3, <1>4, <1>5, <1>6, <1>7, <1>8, <1>9, <1>10, <1>11, <1>12, <1>13, <1>14, <1>15, <1>16, <1>17, <1>18, <1>19, <1>20, <1>21, <1>22, <1>23, <1>24, <1>25, <1>26, <1>27, <1>28, <1>29, <1>30, Zenon DEF Next, Dispatch, Request, Off

-----------------------------------------------------------------------------
(* The restarts and failed operations are counted.                           *)
LEMMA BoundFacts ==
    ASSUME Typed
    PROVE  crashes \in Nat /\ faults \in Nat
BY DEF Typed, TypeOK

(* Who holds a running row: at every point between two rows the dispatcher   *)
(* has none in hand, and a row it has just launched has its worker.          *)
OwnerInv ==
    /\ RunningHasOwner
    /\ pc \notin Busy => cur = NoJob
    /\ pc = "after" /\ row[cur] = "running" => worker[cur] # "none"

(* Who owes the on_finish call of an ended row; recovery runs after a        *)
(* restart only.                                                             *)
FinishInv ==
    /\ FinishOwed
    /\ pc = "boot" => crashes > 0

(* Every step leaves each running row in somebody's hands.                   *)
LEMMA OwnerStep ==
    ASSUME Typed, WorkerInv, HookInv, OwnerInv, [Next]_vars
    PROVE  OwnerInv'
<1>. USE TypeFacts, BoundFacts, NoJobAssumption DEF Busy, OwnerInv, RunningHasOwner, Running, Live, Ended
<1>1. ASSUME NEW j \in Job, Submit(j)
      PROVE  OwnerInv'
  BY <1>1 DEF Submit, ledger, threads, pass, log, bounds
<1>2. ASSUME NEW j \in Job, Due(j)
      PROVE  OwnerInv'
  BY <1>2 DEF Due, ledger, threads, pass, log, bounds
<1>3. ASSUME NEW j \in Job, Overrun(j)
      PROVE  OwnerInv'
  BY <1>3 DEF Overrun, ledger, threads, pass, log, bounds
<1>4. ASSUME NEW j \in Job, Ack(j)
      PROVE  OwnerInv'
  BY <1>4 DEF Ack, ledger, threads, pass, log, bounds
<1>5. ASSUME NEW j \in Job, CancelMark(j)
      PROVE  OwnerInv'
  BY <1>5 DEF CancelMark, Update, ledger, threads, pass, log, bounds
<1>6. ASSUME NEW j \in Job, CancelSignal(j)
      PROVE  OwnerInv'
  BY <1>6 DEF CancelSignal, ledger, threads, pass, log, bounds
<1>7. ASSUME NEW j \in Job, CancelFinish(j)
      PROVE  OwnerInv'
  BY <1>7 DEF CancelFinish, OnFinish, Registered, ledger, threads, pass, log, bounds
<1>8. ASSUME NEW j \in Job, CancelFault(j)
      PROVE  OwnerInv'
  BY <1>8 DEF CancelFault, ledger, threads, pass, log, bounds
<1>9. ASSUME NEW j \in Job, WorkerExit(j)
      PROVE  OwnerInv'
  BY <1>9 DEF WorkerExit, ledger, threads, pass, log, bounds
<1>10. ASSUME NEW j \in Job, ApplyRead(j)
      PROVE  OwnerInv'
  BY <1>10 DEF ApplyRead, ledger, threads, pass, log, bounds
<1>11. ASSUME NEW j \in Job, TimeOut(j)
      PROVE  OwnerInv'
  BY <1>11 DEF TimeOut, ledger, threads, pass, log, bounds
<1>12. ASSUME NEW j \in Job, Recover(j)
      PROVE  OwnerInv'
  BY <1>12 DEF Recover, ledger, threads, pass, log, bounds
<1>13. CASE Tick
  BY <1>13 DEF Tick, WorkerInv, Popped, ledger, threads, pass, log, bounds
<1>14. CASE ApplyWrite
  BY <1>14 DEF ApplyWrite, Update, NextStatus, HookDue, ledger, threads, pass, log, bounds
<1>15. CASE ApplyDone
  BY <1>15 DEF ApplyDone, HookInv, ledger, threads, pass, log, bounds
<1>16. CASE ResolveWrite
  BY <1>16 DEF ResolveWrite, FailedIt, Update, ledger, threads, pass, log, bounds
<1>17. CASE ResolveFailed
  BY <1>17 DEF ResolveFailed, HookInv, ledger, threads, pass, log, bounds
<1>18. CASE Timeouts
  BY <1>18 DEF Timeouts, WorkerInv, ledger, threads, pass, log, bounds
<1>19. CASE StartDue
  BY <1>19 DEF StartDue, ledger, threads, pass, log, bounds
<1>20. CASE StartSkip
  BY <1>20 DEF StartSkip, ledger, threads, pass, log, bounds
<1>21. CASE StartFull
  BY <1>21 DEF StartFull, ledger, threads, pass, log, bounds
<1>22. CASE StartRow
  BY <1>22 DEF StartRow, Update, ledger, threads, pass, log, bounds
<1>23. CASE Launch
  BY <1>23 DEF Launch, Update, ledger, threads, pass, log, bounds
<1>24. CASE After
  BY <1>24 DEF After, ledger, threads, pass, log, bounds
<1>25. CASE StartDone
  BY <1>25 DEF StartDone, WorkerInv, ClearPass, ledger, threads, pass, log, bounds
<1>26. CASE Sweep
  BY <1>26 DEF Sweep, ledger, threads, pass, log, bounds
<1>27. CASE Recovered
  BY <1>27 DEF Recovered, ledger, threads, pass, log, bounds
<1>28. CASE TickFault
  BY <1>28 DEF TickFault, ClearPass, ledger, threads, pass, log, bounds
<1>29. CASE Crash
  BY <1>29 DEF Crash, ClearPass, ledger, threads, pass, log, bounds
<1>30. CASE UNCHANGED vars
  BY <1>30 DEF vars, ledger, threads, pass, log, bounds
<1>. QED
  BY <1>1, <1>2, <1>3, <1>4, <1>5, <1>6, <1>7, <1>8, <1>9, <1>10, <1>11, <1>12, <1>13, <1>14, <1>15, <1>16, <1>17, <1>18, <1>19, <1>20, <1>21, <1>22, <1>23, <1>24, <1>25, <1>26, <1>27, <1>28, <1>29, <1>30, Zenon DEF Next, Dispatch, Request, Off

(* Every step leaves the on_finish call of an ended row made or owed.        *)
LEMMA FinishStep ==
    ASSUME Typed, HookInv, FinishInv, [Next]_vars
    PROVE  FinishInv'
<1>. USE TypeFacts, BoundFacts DEF Busy, FinishInv, FinishOwed, Live, Ended
<1>1. ASSUME NEW j \in Job, Submit(j)
      PROVE  FinishInv'
  BY <1>1 DEF Submit, ledger, threads, pass, log, bounds
<1>2. ASSUME NEW j \in Job, Due(j)
      PROVE  FinishInv'
  BY <1>2 DEF Due, ledger, threads, pass, log, bounds
<1>3. ASSUME NEW j \in Job, Overrun(j)
      PROVE  FinishInv'
  BY <1>3 DEF Overrun, ledger, threads, pass, log, bounds
<1>4. ASSUME NEW j \in Job, Ack(j)
      PROVE  FinishInv'
  BY <1>4 DEF Ack, ledger, threads, pass, log, bounds
<1>5. ASSUME NEW j \in Job, CancelMark(j)
      PROVE  FinishInv'
  BY <1>5 DEF CancelMark, Update, ledger, threads, pass, log, bounds
<1>6. ASSUME NEW j \in Job, CancelSignal(j)
      PROVE  FinishInv'
  BY <1>6 DEF CancelSignal, ledger, threads, pass, log, bounds
<1>7. ASSUME NEW j \in Job, CancelFinish(j)
      PROVE  FinishInv'
  BY <1>7 DEF CancelFinish, OnFinish, Registered, ledger, threads, pass, log, bounds
<1>8. ASSUME NEW j \in Job, CancelFault(j)
      PROVE  FinishInv'
  BY <1>8 DEF CancelFault, ledger, threads, pass, log, bounds
<1>9. ASSUME NEW j \in Job, WorkerExit(j)
      PROVE  FinishInv'
  BY <1>9 DEF WorkerExit, ledger, threads, pass, log, bounds
<1>10. ASSUME NEW j \in Job, ApplyRead(j)
      PROVE  FinishInv'
  BY <1>10 DEF ApplyRead, ledger, threads, pass, log, bounds
<1>11. ASSUME NEW j \in Job, TimeOut(j)
      PROVE  FinishInv'
  BY <1>11 DEF TimeOut, ledger, threads, pass, log, bounds
<1>12. ASSUME NEW j \in Job, Recover(j)
      PROVE  FinishInv'
  BY <1>12 DEF Recover, ledger, threads, pass, log, bounds
<1>13. CASE Tick
  BY <1>13 DEF Tick, Popped, ledger, threads, pass, log, bounds
<1>14. CASE ApplyWrite
  BY <1>14 DEF ApplyWrite, Update, NextStatus, HookDue, ledger, threads, pass, log, bounds
<1>15. CASE ApplyDone
  BY <1>15 DEF ApplyDone, OnFinish, Registered, ledger, threads, pass, log, bounds
<1>16. CASE ResolveWrite
  BY <1>16 DEF ResolveWrite, FailedIt, Update, ledger, threads, pass, log, bounds
<1>17. CASE ResolveFailed
  BY <1>17 DEF ResolveFailed, OnFinish, Registered, ledger, threads, pass, log, bounds
<1>18. CASE Timeouts
  BY <1>18 DEF Timeouts, ledger, threads, pass, log, bounds
<1>19. CASE StartDue
  BY <1>19 DEF StartDue, ledger, threads, pass, log, bounds
<1>20. CASE StartSkip
  BY <1>20 DEF StartSkip, ledger, threads, pass, log, bounds
<1>21. CASE StartFull
  BY <1>21 DEF StartFull, ledger, threads, pass, log, bounds
<1>22. CASE StartRow
  BY <1>22 DEF StartRow, Update, ledger, threads, pass, log, bounds
<1>23. CASE Launch
  BY <1>23 DEF Launch, Update, Registered, ledger, threads, pass, log, bounds
<1>24. CASE After
  BY <1>24 DEF After, ledger, threads, pass, log, bounds
<1>25. CASE StartDone
  BY <1>25 DEF StartDone, ClearPass, ledger, threads, pass, log, bounds
<1>26. CASE Sweep
  BY <1>26 DEF Sweep, ledger, threads, pass, log, bounds
<1>27. CASE Recovered
  BY <1>27 DEF Recovered, ledger, threads, pass, log, bounds
<1>28. CASE TickFault
  BY <1>28 DEF TickFault, ClearPass, ledger, threads, pass, log, bounds
<1>29. CASE Crash
  BY <1>29 DEF Crash, ClearPass, ledger, threads, pass, log, bounds
<1>30. CASE UNCHANGED vars
  BY <1>30 DEF vars, ledger, threads, pass, log, bounds
<1>. QED
  BY <1>1, <1>2, <1>3, <1>4, <1>5, <1>6, <1>7, <1>8, <1>9, <1>10, <1>11, <1>12, <1>13, <1>14, <1>15, <1>16, <1>17, <1>18, <1>19, <1>20, <1>21, <1>22, <1>23, <1>24, <1>25, <1>26, <1>27, <1>28, <1>29, <1>30, Zenon DEF Next, Dispatch, Request, Off

(* An ended row keeps its status until it is swept.                          *)
LEMMA EndedStep ==
    ASSUME Typed, [Next]_vars
    PROVE  \A k \in Job : row[k] \in Ended => row'[k] \in {row[k], "swept"}
<1>. USE TypeFacts DEF Busy, Live, Ended
<1>1. ASSUME NEW j \in Job, Submit(j)
      PROVE  \A k \in Job : row[k] \in Ended => row'[k] \in {row[k], "swept"}
  BY <1>1 DEF Submit, pass, log
<1>2. ASSUME NEW j \in Job, Due(j)
      PROVE  \A k \in Job : row[k] \in Ended => row'[k] \in {row[k], "swept"}
  BY <1>2 DEF Due, pass, log
<1>3. ASSUME NEW j \in Job, Overrun(j)
      PROVE  \A k \in Job : row[k] \in Ended => row'[k] \in {row[k], "swept"}
  BY <1>3 DEF Overrun, pass, log
<1>4. ASSUME NEW j \in Job, Ack(j)
      PROVE  \A k \in Job : row[k] \in Ended => row'[k] \in {row[k], "swept"}
  BY <1>4 DEF Ack, pass, log
<1>5. ASSUME NEW j \in Job, CancelMark(j)
      PROVE  \A k \in Job : row[k] \in Ended => row'[k] \in {row[k], "swept"}
  BY <1>5 DEF CancelMark, Update, pass, log
<1>6. ASSUME NEW j \in Job, CancelSignal(j)
      PROVE  \A k \in Job : row[k] \in Ended => row'[k] \in {row[k], "swept"}
  BY <1>6 DEF CancelSignal, ledger, pass, log
<1>7. ASSUME NEW j \in Job, CancelFinish(j)
      PROVE  \A k \in Job : row[k] \in Ended => row'[k] \in {row[k], "swept"}
  BY <1>7 DEF CancelFinish, OnFinish, ledger, pass
<1>8. ASSUME NEW j \in Job, CancelFault(j)
      PROVE  \A k \in Job : row[k] \in Ended => row'[k] \in {row[k], "swept"}
  BY <1>8 DEF CancelFault, ledger, pass, log
<1>9. ASSUME NEW j \in Job, WorkerExit(j)
      PROVE  \A k \in Job : row[k] \in Ended => row'[k] \in {row[k], "swept"}
  BY <1>9 DEF WorkerExit, ledger, pass, log
<1>10. ASSUME NEW j \in Job, ApplyRead(j)
      PROVE  \A k \in Job : row[k] \in Ended => row'[k] \in {row[k], "swept"}
  BY <1>10 DEF ApplyRead, ledger, log
<1>11. ASSUME NEW j \in Job, TimeOut(j)
      PROVE  \A k \in Job : row[k] \in Ended => row'[k] \in {row[k], "swept"}
  BY <1>11 DEF TimeOut, ledger, log
<1>12. ASSUME NEW j \in Job, Recover(j)
      PROVE  \A k \in Job : row[k] \in Ended => row'[k] \in {row[k], "swept"}
  BY <1>12 DEF Recover, OnFinish, Registered, pass
<1>13. CASE Tick
  BY <1>13 DEF Tick, ledger, log
<1>14. CASE ApplyWrite
  BY <1>14 DEF ApplyWrite, Update, NextStatus, HookDue, log
<1>15. CASE ApplyDone
  BY <1>15 DEF ApplyDone, OnFinish, ledger
<1>16. CASE ResolveWrite
  BY <1>16 DEF ResolveWrite, FailedIt, Update, log
<1>17. CASE ResolveFailed
  BY <1>17 DEF ResolveFailed, OnFinish, ledger
<1>18. CASE Timeouts
  BY <1>18 DEF Timeouts, ledger, log
<1>19. CASE StartDue
  BY <1>19 DEF StartDue, ledger, log
<1>20. CASE StartSkip
  BY <1>20 DEF StartSkip, ledger, log
<1>21. CASE StartFull
  BY <1>21 DEF StartFull, ledger, log
<1>22. CASE StartRow
  BY <1>22 DEF StartRow, Update, log
<1>23. CASE Launch
  BY <1>23 DEF Launch, Update, Registered, pass, log
<1>24. CASE After
  BY <1>24 DEF After, ledger, log
<1>25. CASE StartDone
  BY <1>25 DEF StartDone, ClearPass, ledger, log
<1>26. CASE Sweep
  BY <1>26 DEF Sweep, pass, log
<1>27. CASE Recovered
  BY <1>27 DEF Recovered, ledger, pass, log
<1>28. CASE TickFault
  BY <1>28 DEF TickFault, ClearPass, ledger, log
<1>29. CASE Crash
  BY <1>29 DEF Crash, ClearPass, ledger, log
<1>30. CASE UNCHANGED vars
  BY <1>30 DEF vars, ledger, pass, log
<1>. QED
  BY <1>1, <1>2, <1>3, <1>4, <1>5, <1>6, <1>7, <1>8, <1>9, <1>10, <1>11, <1>12, <1>13, <1>14, <1>15, <1>16, <1>17, <1>18, <1>19, <1>20, <1>21, <1>22, <1>23, <1>24, <1>25, <1>26, <1>27, <1>28, <1>29, <1>30, Zenon DEF Next, Dispatch, Request, Off

-----------------------------------------------------------------------------
IndInv == Typed /\ KeyInv /\ CapInv /\ WorkerInv /\ HookInv /\ OwnerInv /\ FinishInv

(* The empty ledger of a new manager satisfies the invariant.                *)
LEMMA IndInvInit == Init => IndInv
<1>. SUFFICES ASSUME Init PROVE IndInv
  OBVIOUS
<1>1. Running = {}
  BY DEF Init, Running
<1>2. Cardinality(Running) = 0
  BY <1>1, FS_EmptySet
<1>3. Typed
  BY RunsAssumption DEF Init, Typed, TypeOK, Busy, Status, Live, Outcome
<1>4. KeyInv /\ CapInv
  BY <1>1, <1>2, WorkersAssumption DEF Init, KeyInv, RunningExclusive, CapInv, WorkerCap
<1>5. WorkerInv /\ HookInv
  BY DEF Init, WorkerInv, OneWorkerPerRow, HookInv, HooksInOrder, Ended
<1>6. OwnerInv /\ FinishInv
  BY <1>1 DEF Init, OwnerInv, RunningHasOwner, FinishInv, FinishOwed, Ended
<1>. QED
  BY <1>3, <1>4, <1>5, <1>6 DEF IndInv

(* Every step keeps the inductive invariant.                                 *)
LEMMA IndInvStep == IndInv /\ [Next]_vars => IndInv'
BY TypeStep, KeyStep, CapStep, WorkerStep, HookStep, OwnerStep, FinishStep DEF IndInv

(* The inductive invariant holds in every reachable state.                   *)
THEOREM Inductive == Spec => []IndInv
BY IndInvInit, IndInvStep, PTL DEF Spec

(* Every variable keeps its type; in particular `count` never falls below    *)
(* zero when _start_due gives a slot back.                                   *)
THEOREM TypeCorrect == Spec => []TypeOK
<1>1. IndInv => TypeOK
  BY DEF IndInv, Typed
<1>. QED
  BY <1>1, Inductive, PTL

(* Mutual exclusion on the exclusive keys of _start_due, for any number of   *)
(* rows, keys, workers, restarts and failed ledger operations.               *)
THEOREM MutualExclusion == Spec => []RunningExclusive
<1>1. IndInv => RunningExclusive
  BY DEF IndInv, KeyInv
<1>. QED
  BY <1>1, Inductive, PTL

(* The worker cap of _start_due.                                             *)
THEOREM CapHolds == Spec => []WorkerCap
<1>1. IndInv => WorkerCap
  BY DEF IndInv, CapInv
<1>. QED
  BY <1>1, Inductive, PTL

(* No row is run by two workers.                                             *)
THEOREM SingleWorker == Spec => []OneWorkerPerRow
<1>1. IndInv => OneWorkerPerRow
  BY DEF IndInv, WorkerInv
<1>. QED
  BY <1>1, Inductive, PTL

(* _resolve_failed alerts for failed rows only, and on_finish runs for ended *)
(* rows only, at most once unless the run was cancelled.                     *)
THEOREM HooksFit == Spec => []HooksInOrder
<1>1. IndInv => HooksInOrder
  BY DEF IndInv, HookInv
<1>. QED
  BY <1>1, Inductive, PTL

(* No running row is forgotten: unless a ledger operation failed, a worker,  *)
(* the reaper, the dispatcher or boot recovery has it.                       *)
THEOREM OwnersKnown == Spec => []RunningHasOwner
<1>1. IndInv => RunningHasOwner
  BY DEF IndInv, OwnerInv
<1>. QED
  BY <1>1, Inductive, PTL

(* No on_finish call is forgotten: a row that ended without it is one whose  *)
(* cancel() or dispatcher step still has to make it, unless the manager was  *)
(* restarted or a ledger operation failed.                                   *)
THEOREM FinishesCome == Spec => []FinishOwed
<1>1. IndInv => FinishOwed
  BY DEF IndInv, FinishInv
<1>. QED
  BY <1>1, Inductive, PTL

(* No step of any thread changes the status of an ended row, but the sweep.  *)
THEOREM EndedStaysEnded == Spec => EndedIsFinal
<1>1. IndInv /\ [Next]_vars =>
        [\A j \in Job : row[j] \in Ended => row'[j] \in {row[j], "swept"}]_vars
  BY EndedStep DEF IndInv
<1>. QED
  BY <1>1, Inductive, PTL DEF Spec, EndedIsFinal
=============================================================================
