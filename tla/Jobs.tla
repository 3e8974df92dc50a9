-------------------------------- MODULE Jobs --------------------------------
(***************************************************************************)
(* The manager's job service (llm-systems-manager/backend/jobs.py): one    *)
(* ledger of rows in SQLite, one dispatcher thread that ticks once a       *)
(* second, one worker thread per started row, and the HTTP threads that    *)
(* submit, cancel and acknowledge.                                         *)
(*                                                                         *)
(* Every access to the ledger is one critical section of Store._lock, so   *)
(* a step of the model is at most one such section with the in-memory work *)
(* that follows it; the threads interleave between sections.  Clock values *)
(* are abstracted to what the code compares them for: `ready` holds the    *)
(* queued rows with next_run <= now in next_run order, `overrun` the       *)
(* running rows with now - started > max_run_s.                            *)
(***************************************************************************)
EXTENDS Naturals, Sequences, FiniteSets

CONSTANTS
    Job,         \* row ids (uuid4, never reused)
    NoJob,       \* no row
    Key,         \* exclusive keys, e.g. "perf:<agent>"
    KeysOf,      \* row -> the keys its kind claims (column `exclusive`)
    Workers,     \* cfg.workers, the cap on started rows
    RunsOf,      \* row -> runs_left of a periodic row, 0 for one without period_s
    Endless,     \* periodic rows with runs_left = NULL
    Requeued,    \* rows whose kind has resume = "requeue"
    Retired,     \* rows whose kind is not registered after a restart
    MaxCrashes,  \* bound: manager restarts
    MaxFaults    \* bound: ledger operations that raise (database locked, disk full)

ASSUME JobAssumption == IsFiniteSet(Job)
ASSUME NoJobAssumption == NoJob \notin Job
ASSUME KeysAssumption == KeysOf \in [Job -> SUBSET Key]
ASSUME WorkersAssumption == Workers \in Nat \ {0}
ASSUME RunsAssumption == RunsOf \in [Job -> Nat]
ASSUME KindsAssumption == {Endless, Requeued, Retired} \subseteq SUBSET Job
ASSUME BoundsAssumption == MaxCrashes \in Nat /\ MaxFaults \in Nat

VARIABLES
    row,       \* the ledger: row id -> status
    left,      \* column runs_left
    ready,     \* due rows in next_run order
    overrun,   \* running rows past their limit
    acked,     \* rows with acked_at set
    event,     \* Service._cancel: the row's threading.Event
    worker,    \* Service._workers and the state of the thread
    box,       \* the outcome a dead worker left
    pc,        \* where the dispatcher is
    reaped,    \* dead workers popped by _reap and not applied yet
    late,      \* rows _timeouts still has to end
    todo,      \* rows of the due list not visited yet
    cur,       \* the row the dispatcher is working on
    held,      \* exclusive keys _start_due counts as taken
    count,     \* started rows as _start_due counts them
    cpc,       \* where the cancel() call of the row is
    finishes,  \* on_finish calls made for the row
    alerted,   \* rows whose failure was pushed to the alarm engine
    crashes,
    faults

ledger == <<row, left, ready, overrun, acked>>
threads == <<event, worker, box>>
pass == <<reaped, late, todo, cur, held, count>>
log == <<finishes, alerted>>
bounds == <<crashes, faults>>
vars == <<ledger, threads, pc, pass, cpc, log, bounds>>

Live == {"queued", "running"}
Ended == {"done", "failed", "cancelled"}
Status == {"absent", "swept"} \cup Live \cup Ended

(* What a handler returns: ok, finish, again (or fail with retry_in), fail,  *)
(* and fail with alert=False; an exception or no outcome counts as fail.     *)
Outcome == {"ok", "finish", "again", "fail", "quiet"}

Registered(j) == crashes = 0 \/ j \notin Retired

Running == {j \in Job : row[j] = "running"}

TypeOK ==
    /\ row \in [Job -> Status]
    /\ left \in [Job -> Nat]
    /\ ready \in Seq(Job)
    /\ overrun \subseteq Job
    /\ acked \subseteq Job
    /\ event \in [Job -> {"none", "clear", "set"}]
    /\ worker \in [Job -> {"none", "alive", "dead"}]
    /\ box \in [Job -> Outcome \cup {"none"}]
    /\ pc \in {"boot", "off", "idle", "reap", "write", "done", "resolve", "failed",
               "timeouts", "expire", "expired", "start", "launch", "after", "sweep"}
    /\ reaped \subseteq Job
    /\ late \subseteq Job
    /\ todo \in Seq(Job)
    /\ cur \in Job \cup {NoJob}
    /\ held \subseteq Key
    /\ count \in Nat
    /\ cpc \in [Job -> {"none", "signal", "finish"}]
    /\ finishes \in [Job -> Nat]
    /\ alerted \subseteq Job
    /\ crashes \in Nat
    /\ faults \in Nat

Init ==
    /\ row = [j \in Job |-> "absent"]
    /\ left = RunsOf
    /\ ready = <<>>
    /\ overrun = {}
    /\ acked = {}
    /\ event = [j \in Job |-> "none"]
    /\ worker = [j \in Job |-> "none"]
    /\ box = [j \in Job |-> "none"]
    /\ pc = "idle"
    /\ reaped = {} /\ late = {} /\ todo = <<>> /\ cur = NoJob
    /\ held = {} /\ count = 0
    /\ cpc = [j \in Job |-> "none"]
    /\ finishes = [j \in Job |-> 0]
    /\ alerted = {}
    /\ crashes = 0 /\ faults = 0

-----------------------------------------------------------------------------
(* Ledger operations *)

Drop(s, j) ==
    LET At == {i \in DOMAIN s : s[i] = j}
        i == CHOOSE i \in At : TRUE
    IN  IF At = {} THEN s ELSE SubSeq(s, 1, i - 1) \o SubSeq(s, i + 1, Len(s))

(* Mutant: the UPDATE loses its `status IN (...)` clause.                    *)
UpdateUnguarded(j, froms, to) ==
    /\ row' = [row EXCEPT ![j] = to]
    /\ ready' = Drop(ready, j)
    /\ overrun' = overrun \ {j}

(* Store.update(j, only=froms, status=to, ...): the guarded UPDATE.  Leaving *)
(* "queued" takes the row out of the due list, leaving "running" clears      *)
(* `started`.                                                                *)
Update(j, froms, to) ==
    /\ row' = IF row[j] \in froms THEN [row EXCEPT ![j] = to] ELSE row
    /\ ready' = IF row[j] \in froms THEN Drop(ready, j) ELSE ready
    /\ overrun' = IF row[j] \in froms THEN overrun \ {j} ELSE overrun

(* submit(): a fresh queued row; not_before may lie in the past, so the row  *)
(* may enter the due order anywhere, or not be due yet.                      *)
Submit(j) ==
    /\ row[j] = "absent"
    /\ Registered(j)
    /\ row' = [row EXCEPT ![j] = "queued"]
    /\ \/ UNCHANGED ready
       \/ \E i \in 0..Len(ready) :
            ready' = SubSeq(ready, 1, i) \o <<j>> \o SubSeq(ready, i + 1, Len(ready))
    /\ UNCHANGED <<left, overrun, acked, threads, pc, pass, cpc, log, bounds>>

(* Time passes: next_run of a queued row is reached.                         *)
Due(j) ==
    /\ row[j] = "queued"
    /\ \A i \in DOMAIN ready : ready[i] # j
    /\ ready' = Append(ready, j)
    /\ UNCHANGED <<row, left, overrun, acked, threads, pc, pass, cpc, log, bounds>>

(* Time passes: a running row exceeds its kind's max_run_s.                  *)
Overrun(j) ==
    /\ row[j] = "running"
    /\ j \notin overrun
    /\ overrun' = overrun \cup {j}
    /\ UNCHANGED <<row, left, ready, acked, threads, pc, pass, cpc, log, bounds>>

Ack(j) ==
    /\ pc # "boot"
    /\ row[j] = "failed"
    /\ j \notin acked
    /\ acked' = acked \cup {j}
    /\ UNCHANGED <<row, left, ready, overrun, threads, pc, pass, cpc, log, bounds>>

-----------------------------------------------------------------------------
(* cancel(): the row is marked under the store lock; the event, the kind's   *)
(* on_cancel hook and on_finish follow outside it.                           *)

(* Mutant: cancel() does not return early for a row that has ended.         *)
CancelMarkAny(j) ==
    /\ pc # "boot"
    /\ row[j] \in Live \cup Ended
    /\ Update(j, Live, "cancelled")
    /\ cpc' = [cpc EXCEPT ![j] = IF row[j] = "running" THEN "signal" ELSE "finish"]
    /\ UNCHANGED <<left, acked, threads, pc, pass, log, bounds>>

CancelMark(j) ==
    /\ pc # "boot"
    /\ row[j] \in Live
    /\ Update(j, Live, "cancelled")
    /\ cpc' = [cpc EXCEPT ![j] = IF row[j] = "running" THEN "signal" ELSE "finish"]
    /\ UNCHANGED <<left, acked, threads, pc, pass, log, bounds>>

(* _signal(): sets the event if the row has one.                             *)
Signalled(j) ==
    [event EXCEPT ![j] = IF event[j] = "none" THEN "none" ELSE "set"]

CancelSignal(j) ==
    /\ cpc[j] = "signal"
    /\ event' = Signalled(j)
    /\ cpc' = [cpc EXCEPT ![j] = "finish"]
    /\ UNCHANGED <<ledger, worker, box, pc, pass, log, bounds>>

(* _hook(kind, "on_finish"): an unregistered kind has no hook.               *)
OnFinish(j) ==
    finishes' = IF Registered(j) THEN [finishes EXCEPT ![j] = @ + 1] ELSE finishes

CancelFinish(j) ==
    /\ cpc[j] = "finish"
    /\ OnFinish(j)
    /\ cpc' = [cpc EXCEPT ![j] = "none"]
    /\ UNCHANGED <<ledger, threads, pc, pass, alerted, bounds>>

-----------------------------------------------------------------------------
(* Worker threads: work() runs the handler and leaves its outcome.           *)

WorkerExit(j) ==
    /\ worker[j] = "alive"
    /\ worker' = [worker EXCEPT ![j] = "dead"]
    /\ \E o \in Outcome : box' = [box EXCEPT ![j] = o]
    /\ UNCHANGED <<ledger, event, pc, pass, cpc, log, bounds>>

-----------------------------------------------------------------------------
(* The dispatcher: tick() = _reap; _timeouts; _leases; _start_due; sweep.    *)
(* The lease column is written and cleared but never read, so _leases        *)
(* changes nothing the model keeps.                                          *)

(* The pass forgets its local variables: the end of a tick, an exception.    *)
ClearPass ==
    /\ reaped' = {} /\ late' = {} /\ todo' = <<>> /\ cur' = NoJob
    /\ held' = {} /\ count' = 0

(* Mutant: _reap() leaves the dead threads in _workers.                      *)
PoppedNone(dead) == worker

(* _reap(): pop every dead worker, then apply the outcomes one by one.       *)
Popped(dead) == [j \in Job |-> IF j \in dead THEN "none" ELSE worker[j]]

Tick ==
    /\ pc = "idle"
    /\ reaped' = {j \in Job : worker[j] = "dead"}
    /\ worker' = Popped({j \in Job : worker[j] = "dead"})
    /\ pc' = "reap"
    /\ UNCHANGED <<ledger, event, box, late, todo, cur, held, count, cpc, log, bounds>>

(* _apply(): reads the row; a row that is no longer running drops the        *)
(* outcome, a final failure goes to _resolve_failed, anything else to the    *)
(* guarded write below.                                                      *)
ApplyRead(j) ==
    /\ pc = "reap"
    /\ j \in reaped
    /\ reaped' = reaped \ {j}
    /\ IF row[j] # "running"
       THEN /\ pc' = "reap"
            /\ cur' = NoJob
            /\ event' = [event EXCEPT ![j] = "none"]
            /\ box' = [box EXCEPT ![j] = "none"]
       ELSE /\ cur' = j
            /\ IF box[j] \in {"fail", "quiet"}
               THEN /\ pc' = "resolve"
                    /\ event' = [event EXCEPT ![j] = "none"]
               ELSE /\ pc' = "write"
                    /\ UNCHANGED event
            /\ UNCHANGED box
    /\ UNCHANGED <<ledger, worker, late, todo, held, count, cpc, log, bounds>>

(* The status _apply writes: a periodic row with runs left is queued again.  *)
RunsAgain(j) == box[j] = "ok" /\ (j \in Endless \/ left[j] > 1)

NextStatus(j) == IF box[j] = "again" \/ RunsAgain(j) THEN "queued" ELSE "done"

(* Mutant: only an explicit finish() runs on_finish.                         *)
HookDueOnFinish(j) == box[j] = "finish"

HookDue(j) == NextStatus(j) = "done"

(* The guarded write of _apply.  Whether it took effect is not looked at.    *)
ApplyWrite ==
    /\ pc = "write"
    /\ Update(cur, {"running"}, NextStatus(cur))
    /\ left' = IF row[cur] = "running" /\ RunsAgain(cur) /\ cur \notin Endless
               THEN [left EXCEPT ![cur] = @ - 1] ELSE left
    /\ event' = [event EXCEPT ![cur] = "none"]
    /\ pc' = IF HookDue(cur) THEN "done" ELSE "reap"
    /\ box' = [box EXCEPT ![cur] = "none"]
    /\ cur' = IF HookDue(cur) THEN cur ELSE NoJob
    /\ UNCHANGED <<acked, worker, reaped, late, todo, held, count, cpc, log, bounds>>

ApplyDone ==
    /\ pc = "done"
    /\ OnFinish(cur)
    /\ pc' = "reap"
    /\ cur' = NoJob
    /\ UNCHANGED <<ledger, threads, reaped, late, todo, held, count, cpc, alerted, bounds>>

(* _resolve_failed(), from _apply ("resolve") or from _timeouts ("expire"):  *)
(* a guarded write, and only when it took effect the alert and on_finish.    *)
FailedIt(j) == row[j] = "running"

ResolveWrite ==
    /\ pc \in {"resolve", "expire"}
    /\ Update(cur, {"running"}, "failed")
    /\ IF FailedIt(cur)
       THEN /\ pc' = IF pc = "resolve" THEN "failed" ELSE "expired"
            /\ UNCHANGED <<cur, box>>
       ELSE /\ pc' = IF pc = "resolve" THEN "reap" ELSE "timeouts"
            /\ box' = IF pc = "resolve" THEN [box EXCEPT ![cur] = "none"] ELSE box
            /\ cur' = NoJob
    /\ UNCHANGED <<left, acked, event, worker, reaped, late, todo, held, count, cpc, log, bounds>>

ResolveFailed ==
    /\ pc \in {"failed", "expired"}
    /\ alerted' = IF pc = "failed" /\ box[cur] = "quiet" THEN alerted ELSE alerted \cup {cur}
    /\ OnFinish(cur)
    /\ pc' = IF pc = "failed" THEN "reap" ELSE "timeouts"
    /\ box' = IF pc = "failed" THEN [box EXCEPT ![cur] = "none"] ELSE box
    /\ cur' = NoJob
    /\ UNCHANGED <<ledger, event, worker, reaped, late, todo, held, count, cpc, bounds>>

(* Mutant: _timeouts() looks only at rows that have a worker.                *)
OverdueWorkers == {j \in Running \cap overrun : worker[j] # "none"}

(* _timeouts(): the overrun rows of one read of the running rows.            *)
Overdue == Running \cap overrun

Timeouts ==
    /\ pc = "reap"
    /\ reaped = {}
    /\ late' = Overdue
    /\ pc' = "timeouts"
    /\ UNCHANGED <<ledger, threads, reaped, todo, cur, held, count, cpc, log, bounds>>

(* Signal and on_cancel, from the row as _timeouts read it; then             *)
(* _resolve_failed.                                                          *)
TimeOut(j) ==
    /\ pc = "timeouts"
    /\ j \in late
    /\ late' = late \ {j}
    /\ event' = Signalled(j)
    /\ cur' = j
    /\ pc' = "expire"
    /\ UNCHANGED <<ledger, worker, box, reaped, todo, held, count, cpc, log, bounds>>

(* _start_due() begins: running rows and rows with a live worker count, and  *)
(* hold their keys; the due rows are read once.                              *)
StartDue ==
    /\ pc = "timeouts"
    /\ late = {}
    /\ LET live == Running \cup {j \in Job : worker[j] # "none" /\ row[j] # "swept"} IN
         /\ held' = UNION {KeysOf[j] : j \in live}
         /\ count' = Cardinality(live)
    /\ todo' = ready
    /\ pc' = "start"
    /\ UNCHANGED <<ledger, threads, reaped, late, cur, cpc, log, bounds>>

(* Mutants: a row waits only when all its keys are taken; the cap is off by   *)
(* one, upwards and downwards.                                               *)
ClashOnAll(j) == KeysOf[j] # {} /\ KeysOf[j] \subseteq held
FullBelow == count + 1 >= Workers

Clash(j) == KeysOf[j] \cap held # {}
Full == count >= Workers

(* One due row: a clash skips it, the worker cap ends the walk, a row that   *)
(* is no longer queued is passed over, any other is marked running.          *)
StartSkip ==
    /\ pc = "start"
    /\ todo # <<>>
    /\ Clash(Head(todo))
    /\ todo' = Tail(todo)
    /\ UNCHANGED <<ledger, threads, pc, reaped, late, cur, held, count, cpc, log, bounds>>

StartFull ==
    /\ pc = "start"
    /\ todo # <<>>
    /\ ~Clash(Head(todo))
    /\ Full
    /\ todo' = <<>>
    /\ UNCHANGED <<ledger, threads, pc, reaped, late, cur, held, count, cpc, log, bounds>>

StartRow ==
    /\ pc = "start"
    /\ todo # <<>>
    /\ ~Clash(Head(todo))
    /\ ~Full
    /\ todo' = Tail(todo)
    /\ Update(Head(todo), {"queued"}, "running")
    /\ IF row[Head(todo)] = "queued"
       THEN /\ held' = held \cup KeysOf[Head(todo)]
            /\ count' = count + 1
            /\ cur' = Head(todo)
            /\ pc' = "launch"
       ELSE UNCHANGED <<held, count, cur, pc>>
    /\ UNCHANGED <<left, acked, threads, reaped, late, cpc, log, bounds>>

(* _launch(): a fresh event and a worker thread, for the row as it now is;   *)
(* an unregistered kind fails at once, without hooks.                        *)
Launch ==
    /\ pc = "launch"
    /\ IF Registered(cur)
       THEN /\ event' = [event EXCEPT ![cur] = "clear"]
            /\ worker' = [worker EXCEPT ![cur] = "alive"]
            /\ UNCHANGED <<row, ready, overrun, alerted>>
       ELSE /\ Update(cur, {"running"}, "failed")
            /\ alerted' = IF row[cur] = "running" THEN alerted \cup {cur} ELSE alerted
            /\ event' = [event EXCEPT ![cur] = "none"]
            /\ UNCHANGED worker
    /\ pc' = "after"
    /\ UNCHANGED <<left, acked, box, pass, cpc, finishes, bounds>>

(* The re-read after _launch: a row that is not running any more gives its   *)
(* slot and its keys back to this pass.                                      *)
After ==
    /\ pc = "after"
    /\ IF row[cur] # "running"
       THEN /\ count' = count - 1
            /\ held' = held \ KeysOf[cur]
       ELSE UNCHANGED <<count, held>>
    /\ cur' = NoJob
    /\ pc' = "start"
    /\ UNCHANGED <<ledger, threads, reaped, late, todo, cpc, log, bounds>>

StartDone ==
    /\ pc = "start"
    /\ todo = <<>>
    /\ pc' = "sweep"
    /\ ClearPass
    /\ UNCHANGED <<ledger, threads, cpc, log, bounds>>

(* The daily sweep deletes ended rows older than history_days; on the other  *)
(* ticks nothing is old enough.                                              *)
Sweep ==
    /\ pc = "sweep"
    /\ \E old \in SUBSET {j \in Job : row[j] \in Ended} :
         row' = [j \in Job |-> IF j \in old THEN "swept" ELSE row[j]]
    /\ pc' = "idle"
    /\ UNCHANGED <<left, ready, overrun, acked, threads, pass, cpc, log, bounds>>

(* A ledger operation of the tick raises: tick() logs it and gives up the    *)
(* pass, with whatever it had popped.  In recover() it keeps the dispatcher  *)
(* from being started at all.                                                *)
TickFault ==
    /\ pc \notin {"idle", "off"}
    /\ faults < MaxFaults
    /\ faults' = faults + 1
    /\ pc' = IF pc = "boot" THEN "off" ELSE "idle"
    /\ ClearPass
    /\ box' = [j \in Job |-> IF j \in reaped \/ (j = cur /\ pc \in {"write", "resolve", "failed"}) THEN "none" ELSE box[j]]
    /\ UNCHANGED <<ledger, event, worker, cpc, log, crashes>>

(* The read before on_finish raises in a cancel request: no hook.            *)
CancelFault(j) ==
    /\ cpc[j] = "finish"
    /\ faults < MaxFaults
    /\ faults' = faults + 1
    /\ cpc' = [cpc EXCEPT ![j] = "none"]
    /\ UNCHANGED <<ledger, threads, pc, pass, log, crashes>>

(* The service keeps answering requests when its dispatcher never started.   *)
Off ==
    /\ pc = "off"
    /\ UNCHANGED vars

-----------------------------------------------------------------------------
(* The manager process dies and starts again: threads, events and calls in   *)
(* progress are gone, the ledger is not.  recover() runs before the HTTP     *)
(* server listens.                                                           *)
Crash ==
    /\ crashes < MaxCrashes
    /\ crashes' = crashes + 1
    /\ event' = [j \in Job |-> "none"]
    /\ worker' = [j \in Job |-> "none"]
    /\ box' = [j \in Job |-> "none"]
    /\ cpc' = [j \in Job |-> "none"]
    /\ ClearPass
    /\ pc' = "boot"
    /\ UNCHANGED <<ledger, log, faults>>

(* recover(): a running row is queued again (next_run = now, the back of the *)
(* due order) or failed, by its kind's policy.                               *)
Recover(j) ==
    /\ pc = "boot"
    /\ row[j] = "running"
    /\ overrun' = overrun \ {j}
    /\ IF Registered(j) /\ j \in Requeued
       THEN /\ row' = [row EXCEPT ![j] = "queued"]
            /\ ready' = Append(ready, j)
            /\ UNCHANGED <<alerted, finishes>>
       ELSE /\ row' = [row EXCEPT ![j] = "failed"]
            /\ alerted' = alerted \cup {j}
            /\ OnFinish(j)
            /\ UNCHANGED ready
    /\ UNCHANGED <<left, acked, threads, pc, pass, cpc, bounds>>

(* Mutant: the dispatcher starts before recover() has seen every row.        *)
RecoveredEarly ==
    /\ pc = "boot"
    /\ pc' = "idle"
    /\ UNCHANGED <<ledger, threads, pass, cpc, log, bounds>>

Recovered ==
    /\ pc = "boot"
    /\ Running = {}
    /\ pc' = "idle"
    /\ UNCHANGED <<ledger, threads, pass, cpc, log, bounds>>

-----------------------------------------------------------------------------
Dispatch ==
    \/ Tick \/ ApplyWrite \/ ApplyDone \/ ResolveWrite \/ ResolveFailed
    \/ Timeouts \/ StartDue \/ StartSkip \/ StartFull \/ StartRow \/ Launch
    \/ After \/ StartDone \/ Sweep \/ Recovered
    \/ \E j \in Job : ApplyRead(j) \/ TimeOut(j) \/ Recover(j)

Request(j) == CancelSignal(j) \/ CancelFinish(j)

Next ==
    \/ Dispatch
    \/ TickFault \/ Off \/ Crash
    \/ \E j \in Job :
         \/ Submit(j) \/ Due(j) \/ Overrun(j) \/ Ack(j)
         \/ CancelMark(j) \/ Request(j) \/ CancelFault(j)
         \/ WorkerExit(j)

Spec == Init /\ [][Next]_vars

(* The dispatcher thread keeps ticking, a request thread runs to its end,    *)
(* and time passes.  Nothing is assumed of handlers: they may hang.          *)
ClockSpec ==
    /\ Spec
    /\ WF_vars(Dispatch)
    /\ \A j \in Job : WF_vars(Request(j)) /\ WF_vars(Due(j)) /\ WF_vars(Overrun(j))

(* Handlers return.                                                          *)
HandlersReturn == \A j \in Job : WF_vars(WorkerExit(j))

-----------------------------------------------------------------------------
(* Two running rows never share an exclusive key (_start_due, `held`), in    *)
(* whatever order cancels, timeouts, restarts and failed passes fall.        *)
RunningExclusive ==
    \A j, k \in Running : j # k => KeysOf[j] \cap KeysOf[k] = {}

(* _start_due never has more than `workers` rows running.                    *)
WorkerCap == Cardinality(Running) <= Workers

(* A row is not queued for another run while the thread of an earlier run of *)
(* it still has to be reaped: no row is ever run by two workers.             *)
OneWorkerPerRow == \A j \in Job : worker[j] # "none" => row[j] # "queued"

(* A row marked running is in somebody's hands: its worker's, the            *)
(* dispatcher's current pass or boot recovery; only a failed ledger          *)
(* operation may leave it to _timeouts.                                      *)
RunningHasOwner ==
    \A j \in Running :
        faults = 0 => worker[j] # "none" \/ j \in reaped \/ cur = j \/ pc = "boot"

(* The hooks come in order, whoever calls them: an alert is raised only for  *)
(* a failed row, and on_finish runs only for a row that has ended, and never *)
(* more than once for a row whose run was not cancelled.                     *)
HooksInOrder ==
    \A j \in Job :
        /\ j \in alerted => row[j] \in {"failed", "swept"}
        /\ finishes[j] > 0 => row[j] \in Ended \cup {"swept"}
        /\ row[j] \in {"done", "failed"} => finishes[j] <= 1

(* A row that has ended without its on_finish call is one whose cancel() or  *)
(* whose dispatcher step still owes the call; only a restart or a failed     *)
(* ledger operation loses it.                                                *)
FinishOwed ==
    \A j \in Job :
        row[j] \in Ended /\ finishes[j] = 0 =>
          \/ cpc[j] # "none"
          \/ cur = j /\ pc \in {"done", "failed", "expired"}
          \/ crashes > 0 \/ faults > 0

(* An ended row keeps its status for good, until the sweep deletes it: no    *)
(* outcome, timeout, recovery or second cancel revives or rewrites it.       *)
EndedIsFinal ==
    [][\A j \in Job : row[j] \in Ended => row'[j] \in {row[j], "swept"}]_vars

(* No row stays running for ever, even when its handler hangs or the         *)
(* dispatcher lost its outcome: _timeouts ends it.  Only a ledger that fails *)
(* during boot recovery, which keeps the dispatcher from starting, leaves it.*)
RunsEnd == \A j \in Job : row[j] = "running" ~> row[j] # "running" \/ pc = "off"

(* A queued row is eventually started (or cancelled) when handlers return:   *)
(* the due order and the cap starve nobody.                                  *)
QueuedStarts ==
    HandlersReturn =>
        \A j \in Job : row[j] = "queued" ~> row[j] # "queued" \/ pc = "off"

-----------------------------------------------------------------------------
(* The dispatcher as its kinds see it: where the handler of the row is.      *)
HandlerOf(j) ==
    IF pc = "launch" /\ cur = j THEN "due"
    ELSE IF worker[j] = "alive" THEN "alive"
    ELSE IF worker[j] = "dead" \/ j \in reaped \/ (cur = j /\ pc \in {"write", "resolve"}) THEN "over"
    ELSE "none"

Threads == [j \in Job |-> HandlerOf(j)]
Flagged == {j \in Job : HandlerOf(j) = "alive" /\ event[j] = "set"}
Settling == {j \in Job : cur = j /\ pc \in {"done", "failed", "expired"}}
Up == pc # "boot"

Service == INSTANCE JobService WITH
    status <- row, thread <- Threads, flag <- Flagged, cancelling <- cpc,
    settling <- Settling, up <- Up

(* The dispatcher with its passes, its due list and its faults implements    *)
(* the job service its kinds are written against: a handler is called once   *)
(* per start, an outcome is applied once, hooks follow the status they       *)
(* report, and no interleaving of cancels, timeouts and restarts does more.  *)
ImplementsService == Service!JobSpec

-----------------------------------------------------------------------------
(* What the repository says and these interleavings refute.                  *)

(* test_jobs.py, test_a_live_cancelled_worker_keeps_its_slot_and_exclusive_key: *)
(* two live worker threads never share a key.                                *)
WorkerExclusive ==
    \A j, k \in Job :
        j # k /\ worker[j] = "alive" /\ worker[k] = "alive"
        => KeysOf[j] \cap KeysOf[k] = {}
=============================================================================
