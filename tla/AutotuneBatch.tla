---------------------------- MODULE AutotuneBatch ----------------------------
(***************************************************************************)
(* The overnight autotune batch (autotune_batch.py): a stored batch of     *)
(* (host, model) tunes, the runner that walks it inside a job, the three   *)
(* ways a cancel reaches it (the batch's own route, the job service's      *)
(* on_cancel and on_finish), and what a restart of the manager does with   *)
(* it.  Over the job service; the agents are a server that may be stopped  *)
(* and one tune at a time.                                                 *)
(*                                                                         *)
(* The runner works on its own copy of the row and saves it whole; cancel()*)
(* reads the row, decides, and saves whole as well.                        *)
(***************************************************************************)
EXTENDS Naturals, FiniteSets, Sequences

CONSTANTS
    Batch,
    Job,         \* job rows; a batch gets another one after a restart
    BatchOf,     \* job -> its batch
    Host,
    ItemsOf,     \* batch -> the hosts of its items, in order
    Restarts,    \* batches with the restart toggle on
    None,
    Workers,
    MaxCrashes,  \* bound: manager restarts
    MaxRaises,   \* bound: exceptions inside a walk
    MaxCancels   \* bound: cancel requests

VARIABLES
    status, thread, flag, cancelling, settling, up,   \* the job service
    row,       \* batch -> its row: status, items, hosts it stopped, hosts not restarted
    mem,       \* job -> the runner's copy of the row
    at,        \* job -> where the runner is
    item,      \* job -> index of the item in hand
    todo,      \* job -> hosts still to restart
    marked,    \* Runner._cancel
    current,   \* Runner._current: batch -> host of the running item
    snap,      \* cancel() calls between their read and their write
    route,     \* batch -> its cancel request: none, cancel, jobs
    arming,    \* batches saved and not submitted yet
    redo,      \* batch -> what boot recovery has still to do with its hosts
    booted,    \* register_routes() is through
    serving,   \* hosts whose llama-server is up
    downBy,    \* host -> the batch that stopped its server
    tune,      \* host -> the batch whose tune it runs
    lost,      \* hosts of which the manager lost track in the middle of a stop or a recovery
    torn,      \* batches of which a cancel or the runner's first save overwrote a newer row
    crashes, raises, cancels

Caller == Batch \cup Job

KeysOf == [j \in Job |-> {ItemsOf[BatchOf[j]][i] : i \in DOMAIN ItemsOf[BatchOf[j]]}]

JS == INSTANCE JobService

jobVars == <<status, thread, flag, cancelling, settling, up>>
runVars == <<mem, at, item, todo>>
hostVars == <<serving, downBy, tune, lost>>
cancelVars == <<marked, current, snap, route, torn>>
bootVars == <<arming, redo, booted, crashes, raises, cancels>>
vars == <<jobVars, row, runVars, hostVars, cancelVars, bootVars>>

Live == {"queued", "running"}
Over == {"done", "failed", "cancelled"}
ItemStatus == {"queued", "running", "applied", "over", "cancelled"}

NewRow(b, st) ==
    [st |-> st, items |-> [i \in DOMAIN ItemsOf[b] |-> "queued"], stopped |-> {}, errors |-> {}]

IsRow(b, r) ==
    /\ r.st \in {"none"} \cup Live \cup Over
    /\ r.items \in [DOMAIN ItemsOf[b] -> ItemStatus]
    /\ r.stopped \subseteq Host /\ r.errors \subseteq Host

TypeOK ==
    /\ \A b \in Batch : IsRow(b, row[b]) /\ current[b] \in Host \cup {None}
    /\ \A j \in Job : mem[j] # None => IsRow(BatchOf[j], mem[j])
    /\ \A j \in Job : at[j] # "idle" <=> thread[j] = "alive"
    /\ marked \subseteq Batch /\ arming \subseteq Batch /\ torn \subseteq Batch
    /\ tune \in [Host -> Batch \cup {None}] /\ downBy \in [Host -> Batch \cup {None}]

Init ==
    /\ JS!JobInit
    /\ row = [b \in Batch |-> NewRow(b, "none")]
    /\ mem = [j \in Job |-> None] /\ at = [j \in Job |-> "idle"]
    /\ item = [j \in Job |-> 1] /\ todo = [j \in Job |-> {}]
    /\ marked = {} /\ current = [b \in Batch |-> None]
    /\ snap = [c \in Caller |-> None] /\ route = [b \in Batch |-> "none"]
    /\ arming = {} /\ redo = [b \in Batch |-> None] /\ booted = TRUE
    /\ serving \in SUBSET Host
    /\ downBy = [h \in Host |-> None] /\ tune = [h \in Host |-> None]
    /\ lost = {} /\ torn = {}
    /\ crashes \in 0..MaxCrashes /\ raises \in 0..MaxRaises /\ cancels \in 0..MaxCancels

-----------------------------------------------------------------------------
(* The agents: /llama/server/stop, /llama/server/restart, /llama/autotune/*  *)

TuneEnds(h) ==
    /\ tune[h] # None
    /\ tune' = [tune EXCEPT ![h] = None]
    /\ UNCHANGED <<jobVars, row, runVars, serving, downBy, lost, cancelVars, bootVars>>

(* cancel_on_agent(): stops whatever the host tunes; a call that fails is    *)
(* not repeated.                                                             *)
StopTune(h) ==
    tune' \in {tune, [tune EXCEPT ![h] = None]}

(* restart_server(): an answer that is lost counts as an error.              *)
RestartServer(h, ok) ==
    \/ ok /\ serving' = serving \cup {h} /\ downBy' = [downBy EXCEPT ![h] = None]
    \/ ~ok /\ serving' = serving \cup {h} /\ downBy' = [downBy EXCEPT ![h] = None]
    \/ ~ok /\ UNCHANGED <<serving, downBy>>

-----------------------------------------------------------------------------
(* Starting a batch *)

Active == {b \in Batch : row[b].st \in Live}

(* The start route, under start_lock.                                        *)
StartBatch(b) ==
    /\ up
    /\ row[b].st = "none"
    /\ \A c \in Batch : redo[c] = None
    /\ Active = {}
    /\ row' = [row EXCEPT ![b] = NewRow(b, "queued")]
    /\ arming' = arming \cup {b}
    /\ UNCHANGED <<jobVars, runVars, hostVars, cancelVars, redo, booted, crashes, raises, cancels>>

JobsOf(b, S) == {j \in Job : BatchOf[j] = b /\ status[j] \in S}

(* _submit_job(): a queued row suppresses it, a stale running one does not.  *)
Arm(b) ==
    /\ b \in arming
    /\ arming' = arming \ {b}
    /\ IF JobsOf(b, {"queued"}) # {} THEN UNCHANGED jobVars
       ELSE JS!JobSubmit(CHOOSE j \in Job : BatchOf[j] = b /\ status[j] = "absent")
    /\ UNCHANGED <<row, runVars, hostVars, cancelVars, redo, booted, crashes, raises, cancels>>

-----------------------------------------------------------------------------
(* The runner: Runner.run, inside the job *)

Cancelled(r) == [r EXCEPT !.st = "cancelled", !.items = [i \in DOMAIN r.items |-> "cancelled"]]

(* The handler returns and leaves the copy.                                  *)
Leave(j) ==
    /\ JS!JobReturn(j)
    /\ at' = [at EXCEPT ![j] = "idle"]
    /\ mem' = [mem EXCEPT ![j] = None]
    /\ UNCHANGED <<item, todo>>

Goto(j, p) == at' = [at EXCEPT ![j] = p] /\ UNCHANGED jobVars

(* The copy takes r and is saved.                                            *)
SaveAs(j, r) ==
    /\ mem' = [mem EXCEPT ![j] = r]
    /\ row' = [row EXCEPT ![BatchOf[j]] = r]

Set(j, st) == [mem[j] EXCEPT !.items[item[j]] = st]

HostOf(j) == ItemsOf[BatchOf[j]][item[j]]

(* The item ends as st and is saved; the walk goes on.                       *)
ItemOver(j, st) ==
    /\ SaveAs(j, Set(j, st))
    /\ item' = [item EXCEPT ![j] = @ + 1]
    /\ Goto(j, "walk")
    /\ UNCHANGED todo

Launch(j) ==
    /\ JS!JobLaunch(j)
    /\ at' = [at EXCEPT ![j] = "get"]
    /\ item' = [item EXCEPT ![j] = 1]
    /\ UNCHANGED <<row, mem, todo, hostVars, cancelVars, bootVars>>

Get(j) ==
    LET b == BatchOf[j] IN
    /\ at[j] = "get"
    /\ \/ /\ row[b].st # "queued"
          /\ Leave(j) /\ UNCHANGED row
       \/ /\ row[b].st = "queued" /\ b \in marked
          /\ row' = [row EXCEPT ![b] = Cancelled(@)]
          /\ Leave(j)
       \/ /\ row[b].st = "queued" /\ b \notin marked
          /\ mem' = [mem EXCEPT ![j] = row[b]]
          /\ Goto(j, "mark")
          /\ UNCHANGED <<row, item, todo>>
    /\ UNCHANGED <<hostVars, cancelVars, bootVars>>

Mark(j) ==
    /\ at[j] = "mark"
    /\ SaveAs(j, [mem[j] EXCEPT !.st = "running"])
    /\ Goto(j, "walk")
    /\ torn' = IF row[BatchOf[j]].st # "queued" THEN torn \cup {BatchOf[j]} ELSE torn
    /\ UNCHANGED <<item, todo, hostVars, marked, current, snap, route, bootVars>>

Walk(j) ==
    /\ at[j] = "walk"
    /\ \/ /\ item[j] > Len(mem[j].items)
          /\ Goto(j, "finish")
          /\ UNCHANGED <<row, mem, item, todo>>
       \/ /\ item[j] <= Len(mem[j].items) /\ BatchOf[j] \in marked
          /\ mem' = [mem EXCEPT ![j] = Set(j, "cancelled")]
          /\ item' = [item EXCEPT ![j] = @ + 1]
          /\ UNCHANGED <<jobVars, at, row, todo>>
       \/ /\ item[j] <= Len(mem[j].items) /\ BatchOf[j] \notin marked
          /\ SaveAs(j, Set(j, "running"))
          /\ Goto(j, "check")
          /\ UNCHANGED <<item, todo>>
    /\ UNCHANGED <<hostVars, cancelVars, bootVars>>

(* _budget() and _precheck(): no budget left, a host offline, out of reach,  *)
(* busy or without the model skips the item; a server that is up is stopped, *)
(* and a stop that is not confirmed fails the item.                          *)
Check(j) ==
    LET h == HostOf(j) IN
    /\ at[j] = "check"
    /\ \/ ItemOver(j, "over") /\ UNCHANGED <<serving, downBy, lost>>
       \/ /\ tune[h] = None /\ h \in serving
          /\ ItemOver(j, "over")
          /\ serving' = serving \ {h}
          /\ downBy' = [downBy EXCEPT ![h] = BatchOf[j]]
          /\ lost' = lost \cup {h}
       \/ /\ tune[h] = None /\ h \in serving
          /\ serving' = serving \ {h}
          /\ downBy' = [downBy EXCEPT ![h] = BatchOf[j]]
          /\ mem' = [mem EXCEPT ![j].stopped = @ \cup {h}]
          /\ Goto(j, "stopped")
          /\ UNCHANGED <<row, item, todo, lost>>
       \/ /\ tune[h] = None /\ h \notin serving
          /\ Goto(j, "post")
          /\ UNCHANGED <<row, mem, item, todo, serving, downBy, lost>>
    /\ UNCHANGED <<tune, cancelVars, bootVars>>

Stopped(j) ==
    /\ at[j] = "stopped"
    /\ SaveAs(j, mem[j])
    /\ Goto(j, "post")
    /\ UNCHANGED <<item, todo, hostVars, cancelVars, bootVars>>

(* run_on_agent(): taken, refused, or no answer, and then perhaps taken.     *)
Post(j) ==
    LET h == HostOf(j) IN
    /\ at[j] = "post"
    /\ \/ /\ tune[h] = None
          /\ tune' = [tune EXCEPT ![h] = BatchOf[j]]
          /\ Goto(j, "current")
          /\ UNCHANGED <<row, mem, item, todo>>
       \/ /\ tune[h] = None
          /\ tune' = [tune EXCEPT ![h] = BatchOf[j]]
          /\ ItemOver(j, "over")
       \/ ItemOver(j, "over") /\ UNCHANGED tune
    /\ UNCHANGED <<serving, downBy, lost, cancelVars, bootVars>>

(* _current, and the item saved with its run id.                             *)
Current(j) ==
    /\ at[j] = "current"
    /\ current' = [current EXCEPT ![BatchOf[j]] = HostOf(j)]
    /\ SaveAs(j, mem[j])
    /\ Goto(j, "follow")
    /\ UNCHANGED <<item, todo, hostVars, marked, snap, route, torn, bootVars>>

(* _follow(): a cancel seen at an event or a reconnect, the deadline or the  *)
(* last failed reconnect stop the tune; a done event ends it, and a stream   *)
(* that just closes is taken for the end.                                    *)
Follow(j) ==
    LET h == HostOf(j) IN
    /\ at[j] = "follow"
    /\ \/ BatchOf[j] \in marked /\ StopTune(h) /\ Goto(j, "cut")
       \/ BatchOf[j] \notin marked /\ StopTune(h) /\ Goto(j, "fruitless")
       \/ /\ BatchOf[j] \notin marked /\ tune[h] # BatchOf[j]
          /\ Goto(j, "fruitless") \/ Goto(j, "tuned")
          /\ UNCHANGED tune
       \/ /\ tune[h] = BatchOf[j]
          /\ Goto(j, "fruitless")
          /\ UNCHANGED tune
    /\ UNCHANGED <<row, mem, item, todo, serving, downBy, lost, cancelVars, bootVars>>

(* After the run: a cancelled item ends the walk; a result that should_apply *)
(* accepts and _apply() writes is applied.                                   *)
Ended(j) ==
    /\ at[j] \in {"cut", "fruitless", "tuned"}
    /\ current' = [current EXCEPT ![BatchOf[j]] = None]
    /\ \/ /\ at[j] = "cut"
          /\ SaveAs(j, Set(j, "cancelled"))
          /\ Goto(j, "finish")
          /\ UNCHANGED <<item, todo>>
       \/ at[j] # "cut" /\ ItemOver(j, "over")
       \/ at[j] = "tuned" /\ ItemOver(j, "applied")
    /\ UNCHANGED <<hostVars, marked, snap, route, torn, bootVars>>

(* _finish_hosts(): every host the batch stopped, and with the toggle on     *)
(* every host with an applied item.                                          *)
Want(j) ==
    LET b == BatchOf[j]
        applied == {i \in DOMAIN mem[j].items : mem[j].items[i] = "applied"}
    IN mem[j].stopped \cup (IF b \in Restarts THEN {ItemsOf[b][i] : i \in applied} ELSE {})

Finish(j) ==
    /\ at[j] \in {"finish", "except"}
    /\ todo' = [todo EXCEPT ![j] = Want(j)]
    /\ Goto(j, IF at[j] = "finish" THEN "restart" ELSE "rescue")
    /\ UNCHANGED <<row, mem, item, hostVars, cancelVars, bootVars>>

RestartHost(j) ==
    /\ at[j] \in {"restart", "rescue"}
    /\ \E h \in todo[j], ok \in BOOLEAN :
         /\ RestartServer(h, ok)
         /\ todo' = [todo EXCEPT ![j] = @ \ {h}]
         /\ mem' = IF ok THEN mem ELSE [mem EXCEPT ![j].errors = @ \cup {h}]
    /\ UNCHANGED <<jobVars, row, at, item, tune, lost, cancelVars, bootVars>>

(* The end of the batch; after an exception its items stay as they are.      *)
Close(j) ==
    LET b == BatchOf[j]
        m == mem[j]
        swept == [i \in DOMAIN m.items |-> IF m.items[i] = "queued" THEN "cancelled" ELSE m.items[i]]
    IN
    /\ at[j] \in {"restart", "rescue"}
    /\ todo[j] = {}
    /\ SaveAs(j, IF at[j] = "rescue" THEN [m EXCEPT !.st = "failed"]
                 ELSE [m EXCEPT !.st = IF b \in marked THEN "cancelled" ELSE "done", !.items = swept])
    /\ Goto(j, "finally")
    /\ UNCHANGED <<item, todo, hostVars, cancelVars, bootVars>>

Finally(j) ==
    /\ at[j] = "finally"
    /\ marked' = marked \ {BatchOf[j]}
    /\ current' = [current EXCEPT ![BatchOf[j]] = None]
    /\ Leave(j)
    /\ UNCHANGED <<row, hostVars, snap, route, torn, bootVars>>

(* Mutant: an exception ends the batch without a look at its hosts.          *)
RaiseBare(j) ==
    /\ raises < MaxRaises
    /\ raises' = raises + 1
    /\ at[j] \in {"mark", "walk", "check", "stopped", "post", "current", "follow"}
    /\ Goto(j, "rescue")
    /\ UNCHANGED <<row, mem, item, todo, hostVars, cancelVars, arming, redo, booted, crashes, cancels>>

(* A save or another call inside the walk raises.                            *)
Raise(j) ==
    /\ raises < MaxRaises
    /\ raises' = raises + 1
    /\ at[j] \in {"mark", "walk", "check", "stopped", "post", "current", "follow"}
    /\ Goto(j, "except")
    /\ UNCHANGED <<row, mem, item, todo, hostVars, cancelVars, arming, redo, booted, crashes, cancels>>

-----------------------------------------------------------------------------
(* Cancelling: Runner.cancel *)

BatchFor(c) == IF c \in Batch THEN c ELSE BatchOf[c]

(* Its first read; a batch that has ended is left alone.                     *)
CancelRead(c) ==
    snap' = IF row[BatchFor(c)].st \in Live THEN [snap EXCEPT ![c] = row[BatchFor(c)]] ELSE snap

(* The rest, on what was read: a queued batch is saved as cancelled, a       *)
(* running one has its tune stopped, by the first cancel only.               *)
CancelAct(c) ==
    LET b == BatchFor(c) IN
    /\ snap[c] # None
    /\ snap' = [snap EXCEPT ![c] = None]
    /\ marked' = marked \cup {b}
    /\ IF snap[c].st = "queued"
       THEN /\ row' = [row EXCEPT ![b] = Cancelled(snap[c])]
            /\ torn' = IF row[b].st # "queued" THEN torn \cup {b} ELSE torn
            /\ UNCHANGED tune
       ELSE /\ IF current[b] # None /\ b \notin marked THEN StopTune(current[b]) ELSE UNCHANGED tune
            /\ UNCHANGED <<row, torn>>
    /\ route' = IF c \in Batch THEN [route EXCEPT ![c] = "jobs"] ELSE route
    /\ UNCHANGED <<jobVars, runVars, serving, downBy, lost, current, bootVars>>

Counted == cancels < MaxCancels /\ cancels' = cancels + 1

(* The cancel route: the batch first, then its jobs.                         *)
RouteCancel(b) ==
    /\ up
    /\ row[b].st \in Live
    /\ route[b] = "none"
    /\ Counted
    /\ CancelRead(b)
    /\ route' = [route EXCEPT ![b] = "cancel"]
    /\ UNCHANGED <<jobVars, row, runVars, hostVars, marked, current, torn, arming, redo, booted, crashes, raises>>

RouteJobs(b) ==
    /\ route[b] = "jobs"
    /\ IF JobsOf(b, Live) = {}
       THEN route' = [route EXCEPT ![b] = "none"] /\ UNCHANGED jobVars
       ELSE UNCHANGED route /\ \E j \in JobsOf(b, Live) : JS!JobCancel(j)
    /\ UNCHANGED <<row, runVars, hostVars, marked, current, snap, torn, bootVars>>

(* Somebody cancels the job instead.                                         *)
CancelJob(j) ==
    /\ JS!JobCancel(j)
    /\ Counted
    /\ UNCHANGED <<row, runVars, hostVars, cancelVars, arming, redo, booted, crashes, raises>>

(* A hook of job j calls runner.cancel().                                    *)
Hook(j) ==
    /\ snap[j] = None
    /\ CancelRead(j)
    /\ UNCHANGED <<row, runVars, hostVars, marked, current, route, torn, bootVars>>

CancelSignal(j) == JS!JobCancelSignal(j) /\ Hook(j)

CancelFinish(j) == snap[j] = None /\ JS!JobCancelFinish(j) /\ Hook(j)

(* The job overruns max_run_s: its batch is under way by then.               *)
ExpireSignal(j) ==
    /\ status[j] = "running" /\ at[j] = "follow" /\ j \notin flag
    /\ JS!JobExpireSignal(j)
    /\ Hook(j)

Expire(j) ==
    /\ j \in flag /\ snap[j] = None
    /\ JS!JobExpire(j)
    /\ UNCHANGED <<row, runVars, hostVars, cancelVars, bootVars>>

Start(j) == JS!JobStart(j) /\ UNCHANGED <<row, runVars, hostVars, cancelVars, bootVars>>

(* _job_run()'s outcome goes by the batch's row.  The batch is over by then, *)
(* so the on_finish call that may follow does nothing.                       *)
Settle(j) ==
    /\ JS!JobSettle(j, IF row[BatchOf[j]].st = "failed" THEN "failed" ELSE "done")
    /\ status[j] # "running" => settling' = settling
    /\ UNCHANGED <<row, runVars, hostVars, cancelVars, bootVars>>

-----------------------------------------------------------------------------
(* Restarts: Store.recover and Runner.recover, then Service.recover *)

(* A host is lost track of when its stop was not saved yet, or when the row  *)
(* says that the batch is over.                                              *)
Crash ==
    /\ crashes < MaxCrashes
    /\ crashes' = crashes + 1
    /\ JS!JobCrash
    /\ mem' = [j \in Job |-> None] /\ at' = [j \in Job |-> "idle"]
    /\ todo' = [j \in Job |-> {}] /\ item' = [j \in Job |-> 1]
    /\ marked' = {} /\ current' = [b \in Batch |-> None]
    /\ snap' = [c \in Caller |-> None] /\ route' = [b \in Batch |-> "none"]
    /\ arming' = {} /\ redo' = [b \in Batch |-> None] /\ booted' = FALSE
    /\ lost' = lost \cup {h \in Host :
         /\ downBy[h] # None
         /\ row[downBy[h]].st # "running" \/ h \notin row[downBy[h]].stopped}
    /\ UNCHANGED <<row, serving, downBy, tune, torn, raises, cancels>>

Interrupted(r) ==
    [r EXCEPT !.st = "failed",
              !.items = [i \in DOMAIN r.items |-> IF r.items[i] \in Live THEN "over" ELSE r.items[i]]]

RunningHosts(b) == {ItemsOf[b][i] : i \in {n \in DOMAIN row[b].items : row[b].items[n] = "running"}}

(* Mutant: a batch that a restart interrupted is left as it is.              *)
BootKeep ==
    /\ ~up /\ ~booted
    /\ booted' = TRUE
    /\ arming' = {b \in Batch : row[b].st = "queued"}
    /\ UNCHANGED <<jobVars, row, redo, runVars, hostVars, cancelVars, crashes, raises, cancels>>

(* Interrupted batches fail and a thread sees to their hosts; queued ones    *)
(* are armed again.                                                          *)
Boot ==
    /\ ~up /\ ~booted
    /\ booted' = TRUE
    /\ row' = [b \in Batch |-> IF row[b].st = "running" THEN Interrupted(row[b]) ELSE row[b]]
    /\ redo' = [b \in Batch |->
         IF row[b].st = "running"
         THEN [stop |-> RunningHosts(b), start |-> row[b].stopped, errors |-> {}] ELSE None]
    /\ arming' = {b \in Batch : row[b].st = "queued"}
    /\ UNCHANGED <<jobVars, runVars, hostVars, cancelVars, crashes, raises, cancels>>

(* _recover_hosts(): cancel the tunes, restart what was stopped, save.       *)
RedoStop(b) ==
    /\ redo[b] # None
    /\ \E h \in redo[b].stop :
         /\ StopTune(h)
         /\ redo' = [redo EXCEPT ![b].stop = @ \ {h}]
    /\ UNCHANGED <<jobVars, row, runVars, serving, downBy, lost, cancelVars, arming, booted, crashes, raises, cancels>>

RedoStart(b) ==
    /\ redo[b] # None /\ redo[b].stop = {}
    /\ \E h \in redo[b].start, ok \in BOOLEAN :
         /\ RestartServer(h, ok)
         /\ redo' = [redo EXCEPT ![b].start = @ \ {h}, ![b].errors = IF ok THEN @ ELSE @ \cup {h}]
    /\ UNCHANGED <<jobVars, row, runVars, tune, lost, cancelVars, arming, booted, crashes, raises, cancels>>

RedoSave(b) ==
    /\ redo[b] # None /\ redo[b].stop = {} /\ redo[b].start = {}
    /\ row' = [row EXCEPT ![b].errors = @ \cup redo[b].errors]
    /\ redo' = [redo EXCEPT ![b] = None]
    /\ UNCHANGED <<jobVars, runVars, hostVars, cancelVars, arming, booted, crashes, raises, cancels>>

(* The job kind has resume = "fail".                                         *)
Recover(j) ==
    /\ booted /\ arming = {}
    /\ JS!JobRecover(j, "failed")
    /\ UNCHANGED <<row, runVars, hostVars, cancelVars, bootVars>>

Recovered ==
    /\ booted /\ arming = {}
    /\ JS!JobRecovered
    /\ UNCHANGED <<row, runVars, hostVars, cancelVars, bootVars>>

Runner(j) ==
    \/ Get(j) \/ Mark(j) \/ Walk(j) \/ Check(j) \/ Stopped(j) \/ Post(j) \/ Current(j) \/ Follow(j)
    \/ Ended(j) \/ Finish(j) \/ RestartHost(j) \/ Close(j) \/ Finally(j)

Service(j) ==
    \/ Launch(j) \/ Settle(j) \/ CancelSignal(j) \/ CancelFinish(j)
    \/ CancelAct(j) \/ Expire(j) \/ Recover(j)

Manager(b) ==
    Arm(b) \/ CancelAct(b) \/ RouteJobs(b) \/ RedoStop(b) \/ RedoStart(b) \/ RedoSave(b)

Next ==
    \/ Crash \/ Boot \/ Recovered
    \/ \E h \in Host : TuneEnds(h)
    \/ \E b \in Batch : StartBatch(b) \/ RouteCancel(b) \/ Manager(b)
    \/ \E j \in Job : Start(j) \/ Runner(j) \/ Service(j) \/ Raise(j) \/ CancelJob(j) \/ ExpireSignal(j)

Spec == Init /\ [][Next]_vars

(* Threads run; a due row whose hosts stay free is started (QueuedStarts of  *)
(* Jobs); _follow() has a deadline, so nothing is asked of the agents.       *)
Fairness ==
    /\ WF_vars(Boot) /\ WF_vars(Recovered)
    /\ \A b \in Batch : WF_vars(Manager(b))
    /\ \A j \in Job : SF_vars(Start(j)) /\ WF_vars(Runner(j) \/ Service(j))

FairSpec == Spec /\ Fairness

-----------------------------------------------------------------------------
(* A server the batch stopped is never forgotten: its runner or the boot     *)
(* recovery still has it to restart, or the row says that the restart        *)
(* failed, whichever way the walk ends.  Only a stop that was not confirmed  *)
(* or not saved, a second restart during recovery, and a cancel that writes  *)
(* over the runner's row, lose it.                                           *)
ServersComeBack ==
    \A h \in Host :
        downBy[h] # None /\ h \notin lost /\ downBy[h] \notin torn =>
            LET b == downBy[h] IN
            \/ h \in row[b].errors
            \/ redo[b] # None /\ h \in redo[b].start \cup redo[b].errors
            \/ ~booted /\ h \in row[b].stopped
            \/ \E j \in Job :
                 /\ BatchOf[j] = b /\ mem[j] # None
                 /\ \/ h \in mem[j].errors
                    \/ h \in mem[j].stopped /\ (at[j] \in {"restart", "rescue"} => h \in todo[j])

(* A batch once accepted ends, through cancels, failures, overruns and a     *)
(* restart at any point, so that another one can be started.                 *)
BatchEnds == \A b \in Batch : row[b].st \in Live ~> row[b].st \in Over
=============================================================================
