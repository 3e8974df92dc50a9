------------------------------ MODULE ToolQueue ------------------------------
(***************************************************************************)
(* Tools runs on a host: the start routes that post a run to its agent or  *)
(* queue it (llm-systems-manager.py, _tool_start), the tool_run and        *)
(* report_card kinds that wait for the host and follow the run             *)
(* (tool_queue.py), the manager's record of busy hosts (tool_activity.py)  *)
(* and the slot of the Report Card runner (report_card.py), over the job   *)
(* service.  A request and the row it may become share one name.           *)
(*                                                                         *)
(* The agent accepts one tool run at a time and refuses others as "in      *)
(* progress"; its cancel route names no run.  A Report Card runs in the    *)
(* manager and is lost with it.                                            *)
(***************************************************************************)
EXTENDS Naturals, FiniteSets

CONSTANTS
    Job,         \* runs somebody asks for
    NoJob,
    Other,       \* a run somebody else started on the agent
    Host,
    HostOf,      \* run -> its host
    Card,        \* the runs that are Report Cards
    Staged,      \* tool runs with a pre-step (stop the server)
    Workers,
    MaxQueued,   \* jobs.tool_queue_max
    MaxCrashes   \* bound: manager restarts

VARIABLES
    status, thread, flag, cancelling, settling, up,   \* the job service
    asked,     \* the start request
    blob,      \* column state of the row: empty, pre (pre_done), run (run_id), seen
    at,        \* where the handler is
    outcome,   \* what it returned
    snap,      \* rows whose state had a run_id when cancel() read it
    active,    \* host -> the run its agent is busy with
    card,      \* Report Card runner of the run: none, running, stopping, over
    noted,     \* tool_activity._RUNS: hosts with a recorded run
    starts,    \* runs accepted by the agent or the runner, per request
    cut,       \* rows the manager died on in the middle of a start or a cancel
    overtaken, \* rows whose cancel was marked before their handler looked and signalled after
    unheard,   \* rows cancelled while a restart had queued them again with their run going on
    gaveUp,    \* runs the manager stopped following or failed to stop, and said so
    crashes

KeysOf == [j \in Job |-> {HostOf[j]}]

JS == INSTANCE JobService

jobVars == <<status, thread, flag, cancelling, settling, up>>
queueVars == <<asked, blob, at, outcome, snap, active, card, noted, starts, cut, overtaken, unheard, gaveUp, crashes>>
vars == <<jobVars, queueVars>>

Recorded == {"run", "seen"}

TypeOK ==
    /\ status \in [Job -> {"absent", "queued", "running", "done", "failed", "cancelled"}]
    /\ asked \in [Job -> {"no", "direct", "count", "insert", "answered"}]
    /\ blob \in [Job -> {"empty", "pre"} \cup Recorded]
    /\ at \in [Job -> {"idle", "check", "pre", "post", "record", "landed", "follow", "seen"}]
    /\ outcome \in [Job -> {"none", "again", "finish", "fail"}]
    /\ active \in [Host -> Job \cup {NoJob, Other}]
    /\ card \in [Job -> {"none", "running", "stopping", "over"}]
    /\ snap \subseteq Job /\ noted \subseteq Host
    /\ \A j \in Job : at[j] # "idle" <=> thread[j] = "alive"

Init ==
    /\ JS!JobInit
    /\ asked \in [Job -> {"no", "answered"}]
    /\ blob = [j \in Job |-> "empty"]
    /\ at = [j \in Job |-> "idle"]
    /\ outcome = [j \in Job |-> "none"]
    /\ snap = {}
    /\ active \in [Host -> {NoJob, Other}]
    /\ card = [j \in Job |-> "none"]
    /\ noted = {}
    /\ starts = [j \in Job |-> 0]
    /\ cut = {} /\ overtaken = {} /\ unheard = {} /\ gaveUp = {}
    /\ crashes \in 0..MaxCrashes

-----------------------------------------------------------------------------
(* What the manager believes of a host *)

Carded(h) == \E j \in Job : HostOf[j] = h /\ card[j] \in {"running", "stopping"}

(* _batch_busy_agents(): the recorded tool runs and the live Report Cards.    *)
HeldAgent(h) == h \in noted \/ Carded(h)

RowsFor(h, S) == {j \in Job : HostOf[j] = h /\ status[j] \in S}

(* Queue.held()                                                              *)
Held(h) == HeldAgent(h) \/ RowsFor(h, JS!JobLive) # {}

(* tools/state answers, or cannot be read.                                   *)
Busy(h) == active[h] # NoJob

(* Mutant: the answer of the probe is read the wrong way round.              *)
DropNoteBusy(h) ==
    /\ h \in noted
    /\ Busy(h)
    /\ noted' = noted \ {h}
    /\ UNCHANGED <<jobVars, asked, blob, at, outcome, snap, active, card, starts, cut, overtaken, unheard, gaveUp, crashes>>

(* tool_activity._sweep(): a record goes when the probe says that the run is  *)
(* over, or when nothing confirmed it for UNCONFIRMED_MAX_S.                 *)
DropNote(h) ==
    /\ h \in noted
    /\ noted' = noted \ {h}
    /\ UNCHANGED <<jobVars, asked, blob, at, outcome, snap, active, card, starts, cut, overtaken, unheard, gaveUp, crashes>>

-----------------------------------------------------------------------------
(* Start requests: _tool_start, _reportcard_queue_start *)

(* A held host that can be probed is waited for; any other is posted to.     *)
Ask(j) ==
    /\ up
    /\ asked[j] = "no"
    /\ asked' = [asked EXCEPT ![j] = IF Held(HostOf[j]) THEN "count" ELSE "direct"]
    /\ UNCHANGED <<jobVars, blob, at, outcome, snap, active, card, noted, starts, cut, overtaken, unheard, gaveUp, crashes>>

(* The agent takes the run, or refuses it as busy and the request queues; a  *)
(* Report Card takes the runner's slot of the host or is refused for good.   *)
Direct(j) ==
    /\ asked[j] = "direct"
    /\ \/ /\ j \notin Card /\ ~Busy(HostOf[j])
          /\ active' = [active EXCEPT ![HostOf[j]] = j]
          /\ noted' = noted \cup {HostOf[j]}
          /\ starts' = [starts EXCEPT ![j] = @ + 1]
          /\ asked' = [asked EXCEPT ![j] = "answered"]
          /\ UNCHANGED card
       \/ /\ j \notin Card /\ Busy(HostOf[j])
          /\ asked' = [asked EXCEPT ![j] = "count"]
          /\ UNCHANGED <<active, card, noted, starts>>
       \/ /\ j \in Card
          /\ asked' = [asked EXCEPT ![j] = "answered"]
          /\ card' = IF Carded(HostOf[j]) THEN card ELSE [card EXCEPT ![j] = "running"]
          /\ starts' = IF Carded(HostOf[j]) THEN starts ELSE [starts EXCEPT ![j] = @ + 1]
          /\ UNCHANGED <<active, noted>>
    /\ UNCHANGED <<jobVars, blob, at, outcome, snap, cut, overtaken, unheard, gaveUp, crashes>>

(* _queued_or_full() counts, submit() inserts; nothing holds between.        *)
Count(j) ==
    /\ asked[j] = "count"
    /\ asked' = [asked EXCEPT ![j] =
         IF Cardinality(RowsFor(HostOf[j], {"queued"})) >= MaxQueued THEN "answered" ELSE "insert"]
    /\ UNCHANGED <<jobVars, blob, at, outcome, snap, active, card, noted, starts, cut, overtaken, unheard, gaveUp, crashes>>

Insert(j) ==
    /\ asked[j] = "insert"
    /\ JS!JobSubmit(j)
    /\ asked' = [asked EXCEPT ![j] = "answered"]
    /\ UNCHANGED <<blob, at, outcome, snap, active, card, noted, starts, cut, overtaken, unheard, gaveUp, crashes>>

-----------------------------------------------------------------------------
(* The handlers: Queue.run and Queue.run_card *)

Launch(j) ==
    /\ JS!JobLaunch(j)
    /\ at' = [at EXCEPT ![j] = "check"]
    /\ UNCHANGED <<asked, blob, outcome, snap, active, card, noted, starts, cut, overtaken, unheard, gaveUp, crashes>>

(* The handler returns o.                                                    *)
Return(j, o) ==
    /\ JS!JobReturn(j)
    /\ at' = [at EXCEPT ![j] = "idle"]
    /\ outcome' = [outcome EXCEPT ![j] = o]

Goto(j, p) ==
    /\ at' = [at EXCEPT ![j] = p]
    /\ UNCHANGED <<jobVars, outcome>>

(* set_state(): only a live row takes it.                                    *)
Save(j, s) == blob' = IF status[j] \in JS!JobLive THEN [blob EXCEPT ![j] = s] ELSE blob

(* Mutant: the handler forgets that its row already has a run.               *)
ResumesNever(j) == FALSE

(* A row with a run_id is followed, not started; a Report Card only while     *)
(* this process still knows its run.                                         *)
Resumes(j) == blob[j] \in Recorded /\ (j \in Card => card[j] # "none")

(* The first reads: an agent that is gone ends the run, a held or busy host   *)
(* sends it back to wait, and tools/state that cannot be read counts as idle. *)
Check(j) ==
    /\ at[j] = "check"
    /\ \/ Return(j, "fail") /\ gaveUp' = gaveUp \cup {j} /\ UNCHANGED noted
       \/ /\ Resumes(j)
          /\ Goto(j, IF j \notin Card /\ blob[j] = "seen" THEN "seen" ELSE "follow")
          /\ noted' = IF j \in Card THEN noted ELSE noted \cup {HostOf[j]}
          /\ UNCHANGED gaveUp
       \/ /\ ~Resumes(j)
          /\ HeldAgent(HostOf[j]) \/ Busy(HostOf[j])
          /\ Return(j, "again") /\ UNCHANGED <<noted, gaveUp>>
       \/ /\ ~Resumes(j)
          /\ ~HeldAgent(HostOf[j])
          /\ Goto(j, IF j \in Staged /\ blob[j] # "pre" THEN "pre" ELSE "post")
          /\ UNCHANGED <<noted, gaveUp>>
    /\ UNCHANGED <<asked, blob, snap, active, card, starts, cut, overtaken, unheard, crashes>>

Pre(j) ==
    /\ at[j] = "pre"
    /\ Save(j, "pre")
    /\ Goto(j, "post")
    /\ UNCHANGED <<asked, snap, active, card, noted, starts, cut, overtaken, unheard, gaveUp, crashes>>

(* The run is posted: accepted, refused as busy, refused otherwise, or no     *)
(* answer, and then the agent may have taken it.                             *)
Post(j) ==
    /\ at[j] = "post"
    /\ j \notin Card
    /\ \/ /\ ~Busy(HostOf[j])
          /\ active' = [active EXCEPT ![HostOf[j]] = j]
          /\ starts' = [starts EXCEPT ![j] = @ + 1]
          /\ \/ Goto(j, "record") /\ UNCHANGED gaveUp
             \/ Return(j, "fail") /\ gaveUp' = gaveUp \cup {j}
       \/ /\ Busy(HostOf[j])
          /\ Return(j, "again")
          /\ UNCHANGED <<active, starts, gaveUp>>
       \/ Return(j, "fail") /\ UNCHANGED <<active, starts, gaveUp>>
    /\ UNCHANGED <<asked, blob, snap, card, noted, cut, overtaken, unheard, crashes>>

(* card_start(): the runner's slot of the host.                              *)
StartCard(j) ==
    /\ at[j] = "post"
    /\ j \in Card
    /\ \/ /\ Carded(HostOf[j])
          /\ Return(j, "again")
          /\ UNCHANGED <<card, starts>>
       \/ /\ ~Carded(HostOf[j])
          /\ Goto(j, "record")
          /\ card' = [card EXCEPT ![j] = "running"]
          /\ starts' = [starts EXCEPT ![j] = @ + 1]
    /\ UNCHANGED <<asked, blob, snap, active, noted, cut, overtaken, unheard, gaveUp, crashes>>

Record(j) ==
    /\ at[j] = "record"
    /\ Save(j, "run")
    /\ Goto(j, "landed")
    /\ UNCHANGED <<asked, snap, active, card, noted, starts, cut, overtaken, unheard, gaveUp, crashes>>

(* _post_cancel() stops whatever runs on the host, card_cancel() the card;   *)
(* a POST that fails is not retried.                                         *)
StopRun(j) ==
    IF j \in Card
    THEN /\ card' = [card EXCEPT ![j] = IF @ = "running" THEN "stopping" ELSE @]
         /\ UNCHANGED <<active, gaveUp>>
    ELSE /\ \/ active' = [active EXCEPT ![HostOf[j]] = NoJob] /\ UNCHANGED gaveUp
            \/ gaveUp' = gaveUp \cup {j} /\ UNCHANGED active
         /\ UNCHANGED card

(* Mutant: the start does not look for a cancel that landed meanwhile.       *)
LandedFollow(j) ==
    /\ at[j] = "landed"
    /\ Goto(j, "follow")
    /\ noted' = IF j \in Card THEN noted ELSE noted \cup {HostOf[j]}
    /\ UNCHANGED <<asked, blob, snap, active, card, starts, cut, overtaken, unheard, gaveUp, crashes>>

(* A cancel that landed while the start was in flight stops the run.         *)
Landed(j) ==
    /\ at[j] = "landed"
    /\ \/ /\ j \in flag
          /\ StopRun(j)
          /\ Return(j, "fail")
          /\ UNCHANGED noted
       \/ /\ j \notin flag
          /\ Goto(j, "follow")
          /\ noted' = IF j \in Card THEN noted ELSE noted \cup {HostOf[j]}
          /\ UNCHANGED <<active, card, gaveUp>>
    /\ overtaken' = IF cancelling[j] = "signal" THEN overtaken \cup {j} ELSE overtaken
    /\ UNCHANGED <<asked, blob, snap, starts, cut, unheard, crashes>>

(* The follow loop of a tool run: the agent's flag tells that some run is     *)
(* active, not which.                                                        *)
Follow(j) ==
    /\ at[j] \in {"follow", "seen"}
    /\ j \notin Card
    /\ \/ j \in flag /\ Return(j, "fail") /\ UNCHANGED <<blob, gaveUp>>
       \/ /\ j \notin flag /\ Busy(HostOf[j]) /\ at[j] = "follow"
          /\ Goto(j, "seen") /\ Save(j, "seen") /\ UNCHANGED gaveUp
       \/ /\ j \notin flag /\ ~Busy(HostOf[j])
          /\ Return(j, IF at[j] = "seen" THEN "finish" ELSE "fail")
          /\ UNCHANGED <<blob, gaveUp>>
       \/ /\ j \notin flag
          /\ Return(j, "fail") /\ gaveUp' = gaveUp \cup {j} /\ UNCHANGED blob
    /\ UNCHANGED <<asked, snap, active, card, noted, starts, cut, overtaken, unheard, crashes>>

FollowCard(j) ==
    /\ at[j] = "follow"
    /\ j \in Card
    /\ \/ j \in flag /\ Return(j, "fail")
       \/ j \notin flag /\ card[j] = "over" /\ \E o \in {"finish", "fail"} : Return(j, o)
    /\ UNCHANGED <<asked, blob, snap, active, card, noted, starts, cut, overtaken, unheard, gaveUp, crashes>>

-----------------------------------------------------------------------------
(* The job service's steps around the handlers *)

Start(j) == JS!JobStart(j) /\ UNCHANGED queueVars

(* Neither kind has an on_finish hook, so only the status matters.           *)
Settle(j) ==
    /\ JS!JobSettle(j, CASE outcome[j] = "again" -> "queued" [] outcome[j] = "finish" -> "done" [] OTHER -> "failed")
    /\ status[j] # "running" => settling' = settling
    /\ outcome' = [outcome EXCEPT ![j] = "none"]
    /\ UNCHANGED <<asked, blob, at, snap, active, card, noted, starts, cut, overtaken, unheard, gaveUp, crashes>>

Finish(j) == (JS!JobFinish(j) \/ JS!JobCancelFinish(j)) /\ UNCHANGED queueVars

Cancel(j) ==
    /\ JS!JobCancel(j)
    /\ snap' = IF blob[j] \in Recorded THEN snap \cup {j} ELSE snap
    /\ unheard' = IF status[j] = "queued" /\ blob[j] \in Recorded THEN unheard \cup {j} ELSE unheard
    /\ UNCHANGED <<asked, blob, at, outcome, active, card, noted, starts, cut, overtaken, gaveUp, crashes>>

(* on_cancel(), on_cancel_card(): by the state cancel() read.                *)
OnCancel(j) ==
    IF j \in snap THEN StopRun(j) ELSE UNCHANGED <<active, card, gaveUp>>

CancelSignal(j) ==
    /\ JS!JobCancelSignal(j)
    /\ OnCancel(j)
    /\ UNCHANGED <<asked, blob, at, outcome, snap, noted, starts, cut, overtaken, unheard, crashes>>

(* The limit of a run is hours, so it has been recorded when it expires.     *)
ExpireSignal(j) ==
    /\ status[j] = "running" /\ at[j] \in {"follow", "seen"} /\ j \notin flag
    /\ JS!JobExpireSignal(j)
    /\ StopRun(j)
    /\ UNCHANGED <<asked, blob, at, outcome, snap, noted, starts, cut, overtaken, unheard, crashes>>

Expire(j) == j \in flag /\ JS!JobExpire(j) /\ UNCHANGED queueVars

(* A run on the agent, or a card, comes to its end.                          *)
RunEnds(h) ==
    /\ Busy(h)
    /\ active' = [active EXCEPT ![h] = NoJob]
    /\ UNCHANGED <<jobVars, asked, blob, at, outcome, snap, card, noted, starts, cut, overtaken, unheard, gaveUp, crashes>>

CardEnds(j) ==
    /\ card[j] \in {"running", "stopping"}
    /\ card' = [card EXCEPT ![j] = "over"]
    /\ UNCHANGED <<jobVars, asked, blob, at, outcome, snap, active, noted, starts, cut, overtaken, unheard, gaveUp, crashes>>

(* The manager restarts: requests, handlers, records and cards are gone,     *)
(* rows and the agents' runs are not.                                        *)
Crash ==
    /\ crashes < MaxCrashes
    /\ crashes' = crashes + 1
    /\ JS!JobCrash
    /\ asked' = [j \in Job |-> IF asked[j] = "no" THEN "no" ELSE "answered"]
    /\ at' = [j \in Job |-> "idle"]
    /\ outcome' = [j \in Job |-> "none"]
    /\ snap' = {}
    /\ noted' = {}
    /\ card' = [j \in Job |-> "none"]
    /\ cut' = cut \cup {j \in Job \ Card :
         /\ starts[j] > 0
         /\ \/ blob[j] \notin Recorded
            \/ status[j] \notin JS!JobLive /\ (at[j] # "idle" \/ cancelling[j] = "signal")}
    /\ UNCHANGED <<blob, active, starts, overtaken, unheard, gaveUp>>

(* resume = "requeue"                                                        *)
Recover(j) == JS!JobRecover(j, "queued") /\ UNCHANGED queueVars

Recovered == JS!JobRecovered /\ UNCHANGED queueVars

Handler(j) ==
    \/ Check(j) \/ Pre(j) \/ Post(j) \/ StartCard(j) \/ Record(j) \/ Landed(j)
    \/ Follow(j) \/ FollowCard(j)

Service(j) ==
    Launch(j) \/ Settle(j) \/ Finish(j) \/ CancelSignal(j) \/ Expire(j) \/ Recover(j)

Next ==
    \/ Crash \/ Recovered
    \/ \E h \in Host : DropNote(h) \/ RunEnds(h)
    \/ \E j \in Job :
         \/ Ask(j) \/ Direct(j) \/ Count(j) \/ Insert(j)
         \/ Start(j) \/ Handler(j) \/ Service(j)
         \/ Cancel(j) \/ ExpireSignal(j) \/ CardEnds(j)

Spec == Init /\ [][Next]_vars

(* A request, a handler and the service come on with a run, the dispatcher   *)
(* comes back to every queued row (QueuedStarts of Jobs), runs on the agent  *)
(* and cards end, and records of ended runs are swept.                       *)
Fairness ==
    /\ WF_vars(Recovered)
    /\ \A j \in Job :
         /\ SF_vars(Start(j))
         /\ WF_vars(Direct(j) \/ Count(j) \/ Insert(j) \/ Handler(j) \/ Service(j) \/ CardEnds(j))
    /\ \A h \in Host : WF_vars(RunEnds(h) \/ (~Busy(h) /\ DropNote(h)))

FairSpec == Spec /\ Fairness

-----------------------------------------------------------------------------
(* A run asked for once is started once on its agent: neither a refusal, a   *)
(* wait, a lost answer nor a restart starts it again.  Only a manager that   *)
(* dies between the agent's yes and set_state() may ask twice.               *)
StartedOnce ==
    \A j \in Job \ Card : starts[j] <= IF j \in cut THEN 2 ELSE 1

(* A run that the queue started is in somebody's hands: its row is live, its *)
(* handler still runs, a cancel is about to stop it, or the manager gave it  *)
(* up in the open (no answer, agent out of reach, failed cancel, restart).   *)
RunHasKeeper ==
    \A j \in Job :
        (active[HostOf[j]] = j \/ card[j] = "running") /\ status[j] # "absent" =>
            \/ status[j] \in JS!JobLive
            \/ thread[j] = "alive" \/ cancelling[j] = "signal"
            \/ j \in gaveUp \cup cut \cup overtaken \cup unheard

(* A run that waits for its host gets its turn and ends, however many wait,  *)
(* also behind a run the agent never confirmed: once no more are asked for,  *)
(* there comes a time when no row is live.                                   *)
WaitersRun == []<>(\A j \in Job : status[j] \notin JS!JobLive)

(* "Jobs keep running when you close the tab or restart the manager [...] and *)
(* can be cancelled" (docs/FEATURES.md): once the cancel of a row and its     *)
(* handler are through, its run is not left going on the agent.               *)
CancelStopsRun ==
    \A j \in Job :
        active[HostOf[j]] = j /\ status[j] = "cancelled" =>
            \/ thread[j] = "alive" \/ cancelling[j] = "signal"
            \/ j \in gaveUp \cup cut \cup overtaken
=============================================================================
