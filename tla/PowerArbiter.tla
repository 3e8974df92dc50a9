---------------------------- MODULE PowerArbiter ----------------------------
(***************************************************************************)
(* The agent's power arbiter (agent/providers/power_arbiter.py), the       *)
(* residency tick that drives its policy (agent/providers/residency.py)    *)
(* and the callers that hold a profile: benchmark and autotune runs and    *)
(* the manual switch (agent/providers/llama.py).                           *)
(*                                                                         *)
(* A reload of the configuration replaces the arbiter: generation g + 1    *)
(* takes over from g, whose worker may still be switching.  An action is   *)
(* one critical section of an arbiter's _cv, or what its worker does to    *)
(* the host between two of them.                                           *)
(***************************************************************************)
EXTENDS Naturals, FiniteSets

CONSTANTS
    Run,        \* benchmark and autotune runs, by the name they hold under
    Panel,      \* users of the manual switch
    Sample,     \* what the providers report: [models, servers]
    Mode,       \* modes select_mode may return on a reload
    Dwell,      \* dwell_ticks
    Cap,        \* max_switches_per_min
    UnknownMax, \* POWER_UNKNOWN_TICKS
    MaxGen,     \* bound: arbiters, one plus the reloads
    MaxMishaps  \* bound: failed switches, failed readbacks and record writes

ASSUME ArbiterAssumption ==
    /\ {Dwell, Cap, UnknownMax, MaxGen} \subseteq Nat \ {0}
    /\ MaxMishaps \in Nat
    /\ Panel \cap Run = {}
    /\ Mode \subseteq {"full", "observe", "disabled"}

VARIABLES
    arb,      \* the arbiters' fields, by generation
    thread,   \* the worker of each generation
    cur,      \* _ARBITER
    reload,   \* where _reload_config is: mode of the arbiter it builds, or "none"
    host,     \* the profile the host is in
    record,   \* applied_profile of the durable record
    cl,       \* the callers
    tick,     \* the collector's residency tick
    overlap,  \* a reload recovered while the old worker was about to switch
    leaked,   \* runs whose hold was taken or dropped on a replaced or disabled arbiter
    mishaps

vars == <<arb, thread, cur, reload, host, record, cl, tick, overlap, leaked, mishaps>>

Gen == 1..MaxGen
Profile == {"performance", "powersave"}
NoProfile == "none"
MaybeProfile == Profile \cup {NoProfile}
Caller == Run \cup Panel
Outcome == {"verified", "unverifiable", "failed"}
MaybeOutcome == Outcome \cup {"none"}
Attempt == [to : MaybeProfile, outcome : MaybeOutcome]
NoAttempt == [to |-> NoProfile, outcome |-> "none"]

(* A new PowerArbiter.  `jobs` are the holders of the job hold, which is     *)
(* always for performance; `manual` is the manual hold.  `recent` counts the *)
(* entries of _switch_times within the last minute, `retry` says whether     *)
(* _retry_at is unset, ahead or reached, `asleep` that the worker waits      *)
(* without a timeout; `target` and `result` are locals of _apply().          *)
New(mode) ==
    [mode |-> mode, jobs |-> {}, manual |-> NoProfile, policy |-> NoProfile,
     pending |-> NoProfile, count |-> 0, seen |-> "none",
     applied |-> NoProfile, outcome |-> "none", settled |-> "none",
     recent |-> 0, retry |-> "none", busy |-> FALSE, stop |-> FALSE, asleep |-> FALSE,
     target |-> NoProfile, result |-> "none"]

Aggregates == {"active", "loading", "sleeping", "idle", "off", "unknown"}

Modes == {"full", "observe", "disabled"}
Arbiter ==
    [mode : Modes, jobs : SUBSET Run, manual : MaybeProfile, policy : MaybeProfile,
     pending : MaybeProfile, count : 0..Dwell, seen : Aggregates \cup {"none"},
     applied : MaybeProfile, outcome : MaybeOutcome, settled : MaybeOutcome,
     recent : 0..Cap, retry : {"none", "ahead", "reached"},
     busy : BOOLEAN, stop : BOOLEAN, asleep : BOOLEAN,
     target : MaybeProfile, result : MaybeOutcome]
Call ==
    [at : {"idle", "waiting", "running", "unheld"}, gen : Gen, want : MaybeProfile,
     switch : Attempt, defer : MaybeProfile, deferLast : BOOLEAN]

TypeOK ==
    /\ arb \in [Gen -> Arbiter]
    /\ thread \in [Gen -> {"none", "joining", "loop", "apply", "ran", "ended"}]
    /\ cur \in Gen
    /\ reload \in [at : {"none", "stopped", "recovered"}, mode : Modes]
    /\ host \in Profile /\ record \in MaybeProfile
    /\ cl \in [Caller -> Call]
    /\ tick \in [gen : Gen, unknown : 0..UnknownMax]
    /\ overlap \in BOOLEAN /\ leaked \subseteq Run /\ mishaps \in 0..MaxMishaps

-----------------------------------------------------------------------------
(* _effective(): a job's hold before the manual one before the policy.       *)
Owner(a) ==
    IF a.jobs # {} THEN "job"
    ELSE IF a.manual # NoProfile THEN "manual"
    ELSE IF a.policy # NoProfile THEN "policy" ELSE "none"

Effective(a) ==
    CASE Owner(a) = "job" -> "performance"
      [] Owner(a) = "manual" -> a.manual
      [] OTHER -> a.policy

Notify(a) == [a EXCEPT !.asleep = FALSE]

(* Readback of a profile, as its check functions grade the host: nothing     *)
(* readable leaves it unverifiable.                                          *)
Grade(h, p) == IF h = p THEN "verified" ELSE "failed"

(* Whether _loop finds nothing to switch, and _apply's view of the cap.      *)
Converged(a) == Effective(a) \in {NoProfile, a.applied}
Capped(a) == a.recent >= Cap

(* recover(): the record is adopted unless the host reads otherwise.         *)
Recovered(a, rec, grade) ==
    IF rec = NoProfile \/ grade = "failed" THEN a
    ELSE [a EXCEPT !.applied = rec, !.outcome = grade, !.settled = grade]

(* release() of one run's hold; the others' stay.                            *)
Released(a, c) == Notify([a EXCEPT !.jobs = @ \ {c}])

(* adopt_holds().                                                            *)
AdoptedManual(a, old) == [a EXCEPT !.manual = old.manual, !.seen = old.seen]
Adopted(a, old) == [a EXCEPT !.jobs = old.jobs, !.manual = old.manual, !.seen = old.seen]

-----------------------------------------------------------------------------
(* aggregate(), reconcile() and desired_profile() of residency.py.           *)
Aggregate(s) ==
    CASE "loaded" \in s.models -> "active"
      [] "loaded" \notin s.models /\ s.models \cap {"loading", "downloading"} # {} -> "loading"
      [] s.models \cap {"loaded", "loading", "downloading"} = {} /\ "sleeping" \in s.models -> "sleeping"
      [] OTHER -> IF s.servers = {} \/ "unknown" \in s.servers THEN "unknown"
                  ELSE IF "up" \in s.servers THEN "idle" ELSE "off"

UnknownTicks(agg, before) ==
    IF agg # "unknown" THEN 0 ELSE IF before < UnknownMax THEN before + 1 ELSE before

DesiredProfile(agg, unknown) ==
    CASE agg \in {"active", "loading"} -> "performance"
      [] agg \in {"sleeping", "idle", "off"} -> "powersave"
      [] OTHER -> IF unknown >= UnknownMax THEN "powersave" ELSE "hold"

(* on_aggregate(): a changed aggregate releases the manual hold.             *)
OnAggregate(a, agg) ==
    IF a.seen \notin {"none", agg} /\ a.manual # NoProfile
    THEN Notify([a EXCEPT !.manual = NoProfile, !.seen = agg])
    ELSE [a EXCEPT !.seen = agg]

(* set_policy(): a profile becomes the policy after Dwell ticks in a row.    *)
SetPolicySilent(a, p) ==
    IF p = "hold" THEN a ELSE [a EXCEPT !.pending = p, !.count = Dwell, !.policy = p]
SetPolicy(a, p) ==
    LET n == IF a.pending = p THEN a.count + 1 ELSE 1
        b == [a EXCEPT !.pending = p, !.count = IF n < Dwell THEN n ELSE Dwell]
    IN  IF p = "hold" THEN a
        ELSE IF n >= Dwell THEN Notify([b EXCEPT !.policy = p]) ELSE b

-----------------------------------------------------------------------------
Set(g, a) == arb' = [arb EXCEPT ![g] = a]
At(g, where) == thread' = [thread EXCEPT ![g] = where]
Calls(c, r) == cl' = [cl EXCEPT ![c] = r]
Mishap == mishaps < MaxMishaps /\ mishaps' = mishaps + 1
LockFree == reload.at = "none"
Caller0 == [at |-> "idle", gen |-> 1, want |-> NoProfile, switch |-> NoAttempt,
            defer |-> NoProfile, deferLast |-> FALSE]
In(where, g) == [Caller0 EXCEPT !.at = where, !.gen = g]
Waiting(g) == {c \in Caller : cl[c].at = "waiting" /\ cl[c].gen = g}

(* _worker() of start(): a predecessor that is still alive is waited out.    *)
JoinAtOnce(g) ==
    /\ thread[g] = "joining"
    /\ At(g, "loop")
    /\ UNCHANGED <<arb, cur, reload, host, record, cl, tick, overlap, leaked, mishaps>>
Join(g) ==
    /\ thread[g] = "joining"
    /\ g > 1 => thread[g - 1] = "ended"
    /\ At(g, "loop")
    /\ UNCHANGED <<arb, cur, reload, host, record, cl, tick, overlap, leaked, mishaps>>

(* _loop() with nothing to switch: the worker waits for a notification.      *)
LoopWait(g) ==
    LET a == arb[g] IN
    /\ thread[g] = "loop" /\ ~a.asleep /\ ~a.stop
    /\ Converged(a) \/ a.mode # "full"
    /\ Set(g, [a EXCEPT !.asleep = TRUE,
                        !.retry = IF Converged(a) THEN "none" ELSE @,
                        !.outcome = IF Converged(a) /\ @ = "failed" /\ a.applied # NoProfile
                                    THEN a.settled ELSE @])
    /\ UNCHANGED <<thread, cur, reload, host, record, cl, tick, overlap, leaked, mishaps>>

(* _loop() takes the desired profile, once a retry deadline has passed.      *)
LoopTake(g) ==
    LET a == arb[g] IN
    /\ thread[g] = "loop" /\ ~a.asleep /\ ~a.stop
    /\ ~Converged(a) /\ a.mode = "full" /\ a.retry # "ahead"
    /\ Set(g, [a EXCEPT !.busy = TRUE, !.target = Effective(a)])
    /\ At(g, "apply")
    /\ UNCHANGED <<cur, reload, host, record, cl, tick, overlap, leaked, mishaps>>

LoopEnd(g) ==
    /\ thread[g] = "loop" /\ ~arb[g].asleep /\ arb[g].stop
    /\ At(g, "ended")
    /\ UNCHANGED <<arb, cur, reload, host, record, cl, tick, overlap, leaked, mishaps>>

(* _apply() at the switch cap.                                               *)
Defer(g) ==
    LET a == arb[g] IN
    /\ thread[g] = "apply" /\ Capped(a)
    /\ Set(g, Notify([a EXCEPT !.retry = "ahead", !.busy = FALSE, !.target = NoProfile]))
    /\ At(g, "loop")
    /\ cl' = [c \in Caller |-> IF c \in Waiting(g)
                               THEN [cl[c] EXCEPT !.defer = a.target, !.deferLast = TRUE] ELSE cl[c]]
    /\ UNCHANGED <<cur, reload, host, record, tick, overlap, leaked, mishaps>>

(* _switch(): the unit is restarted and read back.  One that fails or times  *)
(* out may have changed the host all the same; one that reads as neither     *)
(* profile is unverifiable.                                                  *)
Switch(g) ==
    LET a == arb[g] IN
    /\ thread[g] = "apply" /\ ~Capped(a)
    /\ \/ /\ host' = a.target
          /\ Set(g, [a EXCEPT !.result = "verified"])
          /\ UNCHANGED mishaps
       \/ /\ Mishap
          /\ host' \in {host, a.target}
          /\ \E r \in {"failed", "unverifiable"} : Set(g, [a EXCEPT !.result = r])
    /\ At(g, "ran")
    /\ UNCHANGED <<cur, reload, record, cl, tick, overlap, leaked>>

(* The rest of _apply(): the attempt is counted and its outcome kept for     *)
(* those who wait, the record is written, if the disk lets it be, and the    *)
(* worker is no longer busy.                                                 *)
Commit(g) ==
    LET a == arb[g]
        b == [a EXCEPT !.recent = @ + 1, !.outcome = a.result, !.busy = FALSE,
                       !.target = NoProfile, !.result = "none"]
        done == IF a.result = "failed" THEN [b EXCEPT !.retry = "ahead"]
                ELSE [b EXCEPT !.applied = a.target, !.settled = a.result, !.retry = "none"]
    IN
    /\ thread[g] = "ran"
    /\ Set(g, Notify(done))
    /\ At(g, "loop")
    /\ cl' = [c \in Caller |->
                IF c \in Waiting(g)
                THEN [cl[c] EXCEPT !.switch = [to |-> a.target, outcome |-> a.result], !.deferLast = FALSE]
                ELSE cl[c]]
    /\ \/ record' = done.applied /\ UNCHANGED mishaps
       \/ Mishap /\ UNCHANGED record
    /\ UNCHANGED <<cur, reload, host, tick, overlap, leaked>>

(* Time: a retry deadline passes; a switch becomes older than a minute.      *)
BackoffOver(g) ==
    /\ arb[g].retry = "ahead" /\ thread[g] = "loop"
    /\ Set(g, [arb[g] EXCEPT !.retry = "reached"])
    /\ UNCHANGED <<thread, cur, reload, host, record, cl, tick, overlap, leaked, mishaps>>

WindowSlides(g) ==
    /\ arb[g].recent > 0 /\ thread[g] # "ended"
    /\ Set(g, [arb[g] EXCEPT !.recent = @ - 1])
    /\ UNCHANGED <<thread, cur, reload, host, record, cl, tick, overlap, leaked, mishaps>>

Worker(g) ==
    \/ Join(g) \/ LoopWait(g) \/ LoopTake(g) \/ LoopEnd(g)
    \/ Defer(g) \/ Switch(g) \/ Commit(g)

-----------------------------------------------------------------------------
(* configure() of a reload, under _LOCK: stop the old arbiter and wait for   *)
(* its worker, at most five seconds; recover from the record; take over the  *)
(* holds, start the worker and publish the new arbiter.                      *)
ReloadStop(m) ==
    /\ LockFree /\ cur < MaxGen
    /\ reload' = [at |-> "stopped", mode |-> m]
    /\ Set(cur, Notify([arb[cur] EXCEPT !.stop = TRUE]))
    /\ UNCHANGED <<thread, cur, host, record, cl, tick, overlap, leaked, mishaps>>

ReloadRecover ==
    /\ reload.at = "stopped"
    /\ \/ Set(cur + 1, Recovered(New(reload.mode), record, Grade(host, record))) /\ UNCHANGED mishaps
       \/ Mishap /\ Set(cur + 1, Recovered(New(reload.mode), record, "unverifiable"))
    /\ reload' = [reload EXCEPT !.at = "recovered"]
    /\ overlap' = (overlap \/ thread[cur] = "apply")
    /\ UNCHANGED <<thread, cur, host, record, cl, tick, leaked>>

ReloadAdopt ==
    /\ reload.at = "recovered"
    /\ Set(cur + 1, Adopted(arb[cur + 1], arb[cur]))
    /\ At(cur + 1, "joining")
    /\ cur' = cur + 1
    /\ reload' = [reload EXCEPT !.at = "none"]
    /\ UNCHANGED <<host, record, cl, tick, overlap, leaked, mishaps>>

(* The agent dies and starts again: only the host and the record survive.    *)
Restart ==
    /\ Mishap
    /\ arb' = [g \in Gen |-> IF g = 1 THEN Recovered(New("full"), record, Grade(host, record))
                             ELSE New("full")]
    /\ thread' = [g \in Gen |-> IF g = 1 THEN "loop" ELSE "none"]
    /\ cur' = 1
    /\ reload' = [at |-> "none", mode |-> "full"]
    /\ cl' = [c \in Caller |-> Caller0]
    /\ tick' = [gen |-> 1, unknown |-> 0]
    /\ overlap' = FALSE /\ leaked' = {}
    /\ UNCHANGED <<host, record>>

-----------------------------------------------------------------------------
(* The latest attempt for the profile made since the request, a switch or a  *)
(* deferral (_latest_attempt).                                               *)
LatestAttempt(r) ==
    LET switched == r.switch.to = r.want
        deferred == r.defer = r.want
    IN  IF deferred /\ (r.deferLast \/ ~switched) THEN "deferred"
        ELSE IF switched THEN r.switch.outcome ELSE "none"

OwnerOf(c) == IF c \in Panel THEN "manual" ELSE "job"
HeldBy(a, c) == IF c \in Panel THEN a.manual ELSE IF a.jobs = {} THEN NoProfile ELSE "performance"

(* _wait_settled(): what the call returns now, "none" while it waits.        *)
AnswerBusy(a, c, r) ==
    IF a.mode = "full" /\ LatestAttempt(r) = "none" /\ a.applied = r.want THEN "verified" ELSE "none"
Answer(a, c, r) ==
    IF a.mode # "full" THEN "skipped"
    ELSE IF a.busy THEN "none"
    ELSE IF LatestAttempt(r) # "none" THEN LatestAttempt(r)
    ELSE IF HeldBy(a, c) # r.want \/ Owner(a) # OwnerOf(c) THEN "skipped"
    ELSE IF a.applied # r.want THEN "none"
    ELSE IF a.outcome \in {"verified", "unverifiable"} THEN a.outcome ELSE "verified"

(* get() is a step of its own in the code, and its result may be used after  *)
(* a reload has replaced it: a caller uses any arbiter published since the   *)
(* one it used last.                                                         *)
Fetched(r) == r.gen..cur

(* A run starts (_perf_job_set, "awake"): request(), which sets its hold and *)
(* makes it wait, unless the arbiter is disabled.                            *)
Take(c, g) ==
    /\ cl[c].at = "idle" /\ g \in Fetched(cl[c])
    /\ IF arb[g].mode = "disabled"
       THEN Calls(c, In("unheld", g)) /\ UNCHANGED <<arb, leaked>>
       ELSE /\ Calls(c, [In("waiting", g) EXCEPT !.want = "performance"])
            /\ Set(g, Notify([arb[g] EXCEPT !.jobs = @ \cup {c}]))
            /\ leaked' = IF g = cur THEN leaked \ {c} ELSE leaked \cup {c}
    /\ UNCHANGED <<thread, cur, reload, host, record, tick, overlap, mishaps>>

(* The manual switch (llama_bench_perf_mode): request() in full mode;        *)
(* "auto", also in observe mode, release()s the hold.                        *)
Press(c, p, g) ==
    /\ cl[c].at = "idle" /\ g \in Fetched(cl[c])
    /\ arb[g].mode = "full" \/ (arb[g].mode = "observe" /\ p = NoProfile)
    /\ Set(g, Notify([arb[g] EXCEPT !.manual = p]))
    /\ Calls(c, IF p = NoProfile THEN In("idle", g) ELSE [In("waiting", g) EXCEPT !.want = p])
    /\ UNCHANGED <<thread, cur, reload, host, record, tick, overlap, leaked, mishaps>>

(* The call returns with the answer of _wait_settled(), or at its deadline;  *)
(* a run goes on whatever the answer.                                        *)
Return(c) ==
    /\ cl[c].at = "waiting"
    /\ Calls(c, In(IF c \in Panel THEN "idle" ELSE "running", cl[c].gen))
    /\ UNCHANGED <<arb, thread, cur, reload, host, record, tick, overlap, leaked, mishaps>>

Settled(c) == Answer(arb[cl[c].gen], c, cl[c]) # "none" /\ Return(c)
TimedOut(c) == Answer(arb[cl[c].gen], c, cl[c]) = "none" /\ Return(c)

(* The run is over (_perf_job_set, "sleep"): release() of its own hold,      *)
(* unless the arbiter is disabled.                                           *)
Release(c, g) ==
    /\ cl[c].at \in {"running", "unheld"} /\ g \in Fetched(cl[c])
    /\ Calls(c, In("idle", g))
    /\ IF arb[g].mode = "disabled"
       THEN UNCHANGED arb
       ELSE Set(g, Released(arb[g], c))
    /\ leaked' = IF g = cur /\ arb[g].mode # "disabled" THEN leaked \ {c}
                 ELSE IF c \in arb[cur].jobs THEN leaked \cup {c} ELSE leaked
    /\ UNCHANGED <<thread, cur, reload, host, record, tick, overlap, mishaps>>

(* _reconcile_residency(), once per collector tick.                          *)
Tick(s, g) ==
    LET agg == Aggregate(s)
        unknown == UnknownTicks(agg, tick.unknown)
    IN
    /\ g \in Fetched(tick)
    /\ tick' = [gen |-> g, unknown |-> unknown]
    /\ Set(g, SetPolicy(OnAggregate(arb[g], agg), DesiredProfile(agg, unknown)))
    /\ UNCHANGED <<thread, cur, reload, host, record, cl, overlap, leaked, mishaps>>

-----------------------------------------------------------------------------
(* The agent has just started.                                               *)
Init ==
    /\ host \in Profile
    /\ record \in MaybeProfile
    /\ arb = [g \in Gen |-> IF g = 1 THEN Recovered(New("full"), record, Grade(host, record))
                            ELSE New("full")]
    /\ thread = [g \in Gen |-> IF g = 1 THEN "loop" ELSE "none"]
    /\ cur = 1
    /\ reload = [at |-> "none", mode |-> "full"]
    /\ cl = [c \in Caller |-> Caller0]
    /\ tick = [gen |-> 1, unknown |-> 0]
    /\ overlap = FALSE /\ leaked = {} /\ mishaps = 0

Next ==
    \/ \E g \in Gen : Worker(g) \/ BackoffOver(g) \/ WindowSlides(g)
    \/ \E m \in Mode : ReloadStop(m)
    \/ ReloadRecover \/ ReloadAdopt \/ Restart
    \/ \E c \in Caller : Settled(c) \/ TimedOut(c)
    \/ \E g \in Gen :
         \/ \E c \in Run : Take(c, g) \/ Release(c, g)
         \/ \E c \in Panel, p \in MaybeProfile : Press(c, p, g)
         \/ \E s \in Sample : Tick(s, g)

Spec == Init /\ [][Next]_vars

(* Workers and reloads go on, and time passes.                               *)
FairSpec ==
    /\ Spec
    /\ \A g \in Gen : WF_vars(Worker(g)) /\ WF_vars(BackoffOver(g)) /\ WF_vars(WindowSlides(g))
    /\ WF_vars(ReloadRecover \/ ReloadAdopt)

-----------------------------------------------------------------------------
(* "The only writer of the performance/powersave units": no two workers are  *)
(* between taking a profile and the end of its switch, across any reloads.   *)
OneWriter ==
    \A g, k \in Gen :
        thread[g] \in {"apply", "ran"} /\ thread[k] \in {"apply", "ran"} => g = k

(* A run that asked the current arbiter keeps its hold until it leaves, also *)
(* while other runs release theirs and reloads replace the arbiter.          *)
HoldKept ==
    \A c \in Run :
        cl[c].at \in {"waiting", "running"} /\ c \notin leaked => c \in arb[cur].jobs

(* A hold ends with its run, unless the run dropped it on an arbiter that    *)
(* had been replaced or is disabled.                                         *)
HoldEnds ==
    \A c \in Run : c \in arb[cur].jobs /\ cl[c].at = "idle" => c \in leaked

(* A run is held exactly as long as it lasts.                                *)
HoldsFit == HoldKept /\ HoldEnds

(* A call that answers "verified" tells the truth: the host is in the        *)
(* profile, if no switch or readback went wrong, no reload read the host     *)
(* under a worker about to switch, and the arbiter was not replaced.         *)
VerifiedIsTrue ==
    [][\A c \in Caller :
         /\ cl[c].at = "waiting" /\ Answer(arb[cl[c].gen], c, cl[c]) = "verified" /\ Settled(c)
         /\ mishaps = 0 /\ ~overlap /\ cl[c].gen = cur
         => host = cl[c].want]_vars

(* The worker converges: a profile that stays desired is applied for good,   *)
(* whatever failed, was deferred or was handed over before.                  *)
Settles ==
    \A p \in Profile :
        <>[](Effective(arb[cur]) = p /\ arb[cur].mode = "full") => <>[](arb[cur].applied = p)
=============================================================================
