------------------------------ MODULE Autopilot ------------------------------
(***************************************************************************)
(* The autopilot of the manager (autopilot.py, autopilot_planner.py): the  *)
(* reconciler's tick, which observes the hosts, plans for one entry (one   *)
(* model of one provider), runs the actions of the plan on the agents or   *)
(* offers them as proposals, and adapts the routes; the ledger it keeps;   *)
(* and the hosts, which fail, return, and report late.                     *)
(*                                                                         *)
(* The tick and the routes hold one lock, so only the hosts move beside    *)
(* them.  A unit of time is a period of the tick.  Ages stop at the        *)
(* longest one that makes a difference, and Gone is an age of no row.      *)
(* Which of the capable hosts ranks first, saturation, and the budgets     *)
(* beyond "fits or not" are left open.                                     *)
(***************************************************************************)
EXTENDS Integers, FiniteSets, FiniteSetsExt

CONSTANTS
    Host,
    None,
    Fits,       \* hosts that have the capability and room for the model
    MinCopies,  \* min_replicas
    Grace, Cooldown, FreshFor, Backoff, Dwell,  \* BLANK_GRACE_S 90 < 120 < 240 < 300 < DWELL_S 600
    MaxFaults   \* bound: things that happen to the hosts

VARIABLES
    max,        \* max_replicas of the entry
    auto,       \* the entry may act by itself
    live,       \* agent_liveness() of a host
    real,       \* hosts that serve the model
    sample,     \* hosts whose last sample shows the model
    mute,       \* hosts whose server does not answer, or whose sample is old
    pc, want, todo, seen, slow,  \* the tick: its place, max_replicas, plan and placements; a call was made
    proposals,
    acted,      \* ledger: age of last_action_ts
    placed,     \* ledger: age of placed_at
    confirmed,  \* ledger
    blank,      \* ledger: age of blank_since
    backoff,    \* ledger: what is left of backoff_until
    unload,     \* ledger: what is left of unload_backoff
    pin, pool,  \* the routes
    faults

tick == <<pc, want, todo, seen, slow>>
ledger == <<acted, placed, confirmed, blank, backoff, unload>>
routes == <<pin, pool>>
entry == <<max, auto>>
hosts == <<live, real, sample, mute>>
vars == <<entry, hosts, tick, proposals, ledger, routes, faults>>

Gone == 0 - 1
Load == [kind : {"load", "scale_up"}, host : Host]
Unload == [kind : {"scale_down"}, host : Host]

TypeOK ==
    /\ max \in MinCopies..Cardinality(Host) /\ auto \in BOOLEAN
    /\ live \in [Host -> {"live", "stale", "down"}] /\ real \subseteq Host
    /\ sample \subseteq Host /\ mute \subseteq Host
    /\ pc \in {"sleep", "run"} /\ want \in MinCopies..Cardinality(Host) /\ todo \subseteq Load \cup Unload
    /\ proposals \subseteq Load \cup Unload
    /\ seen \subseteq Host /\ slow \in BOOLEAN
    /\ acted \in [Host -> 0..Cooldown] /\ placed \in [Host -> Gone..Dwell]
    /\ confirmed \subseteq Host /\ blank \in [Host -> Gone..Grace]
    /\ backoff \in 0..Backoff /\ unload \in [Host -> 0..Backoff]
    /\ pin \in Host \cup {None} /\ pool \subseteq Host /\ faults \in 0..MaxFaults

(* _empty_ledger()                                                           *)
EmptyLedger(act, row, sure, since, back, unl) ==
    /\ act = [h \in Host |-> Cooldown] /\ row = [h \in Host |-> Gone]
    /\ sure = {} /\ since = [h \in Host |-> Gone] /\ back = 0 /\ unl = [h \in Host |-> 0]

Init ==
    /\ max \in MinCopies..Cardinality(Host) /\ auto \in BOOLEAN
    /\ live = [h \in Host |-> "live"] /\ real = {} /\ sample = {} /\ mute = {}
    /\ pc = "sleep" /\ want = MinCopies /\ todo = {} /\ seen = {} /\ slow = FALSE /\ proposals = {}
    /\ EmptyLedger(acted, placed, confirmed, blank, backoff, unload)
    /\ pin = None /\ pool = {} /\ faults = 0

Rows == {h \in Host : placed[h] # Gone}
Reporting == {h \in Host : live[h] # "down"}
Live == {h \in Host : live[h] = "live"}

-----------------------------------------------------------------------------
(* Observing: _debounce_blank() keeps a confirmed placement through a grace  *)
(* of blank samples: no model, and no answer either.                         *)
Silent == (confirmed \cap Reporting \cap mute) \ sample
Since(h) ==
    IF h \in Silent THEN (IF blank[h] = Gone THEN 0 ELSE blank[h])
    ELSE IF h \in confirmed \cap Reporting THEN Gone ELSE blank[h]
Held == {h \in Silent : Since(h) < Grace}
Placements == (Reporting \cap sample) \cup Held

(* _prune_placed_at(): rows are confirmed or, past the fresh window, dropped *)
(* if the agent is live and does not report the model.                       *)
Kept == {h \in Rows : h \in Placements \/ placed[h] < FreshFor \/ h \notin Live}
Confirmed == (confirmed \cup (Rows \cap Placements)) \cap Kept

(* plan(): what is observed and what is still on its way.                    *)
InFlight(rows, sure) == {h \in rows \cap Reporting : placed[h] < FreshFor} \ sure
Dwells == \E h \in Kept \ Live : placed[h] < Dwell
Able == {h \in (Fits \cap Live) \ mute : acted[h] >= Cooldown}

(* A load for every copy that is missing, as far as hosts are able; one at a *)
(* time while a capable host is not live.                                    *)
Loads(there) ==
    LET able == Able \ there
        need == Min({MinCopies - Cardinality(there), Cardinality(able)})
        cap == IF Fits \subseteq Live THEN need ELSE Min({need, 1})
    IN  IF need <= 0 \/ Dwells THEN {{}}
        ELSE {{[kind |-> "load", host |-> h] : h \in S} : S \in kSubset(cap, able)}

(* _scale_down_target(): not the routed copy if there are several, and the   *)
(* longest placed that may be touched.                                       *)
Age(h) == IF h \in Kept THEN placed[h] ELSE Dwell + 1
Spare ==
    LET others == IF pin \in Placements /\ Cardinality(Placements) > 1 THEN Placements \ {pin} ELSE Placements
        free == {h \in others \cap Live : unload[h] = 0 /\ acted[h] >= Cooldown}
    IN  {h \in free : \A i \in free : Age(h) >= Age(i)}

Downs(there) ==
    IF Placements = there /\ there \subseteq Live /\ Spare # {}
    THEN {{[kind |-> "scale_down", host |-> h]} : h \in Spare} ELSE {{}}
Ups(there) ==
    IF Able \ there # {} THEN {{[kind |-> "scale_up", host |-> h]} : h \in Able \ there} ELSE {{}}

(* A surplus goes; within the range saturation decides.                      *)
ScalesInRange(there) ==                                       \* mutant
    LET n == Cardinality(there) IN
    IF max <= MinCopies \/ n < MinCopies THEN {{}} ELSE IF n > max THEN Downs(there) ELSE {{}}
Scales(there) ==
    LET n == Cardinality(there) IN
    IF n > max THEN Downs(there)
    ELSE IF max <= MinCopies \/ n < MinCopies THEN {{}}
    ELSE {{}} \cup (IF n < max THEN Ups(there) ELSE {}) \cup (IF n > MinCopies THEN Downs(there) ELSE {})

Plans ==
    LET there == Placements \cup InFlight(Kept, Confirmed) IN
    IF backoff > 0 THEN {{}} ELSE {l \cup s : l \in Loads(there), s \in Scales(there)}

(* tick() up to the actions: what may not run by itself becomes a proposal.  *)
Plan ==
    /\ pc = "sleep"
    /\ placed' = [h \in Host |-> IF h \in Kept THEN placed[h] ELSE Gone]
    /\ confirmed' = Confirmed
    /\ blank' = [h \in Host |-> IF h \in Confirmed THEN Since(h) ELSE Gone]
    /\ seen' = Placements
    /\ \E p \in Plans :
         /\ todo' = IF auto THEN p ELSE {}
         /\ proposals' = IF auto THEN proposals \cap p ELSE p
    /\ pc' = "run" /\ want' = max
    /\ UNCHANGED <<entry, hosts, slow, acted, backoff, unload, routes, faults>>

-----------------------------------------------------------------------------
(* _run() and the executor, after a call to the agent that may take long.    *)
Routed(h) == IF max > 1 THEN pool' = pool \cup {h} /\ UNCHANGED pin ELSE pin' = h /\ UNCHANGED pool
Unrouted(h) ==
    IF max > 1 THEN pool' = pool \ {h} /\ UNCHANGED pin
    ELSE pin' = (IF pin = h THEN None ELSE pin) /\ UNCHANGED pool

Noted(h, age) ==
    /\ acted' = [acted EXCEPT ![h] = 0]
    /\ placed' = [placed EXCEPT ![h] = age]
    /\ confirmed' = confirmed \ {h} /\ blank' = [blank EXCEPT ![h] = Gone]
    /\ UNCHANGED <<backoff, unload>>

LoadOk(h) ==
    /\ live[h] # "down"
    /\ real' = real \cup {h} /\ Routed(h) /\ Noted(h, 0) /\ UNCHANGED <<seen, faults>>
UnloadOk(h) ==
    /\ live[h] # "down"
    /\ real' = real \ {h} /\ Unrouted(h) /\ Noted(h, Gone) /\ seen' = seen \ {h} /\ UNCHANGED faults

(* A call that failed may have done its work all the same.                   *)
Fault == faults < MaxFaults /\ faults' = faults + 1
Fails(a) ==
    /\ IF live[a.host] = "down" THEN UNCHANGED faults ELSE Fault
    /\ IF a \in Unload
       THEN /\ unload' = [unload EXCEPT ![a.host] = Backoff] /\ UNCHANGED backoff
            /\ real' \in (IF live[a.host] = "down" THEN {real} ELSE {real, real \ {a.host}})
       ELSE /\ backoff' = Backoff /\ UNCHANGED unload
            /\ real' \in (IF live[a.host] = "down" THEN {real} ELSE {real, real \cup {a.host}})
    /\ UNCHANGED <<acted, placed, confirmed, blank, routes, seen>>

(* A tool run has the host: nothing is done and nothing noted.               *)
Skips == Fault /\ UNCHANGED <<real, ledger, routes, seen>>

Perform(a) ==
    \/ a \in Load /\ LoadOk(a.host)
    \/ a \in Unload /\ UnloadOk(a.host)
    \/ Fails(a)
    \/ Skips

Run(a) ==
    /\ pc = "run" /\ a \in todo /\ todo' = todo \ {a}
    /\ Perform(a)
    /\ slow' = TRUE
    /\ UNCHANGED <<entry, live, sample, mute, pc, want, proposals>>

(* apply() and dismiss() of a proposal, between two ticks.                   *)
Apply(a) ==
    /\ pc = "sleep" /\ a \in proposals /\ proposals' = proposals \ {a}
    /\ Perform(a)
    /\ UNCHANGED <<entry, live, sample, mute, pc, want, todo, slow>>

Dismiss(a) ==
    /\ pc = "sleep" /\ a \in proposals /\ proposals' = proposals \ {a}
    /\ UNCHANGED <<entry, hosts, tick, ledger, routes, faults>>

(* route_sync_writes(), and the sleep after it.  A tick that called an agent *)
(* may have been as long as the fresh window allows.                         *)
Aged(f, d, top) == [h \in Host |-> IF f[h] = Gone THEN Gone ELSE Min({f[h] + d, top})]
Left(n, d) == Max({n - d, 0})

Sync ==
    /\ pc = "run" /\ todo = {}
    /\ LET there == seen \cup InFlight(Rows, confirmed) IN
       IF there = {} THEN UNCHANGED routes
       ELSE /\ pool' = IF want > 1 THEN pool \cup there ELSE pool
            /\ IF want > 1 /\ Cardinality(there) > 1 THEN pin' = None
               ELSE IF pin \in there THEN pin' = pin ELSE pin' \in there
    /\ \E d \in (IF slow THEN {1, FreshFor - 1} ELSE {1}) :
         /\ acted' = Aged(acted, d, Cooldown) /\ placed' = Aged(placed, d, Dwell)
         /\ blank' = Aged(blank, d, Grace)
         /\ backoff' = Left(backoff, d) /\ unload' = [h \in Host |-> Left(unload[h], d)]
    /\ sample' = (real \cap (Live \ mute)) \cup (sample \ (Live \ mute))
    /\ pc' = "sleep" /\ seen' = {} /\ slow' = FALSE
    /\ UNCHANGED <<entry, live, real, mute, want, todo, proposals, confirmed, faults>>

(* The manager restarts: the ledger and the proposals were in memory.        *)
Restart ==
    /\ Fault
    /\ pc' = "sleep" /\ todo' = {} /\ seen' = {} /\ slow' = FALSE /\ proposals' = {}
    /\ EmptyLedger(acted', placed', confirmed', blank', backoff', unload')
    /\ UNCHANGED <<entry, hosts, want, routes>>

-----------------------------------------------------------------------------
(* The hosts.  A host that answers sends a sample within the period (Sync)   *)
(* and perhaps another; one that does not shows nothing, or its last sample. *)
Shown(h) == IF h \in real THEN sample \cup {h} ELSE sample \ {h}

Sample(h) ==
    /\ h \in Live /\ sample' = Shown(h) /\ mute' = mute \ {h}
    /\ UNCHANGED <<entry, live, real, tick, proposals, ledger, routes, faults>>

NoAnswer(h) ==
    /\ h \in Live \ mute /\ Fault
    /\ mute' = mute \cup {h} /\ sample' \in {sample, sample \ {h}}
    /\ UNCHANGED <<entry, live, real, tick, proposals, ledger, routes>>

Quiet(h) ==
    /\ \/ live[h] = "live" /\ Fault /\ live' = [live EXCEPT ![h] = "stale"] /\ UNCHANGED mute
       \/ live[h] = "stale" /\ live' = [live EXCEPT ![h] = "down"] /\ mute' = mute \cup {h} /\ UNCHANGED faults
    /\ real' \in {real, real \ {h}}
    /\ UNCHANGED <<entry, sample, tick, proposals, ledger, routes>>

Return(h) ==
    /\ live[h] # "live" /\ live' = [live EXCEPT ![h] = "live"]
    /\ UNCHANGED <<entry, real, sample, mute, tick, proposals, ledger, routes, faults>>

(* Somebody loads or unloads the model, or changes the entry.                *)
Meddle(h) ==
    /\ Fault /\ real' \in {real \cup {h}, real \ {h}} \ {real}
    /\ UNCHANGED <<entry, live, sample, mute, tick, proposals, ledger, routes>>

SetState ==
    /\ Fault
    /\ max' \in MinCopies..Cardinality(Host) /\ auto' \in BOOLEAN /\ entry' # entry
    /\ UNCHANGED <<hosts, tick, proposals, ledger, routes>>

TickNext == Plan \/ (\E a \in todo : Run(a)) \/ Sync
Next ==
    \/ TickNext
    \/ \E a \in proposals : Apply(a) \/ Dismiss(a)
    \/ \E h \in Host : Sample(h) \/ NoAnswer(h) \/ Quiet(h) \/ Return(h) \/ Meddle(h)
    \/ SetState \/ Restart

(* The thread ticks on; hosts come back, and their servers answer again.     *)
Recover == \E h \in Host : Return(h) \/ (h \in mute /\ Sample(h))
Fairness == WF_vars(TickNext) /\ WF_vars(Recover)
Spec == Init /\ [][Next]_vars
FairSpec == Spec /\ Fairness

-----------------------------------------------------------------------------
(* An entry that may act by itself ends with as many copies as it asks for,  *)
(* on live hosts, and a route to one of them; and it stays so: failed loads  *)
(* that loaded, hosts that went and came back with the model, blank samples  *)
(* and changes by others leave neither a missing nor a surplus copy.         *)
Served ==
    /\ MinCopies <= Cardinality(real) /\ Cardinality(real) <= max
    /\ real \subseteq Live
    /\ pin \in real \/ (max > 1 /\ real \subseteq pool)
Converges == <>[](auto => Served)
==============================================================================
