----------------------------- MODULE Dispatcher -----------------------------
(***************************************************************************)
(* NotificationDispatcher of the alarm engine: which channels an alert's   *)
(* events reach, and the claims by which one member of an incident speaks  *)
(* for all of them (#215).                                                 *)
(*                                                                         *)
(* An event becomes an asyncio task.  Tasks start in the order they were   *)
(* created, and _send_notifications_async does not give up the loop before *)
(* it waits for the sends: everything up to there is Begin, each channel's *)
(* answer is Send, and what follows the sends is End.  Between them other  *)
(* tasks run, of the same alert too.                                       *)
(*                                                                         *)
(* Time is kept as what the code asks of it: whether a policy's            *)
(* repeat_interval for an alert is still running, and whether the last     *)
(* sweep is less than _SWEEP_MIN_INTERVAL_S old.  Acknowledged and ignored *)
(* are one status here, "handled".                                         *)
(***************************************************************************)
EXTENDS Naturals, Sequences, FiniteSets, FiniteSetsExt

CONSTANTS
    Alert,
    Policy,       \* enabled policies with at least one channel
    Channel,
    Matches,      \* [Policy -> SUBSET Alert]: matches_alert()
    ChannelsOf,   \* [Policy -> SUBSET Channel]
    Enabled,      \* channels that are loaded and enabled
    MinCount,     \* [Policy -> Nat]: min_alarm_count
    Repeats,      \* policies with repeat_interval_minutes > 0
    OnClear,      \* policies with notify_on_clear
    PerIncident,  \* correlation.notify_per_incident
    None,
    Slots,        \* bound: dispatches waiting for their sends
    MaxReady,     \* bound: dispatches created and not started
    MaxActs       \* bound: operators' actions and restarts of the engine

Ongoing == {"active", "handled"}
Event == [alert : Alert, event : {"firing", "resolved", "acknowledged"},
          status : Ongoing \cup {"closed"}]
Dispatch == [alert : Alert, event : {"firing", "resolved"},
             todo : SUBSET Enabled, claim : Alert \cup {None}]

ASSUME DispatcherAssumption == None \notin Alert \cup Dispatch

VARIABLES
    status,   \* the alert table
    inc,      \* Alert.incident_id: the alert the incident began with
    seen,     \* what evaluate_all()'s list says of an alert whose turn is to come
    ready,    \* dispatch tasks that have not started
    breach,   \* _breach_count, up to where every min_alarm_count is next
    first,    \* _dispatched_first
    recent,   \* keys whose _last_dispatch_ts is within the repeat interval
    claims,   \* keys of _incident_dispatched
    ok,       \* _send_ok
    swept,    \* the last sweep is too recent for another
    run,      \* [slot -> the dispatch that waits for its sends]
    told,     \* history: incidents with a firing notification delivered
    mixed,    \* history: incidents whose claim was kept or given up for another's sake
    acts

table == <<status, inc, seen>>
memory == <<breach, first, recent, claims, ok, swept>>
vars == <<table, ready, memory, run, told, mixed, acts>>

Slot == 1..Slots
Key == Policy \X Alert
TopCount == Max({MinCount[p] : p \in Policy}) - 1

TypeOK ==
    /\ status \in [Alert -> Ongoing \cup {"none", "closed"}]
    /\ inc \in [Alert -> Alert]
    /\ seen \in [Alert -> Ongoing \cup {"none"}]
    /\ ready \in Seq(Event) /\ Len(ready) <= MaxReady
    /\ breach \in [Alert -> 0..TopCount]
    /\ first \subseteq Key /\ recent \subseteq first
    /\ {claims, ok, told, mixed} \subseteq SUBSET Alert
    /\ swept \in BOOLEAN
    /\ run \in [Slot -> Dispatch \cup {None}]
    /\ acts \in 0..MaxActs

Init ==
    /\ status = [a \in Alert |-> "none"] /\ inc = [a \in Alert |-> a]
    /\ seen = [a \in Alert |-> "none"]
    /\ ready = <<>> /\ breach = [a \in Alert |-> 0]
    /\ first = {} /\ recent = {} /\ claims = {} /\ ok = {} /\ swept = FALSE
    /\ run = [t \in Slot |-> None] /\ told = {} /\ mixed = {} /\ acts = 0

-----------------------------------------------------------------------------
(* Where events come from: new alerts, the turns of the evaluation cycle,    *)
(* which decides by the list it read when it began, and the routes.          *)

Spawn(a, event, s) ==
    /\ Len(ready) < MaxReady
    /\ ready' = Append(ready, [alert |-> a, event |-> event, status |-> s])

Rest == UNCHANGED <<memory, run, told, mixed>>
Act == acts < MaxActs /\ acts' = acts + 1

(* process_alert: the alert joins the incident of an ongoing alert of its    *)
(* host or begins its own, and inside an ignore window it is born ignored.   *)
Create(a) ==
    /\ status[a] = "none"
    /\ \E s \in Ongoing, i \in {a} \cup {inc[b] : b \in {b \in Alert : status[b] \in Ongoing}} :
          /\ status' = [status EXCEPT ![a] = s]
          /\ inc' = [inc EXCEPT ![a] = i]
          /\ Spawn(a, "firing", s)
    /\ UNCHANGED <<seen, acts>> /\ Rest

(* B: the alerts whose metric will still breach or be found recovered.       *)
CycleStart ==
    /\ \A a \in Alert : seen[a] = "none"
    /\ \E a \in Alert : status[a] \in Ongoing
    /\ \E B \in SUBSET {a \in Alert : status[a] \in Ongoing} :
          seen' = [a \in Alert |-> IF a \in B THEN status[a] ELSE "none"]
    /\ UNCHANGED <<status, inc, ready, acts>> /\ Rest

TurnOver(a) == seen[a] # "none" /\ seen' = [seen EXCEPT ![a] = "none"] /\ UNCHANGED <<inc, acts>>

StillFiring(a) ==
    /\ TurnOver(a)
    /\ Spawn(a, "firing", seen[a])
    /\ UNCHANGED status /\ Rest

AutoResolve(a) ==
    /\ TurnOver(a)
    /\ status' = [status EXCEPT ![a] = "closed"]
    /\ Spawn(a, "resolved", "closed")
    /\ Rest

SetStatus(a, from, to) ==
    /\ status[a] \in from
    /\ status' = [status EXCEPT ![a] = to]
    /\ Act /\ UNCHANGED <<inc, seen>> /\ Rest

Acknowledge(a) == SetStatus(a, Ongoing, "handled") /\ Spawn(a, "acknowledged", "handled")
Close(a) == SetStatus(a, Ongoing, "closed") /\ Spawn(a, "resolved", "closed")
Ignore(a) == SetStatus(a, {"active"}, "handled") /\ UNCHANGED ready
Resume(a) == SetStatus(a, {"handled"}, "active") /\ UNCHANGED ready

(* close_all_alerts() tells the dispatcher nothing.                          *)
CloseAll ==
    /\ \E a \in Alert : status[a] \in Ongoing
    /\ status' = [a \in Alert |-> IF status[a] \in Ongoing THEN "closed" ELSE status[a]]
    /\ Act /\ UNCHANGED <<inc, seen, ready>> /\ Rest

-----------------------------------------------------------------------------
(* _policies_that_should_dispatch                                            *)
KeysOf(a) == Policy \X {a}

Silent(e) == e.event = "acknowledged" \/ (e.event = "firing" /\ e.status # "active")

Breaches(e) ==
    IF e.event = "firing" /\ ~Silent(e) THEN breach[e.alert] + 1 ELSE 0

Clearing(a) == {p \in OnClear : a \in Matches[p] /\ <<p, a>> \in first}

Due(a, n) ==
    {p \in Policy : a \in Matches[p] /\ n >= MinCount[p] /\ <<p, a>> \notin recent}

Selected(e) ==
    IF Silent(e) THEN {}
    ELSE IF e.event = "resolved" THEN Clearing(e.alert)
    ELSE Due(e.alert, Breaches(e))

Fresh(e) == {<<p, e.alert>> : p \in Selected(e)}

Recent(e) ==
    IF e.event = "resolved" THEN recent \ KeysOf(e.alert)
    ELSE recent \cup {k \in Fresh(e) : k[1] \in Repeats}

Remember(e) ==
    /\ breach' = [breach EXCEPT ![e.alert] = Min({Breaches(e), TopCount})]
    /\ first' = IF e.event = "resolved" THEN first \ KeysOf(e.alert) ELSE first \cup Fresh(e)
    /\ recent' = Recent(e)

(* _sweep_incident_dispatched                                                *)
Sweeps == claims # {} /\ ~swept

SweptAll == IF Sweeps THEN {} ELSE claims     \* mutant

Swept ==
    IF Sweeps THEN {i \in claims : status[i] \in Ongoing
                                   /\ \E a \in Alert : inc[a] = i /\ status[a] \in Ongoing}
    ELSE claims

SuppressedNever(e) == FALSE                    \* mutant

Suppressed(e) ==
    PerIncident /\ e.event = "firing" /\ inc[e.alert] # e.alert /\ inc[e.alert] \in Swept

Claims(e) == PerIncident /\ e.event = "firing" /\ Selected(e) # {} /\ ~Suppressed(e)

Todo(e) ==
    IF Suppressed(e) THEN {} ELSE (UNION {ChannelsOf[p] : p \in Selected(e)}) \cap Enabled

(* The incident, if another dispatch of the same alert waits for its sends:  *)
(* the mark in _send_ok is the alert's, and the dispatch that ends first     *)
(* takes it for its own.                                                     *)
Meets(a, t) == {inc[run[u].alert] : u \in {u \in Slot \ {t} : run[u] # None /\ run[u].alert = a}}

(* What follows the sends.                                                   *)
ReleaseKeep(a, claim, held) == claims' = held     \* mutant: a failed send keeps its claim
Release(a, claim, held) == claims' = IF a \in ok THEN held ELSE held \ {claim}

Finish(a, claim, held, t) ==
    /\ Release(a, claim, held)
    /\ ok' = ok \ {a}
    /\ mixed' = mixed \cup (IF a \in ok THEN Meets(a, t) ELSE {claim} \cap told)

(* The incident the event claims, and all that are claimed with it.          *)
Claim(e) == IF Claims(e) /\ inc[e.alert] \notin Swept THEN inc[e.alert] ELSE None
Held(e) == IF Claims(e) THEN Swept \cup {inc[e.alert]} ELSE Swept

(* Slots only tell dispatches apart: the first free one is taken.            *)
Free(t) == run[t] = None /\ \A u \in 1..t-1 : run[u] # None

Begin(t) ==
    /\ ready # <<>> /\ Free(t)
    /\ ready' = Tail(ready)
    /\ LET e == Head(ready)
       IN  /\ Remember(e)
           /\ swept' = (swept \/ Sweeps)
           /\ told' = told \ (claims \ Swept)
           /\ IF Todo(e) = {}
              THEN Finish(e.alert, Claim(e), Held(e), t) /\ UNCHANGED run
              ELSE /\ run' = [run EXCEPT ![t] = [alert |-> e.alert, event |-> e.event,
                                                 todo |-> Todo(e), claim |-> Claim(e)]]
                   /\ claims' = Held(e)
                   /\ UNCHANGED <<ok, mixed>>
    /\ UNCHANGED <<table, acts>>

(* A send and its _record_delivery.                                          *)
Send(t, good) ==
    /\ run[t] # None
    /\ LET d == run[t]
           delivered == IF good /\ d.event = "firing" THEN {inc[d.alert]} ELSE {}
       IN  /\ \E c \in d.todo : run' = [run EXCEPT ![t].todo = @ \ {c}]
           /\ ok' = IF good THEN ok \cup {d.alert} ELSE ok
           /\ claims' = claims \cup delivered
           /\ told' = told \cup delivered
    /\ UNCHANGED <<table, ready, breach, first, recent, swept, mixed, acts>>

End(t) ==
    /\ run[t] # None /\ run[t].todo = {}
    /\ Finish(run[t].alert, run[t].claim, claims, t)
    /\ run' = [run EXCEPT ![t] = None]
    /\ UNCHANGED <<table, ready, breach, first, recent, swept, told, acts>>

-----------------------------------------------------------------------------
Elapse(k) ==
    /\ k \in recent /\ recent' = recent \ {k}
    /\ UNCHANGED <<table, ready, breach, first, claims, ok, swept, run, told, mixed, acts>>

SweepDue ==
    /\ swept /\ swept' = FALSE
    /\ UNCHANGED <<table, ready, breach, first, recent, claims, ok, run, told, mixed, acts>>

(* In-memory only: a restart resets everything but the alert table.          *)
Restart ==
    /\ Act
    /\ seen' = [a \in Alert |-> "none"] /\ ready' = <<>>
    /\ breach' = [a \in Alert |-> 0]
    /\ first' = {} /\ recent' = {} /\ claims' = {} /\ ok' = {} /\ swept' = FALSE
    /\ run' = [t \in Slot |-> None] /\ told' = {} /\ mixed' = {}
    /\ UNCHANGED <<status, inc>>

Operator(a) == Acknowledge(a) \/ Close(a) \/ Ignore(a) \/ Resume(a)
Turn(a) == StillFiring(a) \/ AutoResolve(a)

Next ==
    \/ CycleStart \/ CloseAll \/ SweepDue \/ Restart
    \/ \E a \in Alert : Create(a) \/ Turn(a) \/ Operator(a)
    \/ \E t \in Slot : Begin(t) \/ End(t) \/ \E good \in BOOLEAN : Send(t, good)
    \/ \E k \in Key : Elapse(k)

Spec == Init /\ [][Next]_vars

(* The event loop runs every task, a channel that is tried again and again   *)
(* for an alert works in the end, cycles go on, and the metric keeps         *)
(* breaching.                                                                *)
Heeded(a) == \E t \in Slot : run[t] # None /\ run[t].alert = a /\ Send(t, TRUE)
Breaching(a) == CycleStart /\ seen'[a] # "none"
Loop(t) == Begin(t) \/ End(t) \/ Send(t, FALSE)

Fairness ==
    /\ \A t \in Slot : WF_vars(Loop(t))
    /\ \A a \in Alert : SF_vars(Heeded(a)) /\ SF_vars(Breaching(a)) /\ SF_vars(StillFiring(a))
    /\ WF_vars(SweepDue)
    /\ \A k \in Key : WF_vars(Elapse(k))

FairSpec == Spec /\ Fairness

-----------------------------------------------------------------------------
(* An incident is held claimed only for a reason: one of its members' firing *)
(* notifications got through, or a dispatch that claimed it still waits for  *)
(* its sends.  Otherwise the other members would be silenced and nobody      *)
(* told.                                                                     *)
ClaimBacked ==
    \A i \in claims \ mixed :
        i \in told \/ \E t \in Slot : run[t] # None /\ run[t].claim = i

(* While the alert an incident began with is ongoing, at most one dispatch   *)
(* at a time has claimed it: two members that fire together do not both      *)
(* notify on the strength of nobody having done so.                          *)
OneClaimant ==
    \A t, u \in Slot :
        t # u /\ run[t] # None /\ run[u] # None /\ run[t].claim = run[u].claim
            => run[t].claim = None \/ status[run[t].claim] \notin Ongoing

(* The docstring of _incident_channel_suppressed: "Suppress channel dispatch *)
(* for firing joiner alerts once the incident has already notified."  While  *)
(* the alert an incident began with is ongoing and a firing notification of  *)
(* the incident got through, no other member starts one.  (Not so where a    *)
(* dispatch gave the claim up for its own failure although another had       *)
(* delivered, or lost its mark to another: `mixed`.)                         *)
OneVoice ==
    [][\A t \in Slot :
          run[t] = None /\ run'[t] # None /\ run'[t].event = "firing" =>
              LET a == run'[t].alert
              IN  inc[a] = a \/ inc[a] \notin told' \ mixed \/ status[inc[a]] \notin Ongoing]_vars

(* An alert that stays active and keeps breaching, and that some policy      *)
(* sends somewhere, is notified, itself or by a member of its incident,      *)
(* however often sends fail, the engine restarts or the root closes.         *)
Reaches(a) == \E p \in Policy : a \in Matches[p] /\ ChannelsOf[p] \cap Enabled # {}

Heard ==
    \A a \in {a \in Alert : Reaches(a)} :
        status[a] = "active" ~> (inc[a] \in told \cup mixed \/ status[a] # "active")

=============================================================================
