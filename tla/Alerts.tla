------------------------------- MODULE Alerts -------------------------------
(***************************************************************************)
(* The alarm engine's alert life cycle: AeAlarmsDB (two SQLite tables),    *)
(* AlertRepository (the cached list of ongoing alerts, the ignore windows  *)
(* of the rules), AlertManager, the rule evaluation loop and the routes    *)
(* that operators and external systems call.                               *)
(*                                                                         *)
(* The engine is one asyncio loop, so a handler without an await is one    *)
(* step, and so is a rule's turn.  Only the get_active() that              *)
(* evaluate_all() hands to a worker thread runs beside it.  The stored     *)
(* state is the record `ae`; methods are operators from such a record to   *)
(* the next.  An alert keeps what the code decides by: its rule, its       *)
(* status and ignored_until (0 for NULL).                                  *)
(***************************************************************************)
EXTENDS Naturals, FiniteSets, FiniteSetsExt, Functions

CONSTANTS
    Rule,        \* rule ids
    External,    \* rule ids that only /api/alarm/ingest derives
    Need,        \* min_trigger_cycles, as configured
    Resolve,     \* auto_resolve_cycles, as configured
    Seen,        \* bound: the verdicts that occur
    MaxAlerts,   \* bound: alerts created
    MaxTime,     \* bound: clock values
    MaxMishaps,  \* bound: restarts of the engine and failed reads
    ResumeClosed \* bound: whether operators resume alerts that are closed

ASSUME RulesAssumption == IsFiniteSet(Rule) /\ External \subseteq Rule
ASSUME CyclesAssumption == Need \in Nat \ {0} /\ Resolve \in Nat

(* What a rule sees in its metric when its turn comes.  nodata: no points;   *)
(* stale: too old, not finite or in quiet hours; wobble: the newest sample   *)
(* is fine but a recent one still breaches.                                  *)
ASSUME SeenAssumption == Seen \subseteq {"nodata", "stale", "ok", "wobble", "breach"}

ASSUME BoundsAssumption == ResumeClosed \in BOOLEAN /\ {MaxAlerts, MaxTime, MaxMishaps} \subseteq Nat

VARIABLES
    ae,        \* AeAlarmsDB and AlertRepository
    now,
    saved,     \* the rules table: "on", "off" or "gone"
    shown,     \* the rule: entries of the MetricCache, by which routes decide
    okays,     \* RuleEngine._ok_streak
    breaches,  \* RuleEngine._breach_streak
    pc,        \* where evaluate_all() is
    rules,     \* enabled rules it has read and not evaluated yet
    snap,      \* its list of ongoing alerts: [some, rows]
    raced,     \* history: a thread has stored a list older than the table
    revived,   \* history: rules one of whose closed alerts became ongoing again
    undone,    \* history: rules switched back on by the evaluation
    mishaps

cycle == <<pc, rules, snap>>
streaks == <<okays, breaches>>
settings == <<saved, shown>>
vars == <<ae, now, settings, streaks, cycle, raced, revived, undone, mishaps>>

Alert == 1..MaxAlerts
Ongoing == {"active", "acknowledged", "ignored"}
Row == [rule : Rule, status : Ongoing \cup {"closed"}, until : 0..MaxTime]
Rows == UNION {[A -> Row] : A \in SUBSET Alert}
NoRows == [a \in {} |-> 0]
NoList == [some |-> FALSE, rows |-> NoRows]

(* write_rule() stores `auto_resolve_cycles or 2`.                           *)
Cycles == IF Resolve = 0 THEN 2 ELSE Resolve

TypeOK ==
    /\ ae.alerts \in Rows /\ ae.history \in Rows /\ ae.rows \in Rows
    /\ ae.win \in [Rule -> 0..MaxTime]
    /\ ae.cached \in BOOLEAN
    /\ ae.next \in 1..MaxAlerts + 1
    /\ now \in 0..MaxTime
    /\ {saved, shown} \subseteq [Rule \ External -> {"on", "off", "gone"}]
    /\ okays \in [Rule -> 0..Cycles]
    /\ breaches \in [Rule -> 0..Need - 1]
    /\ pc \in {"idle", "check", "hit", "store", "listed", "rules"}
    /\ rules \subseteq Rule
    /\ snap.some \in BOOLEAN /\ snap.rows \in Rows
    /\ raced \in BOOLEAN /\ revived \subseteq Rule /\ undone \subseteq Rule
    /\ mishaps \in 0..MaxMishaps

-----------------------------------------------------------------------------
(* AeAlarmsDB *)

Without(f, A) == Restrict(f, DOMAIN f \ A)
Upsert(f, g) == [a \in DOMAIN f \cup DOMAIN g |-> IF a \in DOMAIN g THEN g[a] ELSE f[a]]

(* write_alert() for each row of f: an upsert; a closed row moves to         *)
(* alert_history, a live one clears any row there.                           *)
ClosedOf(f) == {a \in DOMAIN f : f[a].status = "closed"}

WriteAlertsKeepHistory(e, f) ==     \* mutant: the stale history row stays
    [e EXCEPT !.alerts = Upsert(Without(@, ClosedOf(f)), Without(f, ClosedOf(f))),
              !.history = Upsert(@, Restrict(f, ClosedOf(f)))]

WriteAlerts(e, f) ==
    [e EXCEPT !.alerts = Upsert(Without(@, ClosedOf(f)), Without(f, ClosedOf(f))),
              !.history = Upsert(Without(@, DOMAIN f), Restrict(f, ClosedOf(f)))]

(* get_alert(): the hot table, then the history.                             *)
Known(e) == DOMAIN e.alerts \cup DOMAIN e.history
GetAlert(e, a) == IF a \in DOMAIN e.alerts THEN e.alerts[a] ELSE e.history[a]

QueryActive(e) ==
    Restrict(e.alerts, {a \in DOMAIN e.alerts : e.alerts[a].status \in Ongoing})

(* clear_ignored_until() for each rule of R.                                 *)
Cleared(f, R) ==
    [a \in DOMAIN f |-> IF f[a].rule \in R THEN [f[a] EXCEPT !.until = 0] ELSE f[a]]

ClearIgnoredUntil(e, R) == [e EXCEPT !.alerts = Cleared(@, R), !.history = Cleared(@, R)]

(* get_active_ignores(): the latest open window of each rule.                *)
ActiveIgnores(e) ==
    [r \in Rule |->
       LET ends == {GetAlert(e, a).until : a \in {b \in Known(e) : GetAlert(e, b).rule = r}}
       IN  Max({u \in ends : u > now} \cup {0})]

-----------------------------------------------------------------------------
(* AlertRepository *)

(* _invalidate_active_cache() and get_active() on the event loop.            *)
Invalidate(e) == [e EXCEPT !.cached = FALSE, !.rows = NoRows]
GetActive(e) == IF e.cached THEN e ELSE [e EXCEPT !.cached = TRUE, !.rows = QueryActive(e)]

SetRuleIgnored(e, r, until) == [e EXCEPT !.win[r] = until]
ClearRuleIgnored(e, R) ==
    ClearIgnoredUntil([e EXCEPT !.win = [r \in Rule |-> IF r \in R THEN 0 ELSE @[r]]], R)

(* update() of the alerts of A: a field that is None (until = 0) keeps its   *)
(* value.                                                                    *)
Updated(e, A, status, until) ==
    [a \in A \cap Known(e) |-> [GetAlert(e, a) EXCEPT
        !.status = status, !.until = IF until = 0 THEN @ ELSE until]]

UpdateNoInvalidate(e, A, status, until) ==     \* mutant
    WriteAlerts(e, Updated(e, A, status, until))

Update(e, A, status, until) == Invalidate(WriteAlerts(e, Updated(e, A, status, until)))

(* resume(): back to active, the deadline dropped.                           *)
ResumeRows(e, A) ==
    Invalidate(WriteAlerts(e, [a \in A |-> [GetAlert(e, a) EXCEPT !.status = "active", !.until = 0]]))

-----------------------------------------------------------------------------
(* AlertManager.  Every change of an alert ends in _emit_ws_event(), which   *)
(* sizes the incident with get_active().                                     *)

Of(rows, r) == {a \in DOMAIN rows : rows[a].rule = r /\ rows[a].status \in Ongoing}

(* close_alert() of some alerts of rule r: only "auto" leaves its window.    *)
CloseAlerts(e, A, r, reason) ==
    IF A \cap Known(e) = {} THEN e
    ELSE LET u == Update(e, A, "closed", 0)
         IN  GetActive(IF reason = "auto" THEN u ELSE ClearRuleIgnored(u, {r}))

CloseRuleAlerts(e, r, reason) ==
    LET g == GetActive(e) IN CloseAlerts(g, Of(g.rows, r), r, reason)

AcknowledgeAlert(e, a) ==
    GetActive(ClearRuleIgnored(Update(e, {a}, "acknowledged", 0), {GetAlert(e, a).rule}))

IgnoreAlert(e, a, until) ==
    GetActive(SetRuleIgnored(Update(e, {a}, "ignored", until), GetAlert(e, a).rule, until))

(* resume_alert() of the known alerts of A lifts the windows of their rules; *)
(* no status is refused.                                                     *)
ResumeAlerts(e, A) ==
    LET known == A \cap Known(e)
        lifted == {GetAlert(e, a).rule : a \in known}
    IN  IF known = {} THEN e ELSE GetActive(ClearRuleIgnored(ResumeRows(e, known), lifted))

(* process_alert(): refreshes the ongoing alert of the rule, or creates one, *)
(* born ignored while the rule's window is open.                             *)
ProcessCreatesAlways(e, r) == TRUE                         \* mutant
ProcessCreates(e, r) == Of(GetActive(e).rows, r) = {}

ProcessAlert(e0, r) ==
    LET until == IF e0.win[r] > now THEN e0.win[r] ELSE 0
        e == GetActive([e0 EXCEPT !.win[r] = until])
        c == Invalidate(WriteAlerts([e EXCEPT !.next = @ + 1],
                            [a \in {e.next} |-> [rule |-> r, status |-> "active", until |-> 0]]))
    IN  IF ~ProcessCreates(e0, r) THEN e
        ELSE GetActive(IF until = 0 THEN c ELSE Update(c, {e.next}, "ignored", until))

-----------------------------------------------------------------------------
Init ==
    /\ ae = [alerts |-> NoRows, history |-> NoRows, win |-> [r \in Rule |-> 0],
             cached |-> FALSE, rows |-> NoRows, next |-> 1]
    /\ now = 0
    /\ saved = [r \in Rule \ External |-> "on"] /\ shown = saved
    /\ okays = [r \in Rule |-> 0] /\ breaches = [r \in Rule |-> 0]
    /\ pc = "idle" /\ rules = {} /\ snap = NoList
    /\ raced = FALSE /\ revived = {} /\ undone = {} /\ mishaps = 0

(* The rules of alerts that were closed in e and are ongoing in f.           *)
Revivals(e, f) ==
    {f.alerts[a].rule : a \in DOMAIN e.history \cap DOMAIN f.alerts}

(* A handler that runs to its end on the loop and leaves the state e.        *)
Handle(e) ==
    /\ ae' = e
    /\ revived' = revived \cup Revivals(ae, e)
    /\ UNCHANGED <<now, streaks, cycle, raced, undone, mishaps>>

Acknowledge(a) ==
    /\ a \in Known(ae)
    /\ GetAlert(ae, a).status # "closed"
    /\ Handle(AcknowledgeAlert(ae, a))
    /\ UNCHANGED settings

Close(a) ==
    /\ a \in Known(ae)
    /\ Handle(CloseAlerts(ae, {a}, GetAlert(ae, a).rule, "manual"))
    /\ UNCHANGED settings

Ignore(a, hours) ==
    /\ a \in Known(ae)
    /\ GetAlert(ae, a).status # "closed"
    /\ now + hours <= MaxTime
    /\ Handle(IgnoreAlert(ae, a, now + hours))
    /\ UNCHANGED settings

Resume(a) ==
    /\ a \in Known(ae)
    /\ GetAlert(ae, a).status = "closed" => ResumeClosed
    /\ Handle(ResumeAlerts(ae, {a}))
    /\ UNCHANGED settings

(* The route deletes through the repository, not through the manager.        *)
Delete(a) ==
    /\ a \in Known(ae)
    /\ Handle(Invalidate([ae EXCEPT !.alerts = Without(@, {a}), !.history = Without(@, {a})]))
    /\ UNCHANGED settings

(* close_all_alerts(): one UPDATE and one archive; no window is lifted.      *)
CloseAll ==
    /\ Handle(Update(ae, DOMAIN ae.alerts, "closed", 0))
    /\ UNCHANGED settings

(* ignore_all_alerts(): active and acknowledged rows get the window; the     *)
(* rules are taken from get_active(), ignored alerts included.               *)
IgnoreAll(hours) ==
    LET until == now + hours
        e == GetActive(ae)
        affected == {e.rows[a].rule : a \in DOMAIN e.rows}
        loud == {a \in DOMAIN e.alerts : e.alerts[a].status # "ignored"}
    IN  /\ until <= MaxTime
        /\ Handle([Update(e, loud, "ignored", until) EXCEPT
                     !.win = [r \in Rule |-> IF r \in affected THEN until ELSE @[r]]])
        /\ UNCHANGED settings

(* POST /api/alarm/ingest *)
Ingest(r) ==
    /\ ProcessCreates(ae, r) => ae.next <= MaxAlerts
    /\ Handle(ProcessAlert(ae, r))
    /\ UNCHANGED settings

(* The rule routes decide by the cache entry, or by the row once the entry   *)
(* has expired.  SetEnabled is PATCH toggle, or PUT with another `enabled`;   *)
(* EditRule a PUT of other fields; DELETE of all rules is a series of these.  *)
Was(r) == {shown[r], saved[r]} \ {"gone"}

SaveRule(r, v) == saved' = [saved EXCEPT ![r] = v] /\ shown' = [shown EXCEPT ![r] = v]

DisableKeepsAlerts(r) == SaveRule(r, "off") /\ Handle(ae)     \* mutant
Disable(r) == SaveRule(r, "off") /\ Handle(CloseRuleAlerts(ae, r, "rule disabled"))

SetEnabled(r) ==
    \/ "on" \in Was(r) /\ Disable(r)
    \/ "off" \in Was(r) /\ SaveRule(r, "on") /\ Handle(ae)

EditRule(r) == \E was \in Was(r) : SaveRule(r, was) /\ Handle(ae)

DeleteRule(r) ==
    /\ Was(r) # {}
    /\ SaveRule(r, "gone")
    /\ Handle(CloseRuleAlerts(ae, r, "rule deleted"))

-----------------------------------------------------------------------------
(* evaluate_all() *)

CycleStart ==
    /\ pc = "idle"
    /\ rules' = {r \in DOMAIN saved : saved[r] = "on"}
    /\ pc' = "check"
    /\ UNCHANGED <<ae, now, settings, streaks, snap, raced, revived, undone, mishaps>>

(* get_active() on the worker thread: the test of the cache, the query, the  *)
(* store; a hit returns the list as it is after the test, None when it was   *)
(* invalidated in between.                                                   *)
ReadCheck ==
    /\ pc = "check"
    /\ IF ae.cached
       THEN pc' = "hit" /\ UNCHANGED snap
       ELSE pc' = "store" /\ snap' = [some |-> TRUE, rows |-> QueryActive(ae)]
    /\ UNCHANGED <<ae, now, settings, streaks, rules, raced, revived, undone, mishaps>>

ReadHit ==
    /\ pc = "hit"
    /\ snap' = [some |-> ae.cached, rows |-> ae.rows]
    /\ pc' = "listed"
    /\ UNCHANGED <<ae, now, settings, streaks, rules, raced, revived, undone, mishaps>>

ReadStore ==
    /\ pc = "store"
    /\ ae' = [ae EXCEPT !.cached = TRUE, !.rows = snap.rows]
    /\ raced' = (raced \/ snap.rows # QueryActive(ae))
    /\ pc' = "listed"
    /\ UNCHANGED <<now, settings, streaks, rules, snap, revived, undone, mishaps>>

(* The query raises: the cycle goes on with an empty list.                   *)
ReadFails ==
    /\ pc = "check" /\ ~ae.cached
    /\ mishaps < MaxMishaps
    /\ mishaps' = mishaps + 1
    /\ snap' = [some |-> TRUE, rows |-> NoRows]
    /\ pc' = "listed"
    /\ UNCHANGED <<ae, now, settings, streaks, rules, raced, revived, undone>>

(* The cycle goes on with the rules Q and the list l, or ends.               *)
GoOn(Q, l) ==
    /\ rules' = Q
    /\ pc' = IF Q = {} THEN "idle" ELSE "rules"
    /\ snap' = IF Q = {} THEN NoList ELSE l

(* _expire_ignore_windows() runs when the loop gets the list, and the first  *)
(* rule's turn follows without an await: Base and List are the alerts and    *)
(* the list a turn starts from.  _evaluate_rule() reads a list of its own    *)
(* when it gets none.                                                        *)
ElapsedNever == {}                                                  \* mutant
Elapsed == {a \in DOMAIN snap.rows :
              snap.rows[a].status = "ignored" /\ snap.rows[a].until \in 1..now}

Base == IF pc = "listed" THEN ResumeAlerts(ae, Elapsed) ELSE ae

List == IF pc = "listed" /\ Elapsed \cap Known(ae) # {}
        THEN [some |-> TRUE, rows |-> Base.rows] ELSE snap

Listed == IF List.some THEN Base ELSE GetActive(Base)
FiringActive(r) ==     \* mutant: handled alerts are left out
    {a \in Of(Listed.rows, r) : Listed.rows[a].status = "active"}
Firing(r) == Of(IF List.some THEN List.rows ELSE Listed.rows, r)

ExpireOnly ==
    /\ pc = "listed" /\ rules = {}
    /\ ae' = Base
    /\ GoOn({}, NoList)
    /\ revived' = revived \cup Revivals(ae, ae')
    /\ UNCHANGED <<now, settings, streaks, raced, undone, mishaps>>

(* What the verdict does to the streaks and the alerts, and last the whole   *)
(* rule, as it was when the cycle read it, written back after a firing and   *)
(* now and then.  A new alert beyond the bound stands for a failed insert:   *)
(* the rule's turn ends there.                                               *)
Streak(r, okay, breach) ==
    okays' = [okays EXCEPT ![r] = okay] /\ breaches' = [breaches EXCEPT ![r] = breach]

WriteBack(r) ==
    /\ saved' = [saved EXCEPT ![r] = "on"]
    /\ undone' = IF saved[r] = "on" THEN undone ELSE undone \cup {r}
    /\ UNCHANGED shown

NoWriteBack == UNCHANGED <<settings, undone>>

Suppressed(r, v) ==
    /\ IF v = "stale" THEN Streak(r, 0, 0) ELSE UNCHANGED streaks
    /\ ae' = Base
    /\ NoWriteBack

Fine(r, v) ==
    LET okay == IF v = "wobble" THEN 0 ELSE Min({okays[r] + 1, Cycles})
    IN  /\ Streak(r, okay, 0)
        /\ ae' = IF okay >= Cycles THEN CloseAlerts(Listed, Firing(r), r, "auto") ELSE Base
        /\ WriteBack(r) \/ NoWriteBack

StillFiring(r) ==
    /\ Firing(r) # {}
    /\ Streak(r, 0, breaches[r])
    /\ ae' = Listed
    /\ WriteBack(r) \/ NoWriteBack

Deferred(r) ==
    /\ Firing(r) = {} /\ breaches[r] + 1 < Need
    /\ Streak(r, 0, breaches[r] + 1)
    /\ ae' = Listed
    /\ WriteBack(r) \/ NoWriteBack

Fire(r) ==
    /\ Firing(r) = {} /\ breaches[r] + 1 >= Need
    /\ Streak(r, 0, 0)
    /\ IF ProcessCreates(Listed, r)
       THEN IF ae.next > MaxAlerts THEN ae' = GetActive(Listed) /\ NoWriteBack
                                   ELSE ae' = ProcessAlert(Listed, r) /\ WriteBack(r)
       ELSE ae' = ProcessAlert(Listed, r) /\ (WriteBack(r) \/ NoWriteBack)

Evaluate(r, v) ==
    /\ pc \in {"listed", "rules"}
    /\ r \in rules
    /\ GoOn(rules \ {r}, List)
    /\ \/ v \in {"nodata", "stale"} /\ Suppressed(r, v)
       \/ v \in {"ok", "wobble"} /\ Fine(r, v)
       \/ v = "breach" /\ (StillFiring(r) \/ Deferred(r) \/ Fire(r))
    /\ revived' = revived \cup Revivals(ae, ae')
    /\ UNCHANGED <<now, raced, mishaps>>

-----------------------------------------------------------------------------
(* The world: the clock, the cache's TTL, the history purge     *)
(* (rows with an open window stay), and a restart of the engine.             *)

Tick ==
    /\ now < MaxTime
    /\ now' = now + 1
    /\ UNCHANGED <<ae, settings, streaks, cycle, raced, revived, undone, mishaps>>

CacheExpires ==
    /\ ae.cached /\ pc # "hit"     \* a list past its TTL is still returned by a hit
    /\ ae' = Invalidate(ae)
    /\ UNCHANGED <<now, settings, streaks, cycle, raced, revived, undone, mishaps>>

Purge ==
    /\ \E old \in SUBSET {a \in DOMAIN ae.history : ae.history[a].until <= now} :
         /\ old # {}
         /\ ae' = [ae EXCEPT !.history = Without(@, old)]
    /\ UNCHANGED <<now, settings, streaks, cycle, raced, revived, undone, mishaps>>

Restart ==
    /\ mishaps < MaxMishaps
    /\ mishaps' = mishaps + 1
    /\ ae' = [Invalidate(ae) EXCEPT !.win = ActiveIgnores(ae)]
    /\ okays' = [r \in Rule |-> 0] /\ breaches' = [r \in Rule |-> 0]
    /\ pc' = "idle" /\ rules' = {} /\ snap' = NoList
    /\ shown' = saved
    /\ UNCHANGED <<now, saved, raced, revived, undone>>

Cycle ==
    \/ CycleStart \/ ReadCheck \/ ReadHit \/ ReadStore \/ ReadFails \/ ExpireOnly
    \/ \E r \in Rule, v \in Seen : Evaluate(r, v)

Operator(a) ==
    \/ Acknowledge(a) \/ Close(a) \/ Resume(a) \/ Delete(a)
    \/ \E hours \in 1..MaxTime : Ignore(a, hours)

Next ==
    \/ Cycle
    \/ \E a \in Alert : Operator(a)
    \/ CloseAll \/ \E hours \in 1..MaxTime : IgnoreAll(hours)
    \/ \E r \in External : Ingest(r)
    \/ \E r \in Rule \ External : SetEnabled(r) \/ EditRule(r) \/ DeleteRule(r)
    \/ Tick \/ CacheExpires \/ Purge \/ Restart

Spec == Init /\ [][Next]_vars

(* The evaluation loop runs for ever, time passes, and no list outlives its  *)
(* TTL, however often it is hit.                                             *)
Fairness == WF_vars(Cycle) /\ WF_vars(Tick) /\ SF_vars(CacheExpires)
LiveSpec == Spec /\ Fairness

-----------------------------------------------------------------------------
(* Properties *)

(* An alert is a row of exactly one table, and of the one its status belongs *)
(* in, whatever order operators, the loop, the purge and restarts come in    *)
(* (write_alert(): "the alert_id lives in exactly one table"); every         *)
(* variable keeps its type.                                                  *)
OneTable ==
    /\ TypeOK
    /\ DOMAIN ae.alerts \cap DOMAIN ae.history = {}
    /\ \A a \in DOMAIN ae.alerts : ae.alerts[a].status \in Ongoing
    /\ \A a \in DOMAIN ae.history : ae.history[a].status = "closed"

(* "Invalidated on every in-process state change": unless the worker thread  *)
(* has stored an old list, the cached list is what a query would return.     *)
CacheCurrent == ae.cached /\ ~raced => ae.rows = QueryActive(ae)

(* At most one ongoing alert per rule, so that a firing refreshes instead of *)
(* alerting twice, also in a cycle that works with an old list, an empty one *)
(* after a failed read, or none.  It ends where an old list got into the     *)
(* cache, or a closed alert was made ongoing again (resume has no guard).    *)
OneOngoing ==
    \A r \in Rule \ revived : ~raced => Cardinality(Of(ae.alerts, r)) <= 1

(* Disabling or deleting a rule leaves it without an ongoing alert, even in  *)
(* the middle of a cycle that still has the rule on its list.                *)
DisabledIsQuiet ==
    \A r \in DOMAIN saved :
      saved[r] # "on" /\ ~raced /\ r \notin revived \cup undone => Of(ae.alerts, r) = {}

(* An ignore window ends: the alert is back, or handled (#938).              *)
IgnoreEnds ==
    \A a \in Alert :
      LET open == a \in DOMAIN ae.alerts /\ ae.alerts[a].status = "ignored" /\ ae.alerts[a].until # 0
      IN  open ~> ~open

(* A metric that stays fine, its points present, clears its rule's alerts,   *)
(* whatever the operators do meanwhile and however stale a list has been.    *)
RecoveryCloses ==
    \A r \in Rule \ External :
      "nodata" \notin Seen /\ <>[](okays[r] = Cycles /\ saved[r] = "on")
        => []<>(Of(ae.alerts, r) = {})

(* docs/API_REFERENCE.md: "Disabled rules are not evaluated": only an        *)
(* operator switches a rule on.  Violated: a cycle writes back what it read. *)
DisabledStaysOff ==
    [][\A r \in DOMAIN saved : saved[r] # "on" /\ saved'[r] = "on" => shown'[r] = "on"]_vars
=============================================================================
