---------------------------- MODULE AgentRegistry ----------------------------
(***************************************************************************)
(* The manager's registry of agents (agent_registry.py): the file          *)
(* agents.json with its previous copy, the cache that load_agents() keeps  *)
(* of it, the routes that change it, and the references to agents it holds *)
(* (default, pool, pin and host of a provider).                            *)
(*                                                                         *)
(* The routes change the cached object in place, one at a time under       *)
(* _agents_lock ("writer"), and save_agents() writes it; load_agents() is  *)
(* also called without that lock ("reader"), and then may restore a        *)
(* damaged file or save a registry it had to repair.  One provider and one *)
(* model; heartbeats, tokens and certificates are left out.  The default   *)
(* and the primary id are always written together and are one field.  An   *)
(* id that was deleted may come back, where the code draws a new one.      *)
(***************************************************************************)
EXTENDS Naturals, FiniteSets
CONSTANTS
    Agent,
    None,
    Capable,      \* agents that advertise the provider
    MaxSaves,     \* bound: routes that get as far as loading the registry
    MaxDamage,    \* bound: damages to the file
    MaxRestarts   \* bound: manager restarts

VARIABLES
    file,      \* agents.json: its registry (or None, unreadable) and its mtime; mtime 0: no file
    bak,       \* agents.json.bak, likewise
    cache,     \* _agents_cache: data and mtime
    lock,      \* the thread inside load_agents() with _agents_cache_lock
    th,        \* thread -> where it is, the mtime it saw, its data, and whether that is the cached object
    clock,     \* the latest mtime given
    booted,    \* the start-up's own change to the registry is behind
    target,    \* the agent on which the autopilot is loading the model
    owed,      \* history: agents taken up in the last two saves that were answered, and not deleted
    acked,     \* history: agents in the last one
    late,      \* history: agents the autopilot pinned when they were no longer approved
    crossed,   \* history: a load had a damaged file set aside when a route loaded or saved, or at a stop,
               \* or had repaired references to save when a route saved
    saves, damage, restarts

bounds == <<saves, damage, restarts>>
history == <<owed, acked, late, crossed>>
vars == <<file, bak, cache, lock, th, clock, booted, target, history, bounds>>

Thread == {"reader", "writer"}
Registry ==
    [st : [Agent -> {"absent", "pending", "approved", "disabled"}],
     default : Agent \cup {None}, pool : SUBSET Agent, pin : Agent \cup {None}, host : Agent \cup {None}]
Stamped == [reg : Registry \cup {None}, mtime : Nat]

TypeOK ==
    /\ file \in Stamped /\ bak \in Stamped /\ cache \in Stamped
    /\ lock \in Thread \cup {None}
    /\ \A t \in Thread :
         /\ th[t].at \in {"idle", "stat", "aside", "heal", "loaded", "save", "kept", "written"}
         /\ th[t].mtime \in Nat /\ th[t].reg \in Registry \cup {None} /\ th[t].shared \in BOOLEAN
    /\ clock \in Nat /\ booted \in BOOLEAN /\ target \in Agent \cup {None}
    /\ owed \subseteq Agent /\ acked \subseteq Agent /\ late \subseteq Agent /\ crossed \in BOOLEAN

Empty ==
    [st |-> [a \in Agent |-> "absent"], default |-> None, pool |-> {}, pin |-> None, host |-> None]
NoFile == [reg |-> None, mtime |-> 0]
Idle == [at |-> "idle", mtime |-> 0, reg |-> None, shared |-> FALSE]

Present(r) == {a \in Agent : r.st[a] # "absent"}
Taken(r) == {a \in Agent : r.st[a] \in {"approved", "disabled"}}
Refs(r) == ({r.default, r.pin, r.host} \cup r.pool) \ {None}

(* _reconcile_agent_refs(): references to agents that are gone.              *)
Reconciled(r) ==
    LET kept(a) == IF a \in Present(r) THEN a ELSE None
    IN  [r EXCEPT !.default = kept(@), !.pin = kept(@), !.host = kept(@), !.pool = @ \cap Present(r)]

Rest ==
    /\ lock = None /\ th = [t \in Thread |-> Idle] /\ target = None
    /\ late = {} /\ crossed = FALSE
    /\ saves = 0 /\ damage = 0 /\ restarts = 0

(* The first start; and later on, when r has been saved twice.               *)
Init ==
    /\ Rest
    /\ file = NoFile /\ bak = NoFile /\ cache = NoFile /\ clock = 0 /\ booted = FALSE
    /\ owed = {} /\ acked = {}

Underway(r) ==
    /\ Rest
    /\ file = [reg |-> r, mtime |-> 2] /\ bak = [reg |-> r, mtime |-> 1] /\ cache = file
    /\ clock = 2 /\ booted = TRUE
    /\ owed = Taken(r) /\ acked = Taken(r)

(* A pin to a, which r no longer has, was just saved over r; a load that did *)
(* its stat() before is still to read the file.  No restart is to come.      *)
Dangling(r, a) ==
    /\ lock = None /\ th = [t \in Thread |-> IF t = "reader" THEN [Idle EXCEPT !.at = "stat", !.mtime = 1] ELSE Idle]
    /\ target = None /\ late = {a} /\ crossed = FALSE
    /\ saves = 0 /\ damage = 0 /\ restarts = MaxRestarts
    /\ file = [reg |-> [r EXCEPT !.pin = a], mtime |-> 2] /\ bak = [reg |-> r, mtime |-> 1] /\ cache = file
    /\ clock = 2 /\ booted = TRUE
    /\ owed = Taken(r) /\ acked = Taken(r)

-----------------------------------------------------------------------------
(* load_agents(), by either thread.                                          *)
Loaded(t, r, shared) ==
    IF t = "reader" THEN Idle
    ELSE [at |-> "loaded", mtime |-> 0, reg |-> r, shared |-> shared]

(* The load ends with r in the cache, under mtime m: whoever held the object *)
(* that was cached before keeps it for itself.                               *)
Install(t, r, m) ==
    /\ cache' = [reg |-> r, mtime |-> m]
    /\ th' = [u \in Thread |-> IF u = t THEN Loaded(t, r, TRUE) ELSE [th[u] EXCEPT !.shared = FALSE]]
    /\ lock' = None

Recovering == \E t \in Thread : th[t].at = "aside"
Repairing == Recovering \/ \E t \in Thread : th[t].at = "heal"

(* stat() comes before the lock; without a file the answer is an empty       *)
(* registry that nobody else sees.                                           *)
Stat(t) ==
    /\ th[t].at = "idle"
    /\ t = "writer" => saves < MaxSaves
    /\ saves' = IF t = "writer" THEN saves + 1 ELSE saves
    /\ IF file.mtime = 0
       THEN /\ th' = [th EXCEPT ![t] = Loaded(t, Empty, FALSE)]
            /\ crossed' = (crossed \/ (t = "writer" /\ Recovering))
       ELSE /\ th' = [th EXCEPT ![t].at = "stat", ![t].mtime = file.mtime]
            /\ UNCHANGED crossed
    /\ UNCHANGED <<file, bak, cache, lock, clock, booted, target, owed, acked, late, damage, restarts>>

(* Under the lock: the cached object, or the file.  One that cannot be read  *)
(* is set aside; one with dangling references is repaired and saved.         *)
Locked(t) ==
    /\ th[t].at = "stat" /\ lock = None
    /\ IF th[t].mtime = cache.mtime /\ cache.reg # None
       THEN th' = [th EXCEPT ![t] = Loaded(t, cache.reg, TRUE)] /\ UNCHANGED <<file, cache, lock>>
       ELSE IF file.mtime = 0 THEN Install(t, Empty, th[t].mtime) /\ UNCHANGED file
       ELSE IF file.reg = None
       THEN file' = NoFile /\ lock' = t /\ th' = [th EXCEPT ![t].at = "aside"] /\ UNCHANGED cache
       ELSE IF Reconciled(file.reg) = file.reg
       THEN Install(t, file.reg, th[t].mtime) /\ UNCHANGED file
       ELSE /\ lock' = t
            /\ th' = [th EXCEPT ![t].at = "heal", ![t].reg = Reconciled(file.reg)]
            /\ UNCHANGED <<file, cache>>
    /\ UNCHANGED <<bak, clock, booted, target, history, bounds>>

(* save_agents() has _save_io_lock from Keep to Write.                       *)
IoFree == \A t \in Thread : th[t].at # "kept"

(* _recover_unreadable_registry(): the previous copy is linked back, or      *)
(* written over a file that appeared meanwhile; without one the list starts  *)
(* empty.                                                                    *)
Restored(t) == IF bak.reg = None THEN Empty ELSE bak.reg

Restore(t) ==
    /\ th[t].at = "aside" /\ IoFree
    /\ IF bak.reg = None THEN UNCHANGED <<file, clock>>
       ELSE IF file.mtime = 0 THEN file' = bak /\ UNCHANGED clock
       ELSE file' = [reg |-> bak.reg, mtime |-> clock + 1] /\ clock' = clock + 1
    /\ IF Reconciled(Restored(t)) = Restored(t)
       THEN Install(t, Restored(t), th[t].mtime)
       ELSE /\ th' = [th EXCEPT ![t].at = "heal", ![t].reg = Reconciled(Restored(t))]
            /\ UNCHANGED <<cache, lock>>
    /\ UNCHANGED <<bak, booted, target, history, bounds>>

(* _keep_previous_registry(): only a file that can be read.                  *)
KeptAny == IF file.mtime # 0 THEN file ELSE bak     \* mutant: whatever is there
Kept == IF file.reg # None THEN file ELSE bak

Heal(t) ==
    /\ th[t].at = "heal" /\ IoFree
    /\ bak' = Kept /\ clock' = clock + 1
    /\ file' = [reg |-> th[t].reg, mtime |-> clock + 1]
    /\ Install(t, th[t].reg, clock + 1)
    /\ UNCHANGED <<booted, target, history, bounds>>

-----------------------------------------------------------------------------
(* The routes.  Each changes the object that load_agents() gave it, which is *)
(* the cached one unless it was replaced meanwhile, and saves it.            *)
reg == th["writer"].reg

Holding == th["writer"].at = "loaded"
Serving == Holding /\ booted

Change(r) ==
    /\ th' = [th EXCEPT !["writer"].at = "save", !["writer"].reg = r]
    /\ cache' = IF th["writer"].shared THEN [cache EXCEPT !.reg = r] ELSE cache
    /\ UNCHANGED <<file, bak, lock, clock, crossed, bounds>>

Done == booted' = TRUE /\ UNCHANGED <<target, owed, acked, late>>

(* The start-up's backfill of the primary: a single capable agent.           *)
Candidates == {a \in Capable : reg.st[a] = "approved"}
Single == reg.default = None /\ reg.pool = {} /\ Cardinality(Candidates) = 1
Backfill ==
    /\ Holding /\ ~booted /\ Single
    /\ Change([reg EXCEPT !.default = CHOOSE a \in Candidates : TRUE])
    /\ Done

(* A new agent waits for approval, or is on the manager's own host; one that *)
(* registers again only has its record saved.                                *)
Register(a) ==
    /\ Serving /\ Done
    /\ IF a \in Present(reg) THEN Change(reg)
       ELSE \E s \in {"pending", "approved"} : Change([reg EXCEPT !.st[a] = s])

(* sweep_expired_pending() does not look at the references.                  *)
SweepExpired(S) ==
    /\ Serving /\ Done
    /\ S # {} /\ \A a \in S : reg.st[a] = "pending"
    /\ Change([reg EXCEPT !.st = [a \in Agent |-> IF a \in S THEN "absent" ELSE @[a]]])

Approve(a) ==
    /\ Serving /\ Done
    /\ a \in Present(reg)
    /\ Change([reg EXCEPT !.st[a] = "approved",
                          !.default = IF a \in Capable /\ @ = None /\ reg.pool = {} THEN a ELSE @])

Disable(a) == Serving /\ Done /\ a \in Present(reg) /\ Change([reg EXCEPT !.st[a] = "disabled"])

(* The history forgets the agent too.                                        *)
CascadeNone(r) == r     \* mutant: references are left for the next load
Cascade(r) == Reconciled(r)
Delete(a) ==
    /\ Serving
    /\ a \in Present(reg)
    /\ Change(Cascade([reg EXCEPT !.st[a] = "absent"]))
    /\ owed' = owed \ {a} /\ acked' = acked \ {a}
    /\ UNCHANGED <<booted, target, late>>

Approved(a) == reg.st[a] = "approved"
SetPrimary(a) ==
    /\ Serving /\ Done
    /\ \/ Approved(a) /\ a \in Capable /\ Change([reg EXCEPT !.default = a])
       \/ a \in Present(reg) /\ Change([reg EXCEPT !.default = None])

SetHost(a) ==
    /\ Serving /\ Done
    /\ \/ Approved(a) /\ Change([reg EXCEPT !.host = a])
       \/ Change([reg EXCEPT !.host = IF @ = a THEN None ELSE @])

SetPool(a) ==
    /\ Serving /\ Done
    /\ \/ Approved(a) /\ a \in Capable /\ Change([reg EXCEPT !.pool = @ \cup {a}])
       \/ Change([reg EXCEPT !.pool = @ \ {a}])

SetPin(a) ==
    /\ Serving /\ Done
    /\ \/ Approved(a) /\ a \in Capable /\ Change([reg EXCEPT !.pin = a])
       \/ Change([reg EXCEPT !.pin = None])

(* A request that is refused, or has nothing to save.                        *)
Refuse ==
    /\ Holding /\ (booted \/ ~Single)
    /\ th' = [th EXCEPT !["writer"] = Idle]
    /\ Done
    /\ UNCHANGED <<file, bak, cache, lock, clock, crossed, bounds>>

(* The autopilot has an agent it saw load the model, for up to minutes, and  *)
(* then pins the model to it (or leaves it: the load failed) without another *)
(* look at the agent; after an unload it drops a pin that is still its own.  *)
Aim(a) ==
    /\ booted /\ target = None
    /\ cache.reg # None /\ cache.reg.st[a] = "approved" /\ a \in Capable
    /\ target' = a
    /\ UNCHANGED <<file, bak, cache, lock, th, clock, history, booted, bounds>>

AutoPin ==
    /\ Serving /\ target # None
    /\ Change([reg EXCEPT !.pin = target])
    /\ late' = late \cup ({target} \ Taken(reg))
    /\ target' = None
    /\ UNCHANGED <<booted, owed, acked>>

AutoUnpin(a) == Serving /\ Done /\ reg.pin = a /\ Change([reg EXCEPT !.pin = None])

-----------------------------------------------------------------------------
(* save_agents(): the previous copy, the file, and then the cache, under a   *)
(* lock of its own.  Then the route answers.                                 *)
Keep ==
    /\ th["writer"].at = "save"
    /\ bak' = Kept
    /\ th' = [th EXCEPT !["writer"].at = "kept"]
    /\ UNCHANGED <<file, cache, lock, clock, target, history, booted, bounds>>

Write ==
    /\ th["writer"].at = "kept"
    /\ \/ /\ clock' = clock + 1
          /\ file' = [reg |-> reg, mtime |-> clock + 1]
          /\ th' = [th EXCEPT !["writer"].at = "written"]
          /\ crossed' = (crossed \/ Repairing)
       \/ th' = [th EXCEPT !["writer"] = Idle] /\ UNCHANGED <<file, clock, crossed>>
    /\ UNCHANGED <<bak, cache, lock, target, owed, acked, late, booted, bounds>>

Refresh ==
    /\ th["writer"].at = "written" /\ lock = None
    /\ cache' = [reg |-> reg, mtime |-> file.mtime]
    /\ th' = [th EXCEPT !["writer"] = Idle]
    /\ acked' = Taken(reg) /\ owed' = Taken(reg) \cap acked
    /\ UNCHANGED <<file, bak, lock, clock, target, late, crossed, booted, bounds>>

-----------------------------------------------------------------------------
(* Something outside damages the file, with or without a new mtime.          *)
Damage ==
    /\ damage < MaxDamage /\ damage' = damage + 1
    /\ file.mtime # 0 /\ IoFree
    /\ \/ file' = [file EXCEPT !.reg = None] /\ UNCHANGED clock
       \/ file' = [reg |-> None, mtime |-> clock + 1] /\ clock' = clock + 1
    /\ UNCHANGED <<bak, cache, lock, th, target, history, booted, saves, restarts>>

(* The manager stops anywhere; on a signal it saves what it has cached,      *)
(* without _agents_lock.                                                     *)
Flushed == cache.reg # None /\ file.mtime = cache.mtime /\ lock = None /\ IoFree
Restart ==
    /\ restarts < MaxRestarts /\ restarts' = restarts + 1
    /\ \/ UNCHANGED <<file, bak, clock>>
       \/ /\ Flushed
          /\ bak' = Kept /\ clock' = clock + 1
          /\ file' = [reg |-> cache.reg, mtime |-> clock + 1]
    /\ cache' = NoFile /\ lock' = None /\ th' = [t \in Thread |-> Idle]
    /\ target' = None /\ booted' = FALSE /\ crossed' = (crossed \/ Recovering)
    /\ UNCHANGED <<owed, acked, late, saves, damage>>

Load(t) == Stat(t) \/ Locked(t) \/ Restore(t) \/ Heal(t)
Routes ==
    \/ Backfill \/ Refuse \/ AutoPin
    \/ \E a \in Agent :
         \/ Register(a) \/ Approve(a) \/ Disable(a) \/ Delete(a) \/ SetPrimary(a) \/ SetHost(a)
         \/ SetPool(a) \/ SetPin(a) \/ Aim(a) \/ AutoUnpin(a)
    \/ \E S \in SUBSET Agent : SweepExpired(S)
Next == (\E t \in Thread : Load(t)) \/ Routes \/ Keep \/ Write \/ Refresh \/ Damage \/ Restart
Spec == Init /\ [][Next]_vars

-----------------------------------------------------------------------------
Registries == {f.reg : f \in {file, cache}} \ {None}

(* A default, pool, pin or host in the registry names an agent that is in    *)
(* it, in memory and in the file, also after a pending agent expired (which  *)
(* clears no reference) and after a damaged file was replaced by its         *)
(* predecessor.  One exception: the autopilot may pin a model to an agent    *)
(* that was deleted while it was loading the model there.                    *)
RefsResolve == \A r \in Registries : Refs(r) \ Present(r) \subseteq late \cap {r.pin}

(* "the agent registry survives a host crash" (test_agent_registry_durable): *)
(* an agent that was approved and in the last two saves that were answered   *)
(* is in the registry until it is deleted, over failed writes, restarts and  *)
(* a damaged file: in the file, in its previous copy while the file is       *)
(* damaged or set aside, and in what is cached.                              *)
SurvivesCrash ==
    \A a \in owed :
        /\ IF file.reg # None THEN a \in Taken(file.reg) ELSE bak.reg # None /\ a \in Taken(bak.reg)
        /\ cache.reg # None => a \in Taken(cache.reg)

(* The same, unless a route loaded or saved, or the manager stopped, while a *)
(* load of another thread had the damaged file set aside; or a route saved   *)
(* between that load's read of the file and its save of the repaired one,    *)
(* which then writes over the route's.                                       *)
AgentsKept == crossed \/ SurvivesCrash
==============================================================================
