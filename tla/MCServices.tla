----------------------------- MODULE MCServices -----------------------------
(***************************************************************************)
(* The liveness of the alerts and of the manager's autopilot in one run of *)
(* TLC.  They do not meet here: a behaviour is one of the component that   *)
(* `part` names, and the other one rests.                                  *)
(***************************************************************************)
EXTENDS Alerts

CONSTANT None

VARIABLES
    part,
    max, auto, live, real, sample, mute, phase, want, todo, seen, slow, proposals,
    acted, placed, confirmed, blank, backoff, unload, pin, pool, faults

A == INSTANCE Autopilot WITH
    pc <- phase, Host <- {"h1", "h2"}, Fits <- {"h1", "h2"}, MinCopies <- 1,
    Grace <- 1, Cooldown <- 2, FreshFor <- 3, Backoff <- 4, Dwell <- 5, MaxFaults <- 2

autopilotVars ==
    <<max, auto, live, real, sample, mute, phase, want, todo, seen, slow, proposals,
      acted, placed, confirmed, blank, backoff, unload, pin, pool, faults>>
all == <<part, vars, autopilotVars>>

InAlerts(S) == part = "alerts" /\ S /\ UNCHANGED <<part, autopilotVars>>
InAutopilot(S) == part = "autopilot" /\ S /\ UNCHANGED <<part, vars>>

(* The autopilot starts with an entry for one copy that it places by itself. *)
SInit ==
    /\ part \in {"alerts", "autopilot"}
    /\ Init /\ A!Init /\ max = 1 /\ auto = (part = "autopilot")

SNext == InAlerts(Next) \/ InAutopilot(A!Next)

(* `part` never changes, so a step of each of them can share a formula.      *)
SFairness ==
    /\ WF_all(InAlerts(Cycle) \/ InAutopilot(A!TickNext))
    /\ WF_all(InAlerts(Tick) \/ InAutopilot(A!Recover))
    /\ SF_all(InAlerts(CacheExpires))

SSpec == SInit /\ [][SNext]_all /\ SFairness

-----------------------------------------------------------------------------
(* An entry of the autopilot ends with the copies and the route it asks for. *)
Converges == A!Converges
=============================================================================
