------------------------------ MODULE MCSafety ------------------------------
(***************************************************************************)
(* The safety of components that need no fairness, in one run of TLC.  The *)
(* components do not meet here: a behaviour is one of the component that   *)
(* `part` names.  Beside the alerts, which have their own variables, only  *)
(* that one has state: all use the same variables, each under its own      *)
(* names by substitution, and what it leaves over is 0.                    *)
(***************************************************************************)
EXTENDS Alerts

CONSTANT None

VARIABLES
    part,
    x1, x2, x3, x4, x5, x6, x7, x8, x9, x10, x11, x12, x13, x14, x15, x16, x17, x18, x19, x20,
    x21, x22, x23, x24, x25, x26

MB == INSTANCE MetricBuffer WITH
    st <- x1, fl <- x2, produced <- x3, delivered <- x4, repeated <- x5, gone <- x6,
    faults <- x7, writeFaults <- x8,
    MaxMemory <- 2, MaxDisk <- 3, Limit <- 2, CompactAt <- 3, Flusher <- {"loop", "drain"},
    MaxSamples <- 6, MaxFaults <- 2, MaxWriteFaults <- 1

D == INSTANCE Dispatcher WITH
    status <- x1, inc <- x2, seen <- x3, ready <- x4, breach <- x5, first <- x6, recent <- x7,
    claims <- x8, ok <- x9, swept <- x10, run <- x11, told <- x12, mixed <- x13, acts <- x14,
    Alert <- {"a1", "a2"}, Policy <- {"p"}, Channel <- {"c1", "c2"}, Enabled <- {"c1"},
    Matches <- [p \in {"p"} |-> {"a1", "a2"}], ChannelsOf <- [p \in {"p"} |-> {"c1", "c2"}],
    MinCount <- [p \in {"p"} |-> 1], Repeats <- {"p"}, OnClear <- {"p"}, PerIncident <- TRUE,
    Slots <- 2, MaxReady <- 1, MaxActs <- 0

R == INSTANCE AgentRegistry WITH
    file <- x1, bak <- x2, cache <- x3, lock <- x4, th <- x5, clock <- x6, booted <- x7,
    target <- x8, owed <- x9, acked <- x10, late <- x11, crossed <- x12, saves <- x13,
    damage <- x14, restarts <- x15,
    Agent <- {"r1", "r2"}, Capable <- {"r1", "r2"}, MaxSaves <- 2, MaxDamage <- 1,
    MaxRestarts <- 1

B == INSTANCE AutotuneBatch WITH
    status <- x1, thread <- x2, flag <- x3, cancelling <- x4, settling <- x5, up <- x6,
    row <- x7, mem <- x8, at <- x9, item <- x10, todo <- x11, marked <- x12, current <- x13,
    snap <- x14, route <- x15, arming <- x16, redo <- x17, booted <- x18, serving <- x19,
    downBy <- x20, tune <- x21, lost <- x22, torn <- x23, crashes <- x24, raises <- x25,
    cancels <- x26,
    Batch <- {"a"}, Job <- {"a1", "a2"}, BatchOf <- [j \in {"a1", "a2"} |-> "a"],
    Host <- {"h1"}, ItemsOf <- [b \in {"a"} |-> <<"h1", "h1">>], Restarts <- {"a"},
    Workers <- 2, MaxCrashes <- 1, MaxRaises <- 1, MaxCancels <- 1

others ==
    <<x1, x2, x3, x4, x5, x6, x7, x8, x9, x10, x11, x12, x13, x14, x15, x16, x17, x18, x19, x20,
    x21, x22, x23, x24, x25, x26>>
all == <<part, vars, others>>

(* The variables that a part leaves over.                                    *)
From16 == <<x16, x17, x18, x19, x20, x21, x22, x23, x24, x25, x26>>
From15 == <<x15, From16>>
From9 == <<x9, x10, x11, x12, x13, x14, From15>>
From1 == <<x1, x2, x3, x4, x5, x6, x7, x8, From9>>

Zero16 ==
    /\ x16 = 0 /\ x17 = 0 /\ x18 = 0 /\ x19 = 0 /\ x20 = 0 /\ x21 = 0 /\ x22 = 0
    /\ x23 = 0 /\ x24 = 0 /\ x25 = 0 /\ x26 = 0
Zero15 == x15 = 0 /\ Zero16
Zero9 == x9 = 0 /\ x10 = 0 /\ x11 = 0 /\ x12 = 0 /\ x13 = 0 /\ x14 = 0 /\ Zero15
Zero1 ==
    /\ x1 = 0 /\ x2 = 0 /\ x3 = 0 /\ x4 = 0 /\ x5 = 0 /\ x6 = 0 /\ x7 = 0
    /\ x8 = 0 /\ Zero9

(* A manager that has two agents, one of them perhaps not approved yet; or   *)
(* the autopilot has just pinned the model to one that was deleted, and a    *)
(* load that looked at the file before that is about to read it.             *)
RegistryInit ==
    \/ \E s \in {"approved", "pending"} :
         R!Underway([R!Empty EXCEPT !.st = [r1 |-> "approved", r2 |-> s],
                                    !.default = "r1", !.pin = IF s = "approved" THEN "r2" ELSE "r1",
                                    !.host = "r1"])
    \/ R!Dangling([R!Empty EXCEPT !.st = [r1 |-> "approved", r2 |-> "absent"], !.default = "r1"], "r2")

AllInit ==
    /\ Init
    /\ \/ part = "buffer" /\ MB!Init /\ Zero9
       \/ part = "dispatcher" /\ D!Init /\ Zero15
       \/ part = "registry" /\ RegistryInit /\ Zero16
       \/ part = "batch" /\ B!Init
       \/ part = "alerts" /\ Zero1

AllNext ==
    /\ UNCHANGED part
    /\ part # "alerts" => UNCHANGED vars
    /\ \/ part = "buffer" /\ MB!Next /\ UNCHANGED From9
       \/ part = "dispatcher" /\ D!Next /\ UNCHANGED From15
       \/ part = "registry" /\ R!Next /\ UNCHANGED From16
       \/ part = "batch" /\ B!Next
       \/ part = "alerts" /\ Next /\ UNCHANGED others

AllSpec == AllInit /\ [][AllNext]_all

-----------------------------------------------------------------------------
(* The type invariants of the components.                                     *)
TypesOK ==
    /\ part = "buffer" => MB!TypeOK
    /\ part = "dispatcher" => D!TypeOK
    /\ part = "registry" => R!TypeOK
    /\ part = "batch" => B!TypeOK

(* No sample disappears unrecorded.                                          *)
Accounted == part = "buffer" => MB!Accounted

(* Memory and the file stay in their budgets.                                *)
Budgets == part = "buffer" => MB!Budgets

(* Nothing is ingested twice unless a reply, the file or the process was     *)
(* lost.                                                                     *)
NoRepeatWhenCalm == part = "buffer" => MB!NoRepeatWhenCalm

(* What an open claim covers is the batch being posted.                      *)
ClaimHoldsStill == part = "buffer" => MB!ClaimHoldsStill

(* An incident is held claimed only by a delivery or by a dispatch under     *)
(* way.                                                                      *)
ClaimBacked == part = "dispatcher" => D!ClaimBacked

(* One dispatch at a time has claimed an incident.                           *)
OneClaimant == part = "dispatcher" => D!OneClaimant

(* A reference in the registry names an agent that is in it.                 *)
RefsResolve == part = "registry" => R!RefsResolve

(* An approved agent outlives restarts, failed writes and one damaged file.  *)
AgentsKept == part = "registry" => R!AgentsKept

(* A server that a batch stopped is not forgotten.                           *)
ServersComeBack == part = "batch" => B!ServersComeBack
=============================================================================
