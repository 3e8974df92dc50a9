------------------------------- MODULE MCLive -------------------------------
(***************************************************************************)
(* The liveness of the gateway, the metric buffer, the queue of tool runs  *)
(* and the autotune batches in one run of TLC.  The components do not meet *)
(* here: a behaviour is one of the component that `part` names, and the    *)
(* others rest.  Since `part` never changes, fairness of one step of each  *)
(* of the parts can share a formula.                                       *)
(***************************************************************************)
EXTENDS MCGateway

VARIABLES
    part,
    st, fl, produced, delivered, repeated, gone, faults, writeFaults,
    status, thread, flag, cancelling, settling, up, asked, blob, at, outcome, snap, busy, card,
    noted, starts, cut, overtaken, unheard, gaveUp, crashes,
    bStatus, bThread, bFlag, bCancelling, bSettling, bUp, row, mem, bAt, item, todo, marked, current,
    bSnap, route, arming, redo, booted, serving, downBy, tune, lost, torn, bCrashes, raises, cancels

MB == INSTANCE MetricBuffer WITH
    MaxMemory <- 2, MaxDisk <- 3, Limit <- 2, CompactAt <- 3, Flusher <- {"loop"},
    MaxSamples <- 6, MaxFaults <- 1, MaxWriteFaults <- 0

Runs == {"bench", "tune", "card"}

Q == INSTANCE ToolQueue WITH
    active <- busy, Job <- Runs, NoJob <- "nobody", Other <- "somebody", Host <- {"h"},
    HostOf <- [j \in Runs |-> "h"], Card <- {"card"}, Staged <- {"bench"},
    Workers <- 2, MaxQueued <- 2, MaxCrashes <- 1

B == INSTANCE AutotuneBatch WITH
    status <- bStatus, thread <- bThread, flag <- bFlag, cancelling <- bCancelling,
    settling <- bSettling, up <- bUp, at <- bAt, snap <- bSnap, crashes <- bCrashes,
    Batch <- {"a"}, Job <- {"a1", "a2"}, BatchOf <- [j \in {"a1", "a2"} |-> "a"], Host <- {"h1"},
    ItemsOf <- [b \in {"a"} |-> <<"h1">>], Restarts <- {"a"}, Workers <- 2,
    MaxCrashes <- 1, MaxRaises <- 1, MaxCancels <- 1

bufferVars == <<st, fl, produced, delivered, repeated, gone, faults, writeFaults>>
queueVars ==
    <<status, thread, flag, cancelling, settling, up, asked, blob, at, outcome, snap, busy, card,
      noted, starts, cut, overtaken, unheard, gaveUp, crashes>>
batchVars ==
    <<bStatus, bThread, bFlag, bCancelling, bSettling, bUp, row, mem, bAt, item, todo, marked,
      current, bSnap, route, arming, redo, booted, serving, downBy, tune, lost, torn, bCrashes,
      raises, cancels>>
all == <<part, vars, bufferVars, queueVars, batchVars>>

InGateway(A) == part = "gateway" /\ A /\ UNCHANGED <<part, bufferVars, queueVars, batchVars>>
InBuffer(A) == part = "buffer" /\ A /\ UNCHANGED <<part, vars, queueVars, batchVars>>
InQueue(A) == part = "queue" /\ A /\ UNCHANGED <<part, vars, bufferVars, batchVars>>
InBatch(A) == part = "batch" /\ A /\ UNCHANGED <<part, vars, bufferVars, queueVars>>

(* Two of three runs are asked for on an idle host, with a restart to come;  *)
(* or one, on a host that somebody else keeps busy.                          *)
QueueInit ==
    LET n == Cardinality({j \in Runs : asked[j] = "no"}) IN
    CASE part # "queue" -> n = 0 /\ busy["h"] = "nobody" /\ crashes = 0
      [] part = "queue" /\ crashes = 0 -> n = 2 /\ busy["h"] = "nobody"
      [] OTHER -> n = 1 /\ busy["h"] = "somebody"

(* A cancel, or a restart and an exception, are to come.                     *)
BatchInit ==
    /\ B!Init
    /\ part # "batch" => serving = {}
    /\ IF part = "batch" THEN bCrashes = raises /\ cancels = 1 - raises
                         ELSE bCrashes = 0 /\ raises = 0 /\ cancels = 0

LInit ==
    /\ part \in {"gateway", "buffer", "queue", "batch"}
    /\ IF part = "gateway" THEN MCInit ELSE MCRest
    /\ MB!Init /\ Q!Init /\ QueueInit /\ BatchInit

LNext == InGateway(Next) \/ InBuffer(MB!Next) \/ InQueue(Q!Next) \/ InBatch(B!Next)

Step(A) == InGateway(A /\ UNCHANGED ages)
Run(j) ==
    InQueue(Q!Direct(j) \/ Q!Count(j) \/ Q!Insert(j) \/ Q!Handler(j) \/ Q!Service(j) \/ Q!CardEnds(j))

LFairness ==
    /\ WF_all(Step(Serve(1)) \/ InBuffer(MB!Snapshot("loop")) \/ Run("bench") \/ InBatch(B!Boot))
    /\ WF_all(Step(Serve(2)) \/ InBuffer(MB!Commit("loop")) \/ Run("tune") \/ InBatch(B!Recovered))
    /\ WF_all(InBuffer(MB!Abort("loop")) \/ Run("card") \/ InBatch(B!Manager("a")))
    /\ WF_all(InBuffer(MB!PostOk("loop") \/ MB!PostFail("loop")) \/ InQueue(Q!Recovered)
                \/ InBatch(B!Runner("a1") \/ B!Service("a1")))
    /\ WF_all(InQueue(Q!RunEnds("h") \/ (~Q!Busy("h") /\ Q!DropNote("h")))
                \/ InBatch(B!Runner("a2") \/ B!Service("a2")))
    /\ SF_all(Step(Refresh("kick")) \/ InBuffer(MB!PostOk("loop")) \/ InQueue(Q!Start("bench"))
                \/ InBatch(B!Start("a1")))
    /\ SF_all(Step(Refresh("list")) \/ InQueue(Q!Start("tune")) \/ InBatch(B!Start("a2")))
    /\ SF_all(InQueue(Q!Start("card")))

LSpec == LInit /\ [][LNext]_all /\ LFairness

-----------------------------------------------------------------------------
(* Once no more samples come, none stays in the buffer for good.             *)
EventuallyDelivered == MB!EventuallyDelivered

(* A run asked for once is started once.                                     *)
StartedOnce == Q!StartedOnce

(* A run that was started is in somebody's hands.                            *)
RunHasKeeper == Q!RunHasKeeper

(* A run that waits for its host gets its turn and ends.                     *)
WaitersRun == Q!WaitersRun

(* A batch once accepted ends, so that another one can be started.           *)
BatchEnds == B!BatchEnds
=============================================================================
