----------------------------- MODULE JobService -----------------------------
(***************************************************************************)
(* What the job service promises the kinds it runs (jobs.py, as tool_queue *)
(* and autotune_batch rely on it), without the dispatcher's passes, its    *)
(* due list and its bookkeeping: a row's status, the thread of its         *)
(* handler, the flag behind job.cancelled(), and the hook calls the        *)
(* service still has to make.  Jobs implements this specification; the     *)
(* modules of the kinds are written over it.                               *)
(***************************************************************************)
EXTENDS Naturals, FiniteSets

CONSTANTS
    Job,       \* row ids
    KeysOf,    \* row -> its exclusive keys
    Workers    \* cap on running rows

VARIABLES
    status,      \* row -> status
    thread,      \* the handler: none, due (row started, thread not), alive, over
    flag,        \* rows whose live handler sees job.cancelled()
    cancelling,  \* cancel(): the on_cancel and on_finish calls still to come
    settling,    \* rows that ended by themselves and whose on_finish is to come
    up           \* boot recovery is complete

jobVars == <<status, thread, flag, cancelling, settling, up>>

JobLive == {"queued", "running"}
JobEnded == {"done", "failed", "cancelled"}

JobInit ==
    /\ status = [j \in Job |-> "absent"]
    /\ thread = [j \in Job |-> "none"]
    /\ flag = {}
    /\ cancelling = [j \in Job |-> "none"]
    /\ settling = {}
    /\ up = TRUE

JobSubmit(j) ==
    /\ status[j] = "absent"
    /\ status' = [status EXCEPT ![j] = "queued"]
    /\ UNCHANGED <<thread, flag, cancelling, settling, up>>

(* A due row is marked running when no running row holds one of its keys and *)
(* a worker is free; the handler is called once for it.                      *)
JobStart(j) ==
    /\ up
    /\ status[j] = "queued"
    /\ thread[j] = "none"
    /\ \A k \in Job : status[k] = "running" => KeysOf[j] \cap KeysOf[k] = {}
    /\ Cardinality({k \in Job : status[k] = "running"}) < Workers
    /\ status' = [status EXCEPT ![j] = "running"]
    /\ thread' = [thread EXCEPT ![j] = "due"]
    /\ UNCHANGED <<flag, cancelling, settling, up>>

(* The thread starts with a clear flag, even for a row cancelled meanwhile.  *)
JobLaunch(j) ==
    /\ thread[j] = "due"
    /\ thread' = [thread EXCEPT ![j] = "alive"]
    /\ UNCHANGED <<status, flag, cancelling, settling, up>>

(* A kind that is not registered any more fails without hooks.               *)
JobUnknown(j) ==
    /\ thread[j] = "due"
    /\ thread' = [thread EXCEPT ![j] = "none"]
    /\ status' = IF status[j] = "running" THEN [status EXCEPT ![j] = "failed"] ELSE status
    /\ UNCHANGED <<flag, cancelling, settling, up>>

JobReturn(j) ==
    /\ thread[j] = "alive"
    /\ thread' = [thread EXCEPT ![j] = "over"]
    /\ flag' = flag \ {j}
    /\ UNCHANGED <<status, cancelling, settling, up>>

(* The outcome is applied.  A row that is not running any more keeps its     *)
(* status; the service may have looked before a cancel and written after it, *)
(* and then on_finish still follows.                                         *)
JobSettle(j, to) ==
    /\ thread[j] = "over"
    /\ to \in {"queued", "done", "failed"}
    /\ thread' = [thread EXCEPT ![j] = "none"]
    /\ \/ /\ status[j] = "running"
          /\ status' = [status EXCEPT ![j] = to]
          /\ settling' = IF to = "queued" THEN settling ELSE settling \cup {j}
       \/ /\ status[j] # "running"
          /\ UNCHANGED status
          /\ settling' \in {settling, settling \cup {j}}
    /\ UNCHANGED <<flag, cancelling, up>>

JobFinish(j) ==
    /\ j \in settling
    /\ settling' = settling \ {j}
    /\ UNCHANGED <<status, thread, flag, cancelling, up>>

Raised(j) == IF thread[j] = "alive" THEN flag \cup {j} ELSE flag

(* cancel(): marks the row, then raises the flag and calls on_cancel, then   *)
(* calls on_finish.                                                          *)
JobCancel(j) ==
    /\ up
    /\ status[j] \in JobLive
    /\ cancelling' = [cancelling EXCEPT ![j] = IF status[j] = "running" THEN "signal" ELSE "finish"]
    /\ status' = [status EXCEPT ![j] = "cancelled"]
    /\ UNCHANGED <<thread, flag, settling, up>>

JobCancelSignal(j) ==
    /\ cancelling[j] = "signal"
    /\ flag' = Raised(j)
    /\ cancelling' = [cancelling EXCEPT ![j] = "finish"]
    /\ UNCHANGED <<status, thread, settling, up>>

JobCancelFinish(j) ==
    /\ cancelling[j] = "finish"
    /\ cancelling' = [cancelling EXCEPT ![j] = "none"]
    /\ UNCHANGED <<status, thread, flag, settling, up>>

(* A row past its limit: the flag and on_cancel first, then the status.      *)
JobExpireSignal(j) ==
    /\ status[j] # "queued"
    /\ flag' = Raised(j)
    /\ UNCHANGED <<status, thread, cancelling, settling, up>>

JobExpire(j) ==
    /\ status[j] = "running"
    /\ status' = [status EXCEPT ![j] = "failed"]
    /\ settling' = settling \cup {j}
    /\ UNCHANGED <<thread, flag, cancelling, up>>

JobSweep ==
    /\ \E old \in SUBSET {j \in Job : status[j] \in JobEnded} :
         status' = [j \in Job |-> IF j \in old THEN "swept" ELSE status[j]]
    /\ UNCHANGED <<thread, flag, cancelling, settling, up>>

(* A pass that raises forgets what it had in hand.                           *)
JobFault ==
    /\ \E lost \in SUBSET {j \in Job : thread[j] \in {"due", "over"}} :
         thread' = [j \in Job |-> IF j \in lost THEN "none" ELSE thread[j]]
    /\ settling' = {}
    /\ up' = TRUE
    /\ UNCHANGED <<status, flag, cancelling>>

(* A restart keeps the rows and nothing else; recover() then queues or fails *)
(* the ones left running.                                                    *)
JobCrash ==
    /\ thread' = [j \in Job |-> "none"]
    /\ flag' = {}
    /\ cancelling' = [j \in Job |-> "none"]
    /\ settling' = {}
    /\ up' = FALSE
    /\ UNCHANGED status

JobRecover(j, to) ==
    /\ ~up
    /\ status[j] = "running"
    /\ to \in {"queued", "failed"}
    /\ status' = [status EXCEPT ![j] = to]
    /\ UNCHANGED <<thread, flag, cancelling, settling, up>>

JobRecovered ==
    /\ ~up
    /\ \A j \in Job : status[j] # "running"
    /\ up' = TRUE
    /\ UNCHANGED <<status, thread, flag, cancelling, settling>>

JobNext ==
    \/ JobSweep \/ JobFault \/ JobCrash \/ JobRecovered
    \/ \E j \in Job :
         \/ JobSubmit(j) \/ JobStart(j) \/ JobLaunch(j) \/ JobUnknown(j) \/ JobReturn(j)
         \/ JobFinish(j) \/ JobCancel(j) \/ JobCancelSignal(j) \/ JobCancelFinish(j)
         \/ JobExpireSignal(j) \/ JobExpire(j)
         \/ \E to \in {"queued", "done", "failed"} : JobSettle(j, to)
         \/ \E to \in {"queued", "failed"} : JobRecover(j, to)

JobSpec == JobInit /\ [][JobNext]_jobVars
=============================================================================
