---------------------------- MODULE MetricBuffer ----------------------------
(***************************************************************************)
(* The agent's disk-backed metric buffer                                   *)
(* (agent/buffered_metric_client.py): BufferStore, a memory deque that     *)
(* spills to a JSONL file, and BufferedMetricClient, whose flush thread    *)
(* posts batches to the alarm engine outside the lock.                     *)
(*                                                                         *)
(* Samples are numbered in the order they are enqueued.  A line of the     *)
(* file is one sample and one unit of size, so the byte offset and the     *)
(* byte budget are counted in lines.  BufferStore is the record `st`, its  *)
(* methods are operators on that record, and an action is one critical     *)
(* section of BufferedMetricClient._lock.                                  *)
(***************************************************************************)
EXTENDS Integers, Sequences, FiniteSets, SequencesExt

CONSTANTS
    MaxMemory,   \* max_memory_samples
    MaxDisk,     \* max_disk_bytes
    Limit,       \* batch_limit
    CompactAt,   \* _COMPACT_THRESHOLD_BYTES
    Flusher,     \* threads in _flush_once: the flush loop, stop(drain=True)
    MaxSamples,  \* bound: samples produced
    MaxFaults,   \* bound: lost replies, rotations and restarts
    MaxWriteFaults  \* bound: appends to the file that raise OSError

VARIABLES
    st,         \* the BufferStore
    fl,         \* each thread's _flush_once call
    produced,   \* samples enqueued so far
    delivered,  \* samples the alarm engine has ingested
    repeated,   \* samples it has ingested more than once
    gone,       \* samples lost with the process or with a deleted file
    faults,
    writeFaults

vars == <<st, fl, produced, delivered, repeated, gone, faults, writeFaults>>

Sample == 1..MaxSamples

Claim == [disk_lines : Nat, new_offset : Nat, mem : Nat]
NoClaim == [disk_lines |-> 0, new_offset |-> 0, mem |-> 0]
Idle == [at |-> "idle", batch |-> <<>>, claim |-> NoClaim]

(* Samples in the file past the consumed offset, and all buffered samples.   *)
Unread(s) == SubSeq(s.file, s.offset + 1, Len(s.file))
Buffered(s) == Range(s.memory) \cup Range(Unread(s))

TypeOK ==
    /\ st \in [memory : Seq(Sample), file : Seq(Sample), offset : Nat, disk_count : Nat,
               disk_bytes : Nat, claim_open : BOOLEAN, claimed_mem : Nat,
               claim_stale : BOOLEAN, evicted : SUBSET Sample, dropped : SUBSET Sample]
    /\ fl \in [Flusher -> [at : {"idle", "posting", "posted", "failed"},
                           batch : Seq(Sample), claim : Claim]]
    /\ produced \in 0..MaxSamples
    /\ delivered \subseteq Sample /\ repeated \subseteq Sample /\ gone \subseteq Sample
    /\ faults \in 0..MaxFaults /\ writeFaults \in 0..MaxWriteFaults

(* BufferStore.__init__ on an existing cache file: the offset is not kept.   *)
Opened(file) ==
    [memory |-> <<>>, file |-> file, offset |-> 0, disk_count |-> Len(file),
     disk_bytes |-> Len(file), claim_open |-> FALSE, claimed_mem |-> 0,
     claim_stale |-> FALSE, evicted |-> {}, dropped |-> {}]

Init ==
    /\ st = Opened(<<>>)
    /\ fl = [f \in Flusher |-> Idle]
    /\ produced = 0
    /\ delivered = {} /\ repeated = {} /\ gone = {}
    /\ faults = 0 /\ writeFaults = 0

-----------------------------------------------------------------------------
(* BufferStore *)

(* _resync_if_rotated(): the file was deleted, truncated or written outside  *)
(* the bookkeeping.  A missing file is an empty one.                         *)
Rotated(s) == Len(s.file) # s.disk_bytes \/ Len(s.file) < s.offset

(* Mutant: the cursor survives a shrunk file.                                *)
ResyncKeepsOffset(s) ==
    IF ~Rotated(s) THEN s
    ELSE [s EXCEPT !.disk_bytes = Len(s.file), !.disk_count = Len(s.file) - s.offset,
                   !.claim_stale = @ \/ s.claim_open]

Resync(s) ==
    LET shrunk == Len(s.file) < s.offset \/ Len(s.file) < s.disk_bytes
        off == IF shrunk THEN 0 ELSE s.offset
    IN  IF ~Rotated(s) THEN s
        ELSE [s EXCEPT !.offset = off, !.disk_bytes = Len(s.file),
                       !.disk_count = Len(s.file) - off,
                       !.claim_stale = @ \/ s.claim_open]

Unlink(s) ==
    [s EXCEPT !.file = <<>>, !.offset = 0, !.disk_count = 0, !.disk_bytes = 0,
              !.claim_stale = @ \/ s.claim_open]

(* Mutant: the copy starts a line behind the cursor.                         *)
CompactShort(s) ==
    IF s.offset = 0 THEN s
    ELSE IF Len(Unread(s)) < 2 THEN Unlink(s)
    ELSE [s EXCEPT !.file = Tail(Unread(s)), !.offset = 0,
                   !.disk_count = @ - 1, !.disk_bytes = Len(Unread(s)) - 1]

Compact(s) ==
    IF s.offset = 0 THEN s
    ELSE IF Unread(s) = <<>> THEN Unlink(s)
    ELSE [s EXCEPT !.file = Unread(s), !.offset = 0, !.disk_bytes = Len(Unread(s))]

(* _enforce_budget(): compact, then drop the oldest lines over the budget;   *)
(* put off while a claim is open.                                            *)
Enforce(s) ==
    LET c == Compact(s)
        over == Len(c.file) - MaxDisk
    IN  IF s.claim_open THEN s
        ELSE IF over <= 0 THEN [c EXCEPT !.disk_bytes = Len(c.file)]
        ELSE [c EXCEPT !.file = SubSeq(c.file, over + 1, Len(c.file)),
                       !.disk_count = IF @ > over THEN @ - over ELSE 0,
                       !.disk_bytes = MaxDisk,
                       !.evicted = @ \cup Range(SubSeq(c.file, 1, over))]

(* Mutant: the budget comparison is off by one.                              *)
EnforceIfWellOver(s) == IF s.disk_bytes > MaxDisk + 1 THEN Enforce(s) ELSE s

EnforceIfOver(s) == IF s.disk_bytes > MaxDisk THEN Enforce(s) ELSE s

(* _append_disk(): w is Len(xs) + 1 when the write succeeds; otherwise the   *)
(* write raised with w lines in the file, the bookkeeping is not updated     *)
(* and the caller has already taken the samples out of memory.               *)
AppendDisk(s0, xs, w) ==
    LET s == Resync(s0)
    IN  IF w > Len(xs)
        THEN EnforceIfOver([s EXCEPT !.file = @ \o xs, !.disk_count = @ + Len(xs),
                                     !.disk_bytes = @ + Len(xs)])
        ELSE [s EXCEPT !.file = @ \o SubSeq(xs, 1, w),
                       !.dropped = @ \cup Range(SubSeq(xs, w + 1, Len(xs)))]

(* _spill_overflow(protect): how many samples move to disk, and the move.    *)
SpillCount(s, protect) ==
    LET n == Len(s.memory)
        want == n - (MaxMemory \div 2)
    IN  IF n <= MaxMemory \/ n <= protect THEN 0
        ELSE IF want < n - protect THEN want ELSE n - protect

SpillOverflow(s, protect, w) ==
    LET n == SpillCount(s, protect)
        spilled == SubSeq(s.memory, protect + 1, protect + n)
        kept == SubSeq(s.memory, 1, protect) \o SubSeq(s.memory, protect + n + 1, Len(s.memory))
    IN  IF n = 0 THEN s ELSE AppendDisk([s EXCEPT !.memory = kept], spilled, w)

(* enqueue(): under an open claim only the emergency valve at twice the      *)
(* bound spills, behind the claimed front.                                   *)
ProtectNothing(s) == 0                 \* mutant: the valve spills the claimed front
Protect(s) == IF s.claim_open THEN s.claimed_mem ELSE 0

EnqueueSpills(s) ==
    /\ s.claim_open => Len(s.memory) > 2 * MaxMemory
    /\ SpillCount(s, Protect(s)) > 0

Enqueued(s, w) ==
    IF EnqueueSpills(s) THEN Resync(SpillOverflow(s, Protect(s), w)) ELSE s

(* snapshot(limit): disk first, then memory; opens a claim.                  *)
SnapshotClaim(s) ==
    LET lines == IF s.disk_count = 0 THEN 0
                 ELSE IF Len(Unread(s)) < Limit THEN Len(Unread(s)) ELSE Limit
        mem == IF Len(s.memory) < Limit - lines THEN Len(s.memory) ELSE Limit - lines
    IN  [disk_lines |-> lines, new_offset |-> s.offset + lines, mem |-> mem]

ClaimedBatch(s, c) ==
    SubSeq(s.file, s.offset + 1, s.offset + c.disk_lines) \o SubSeq(s.memory, 1, c.mem)

(* commit(claim): a claim whose file was rotated consumes no disk lines.     *)
Stale(s) == s.claim_stale \/ Rotated(s)

Consumed(s0, c) ==
    LET s == Resync(s0)
        use == c.disk_lines > 0 /\ ~Stale(s0)
    IN  [s EXCEPT !.offset = IF use THEN c.new_offset ELSE @,
                  !.disk_count = IF ~use THEN @ ELSE IF @ > c.disk_lines THEN @ - c.disk_lines ELSE 0,
                  !.memory = SubSeq(@, c.mem + 1, Len(@)),
                  !.claim_open = FALSE, !.claimed_mem = 0, !.claim_stale = FALSE]

(* Mutant: the cursor is reset and the consumed prefix stays in the file.    *)
TidiedRewinds(s) == IF s.disk_count = 0 THEN Unlink(s) ELSE [s EXCEPT !.offset = 0]

Tidied(s) ==
    IF s.disk_count = 0 THEN Unlink(s)
    ELSE IF s.offset >= CompactAt THEN Compact(s) ELSE s

(* ... and the deferred spill, writing as w says.                            *)
Committed(s, c, w) ==
    Resync(EnforceIfOver(SpillOverflow(Tidied(Consumed(s, c)), 0, w)))

(* abort(): the claim is dropped, nothing is consumed.                       *)
ReleasedNot(s) == Resync(s)            \* mutant: abort() forgets the open claim

Released(s) ==
    [Resync(s) EXCEPT !.claim_open = FALSE, !.claimed_mem = 0, !.claim_stale = FALSE]

Aborted(s, w) ==
    LET r == Released(s)
        e == EnforceIfOver(SpillOverflow(r, 0, w))
    IN  IF SpillCount(r, 0) > 0 THEN Resync(e) ELSE e

-----------------------------------------------------------------------------
(* BufferedMetricClient *)

(* How a write of n lines may end, and the faults it takes.                  *)
Writes(n) == {n + 1} \cup (IF n > 0 /\ writeFaults < MaxWriteFaults THEN 0..n ELSE {})
WriteEnds(n, w) == writeFaults' = IF w <= n THEN writeFaults + 1 ELSE writeFaults

Enqueue ==
    /\ produced < MaxSamples
    /\ produced' = produced + 1
    /\ LET s == [st EXCEPT !.memory = Append(@, produced + 1)]
           n == IF EnqueueSpills(s) THEN SpillCount(s, Protect(s)) ELSE 0
       IN  \E w \in Writes(n) : st' = Enqueued(s, w) /\ WriteEnds(n, w)
    /\ UNCHANGED <<fl, delivered, repeated, gone, faults>>

Claimable(s) == ~s.claim_open

(* _flush_once() up to the POST.  With a claim open, or nothing to send, the *)
(* snapshot is empty and the call returns.                                   *)
Snapshot(f) ==
    /\ fl[f].at = "idle"
    /\ Claimable(st)
    /\ LET s == Resync(st)
           c == SnapshotClaim(s)
           batch == ClaimedBatch(s, c)
       IN  IF batch = <<>>
           THEN st' = s /\ UNCHANGED fl
           ELSE /\ st' = [s EXCEPT !.claim_open = TRUE, !.claimed_mem = c.mem]
                /\ fl' = [fl EXCEPT ![f] = [at |-> "posting", batch |-> batch, claim |-> c]]
    /\ UNCHANGED <<produced, delivered, repeated, gone, faults, writeFaults>>

(* The POST, outside the lock: the alarm engine ingests the batch and        *)
(* answers, ingests it and the answer is lost, or never sees it.             *)
Ingest(f) ==
    /\ repeated' = repeated \cup (delivered \cap Range(fl[f].batch))
    /\ delivered' = delivered \cup Range(fl[f].batch)

PostOk(f) ==
    /\ fl[f].at = "posting"
    /\ Ingest(f)
    /\ fl' = [fl EXCEPT ![f].at = "posted"]
    /\ UNCHANGED <<st, produced, gone, faults, writeFaults>>

PostReplyLost(f) ==
    /\ fl[f].at = "posting"
    /\ faults < MaxFaults
    /\ faults' = faults + 1
    /\ Ingest(f)
    /\ fl' = [fl EXCEPT ![f].at = "failed"]
    /\ UNCHANGED <<st, produced, gone, writeFaults>>

PostFail(f) ==
    /\ fl[f].at = "posting"
    /\ fl' = [fl EXCEPT ![f].at = "failed"]
    /\ UNCHANGED <<st, produced, delivered, repeated, gone, faults, writeFaults>>

(* The end of _flush_once(): commit after a good answer, abort otherwise.    *)
Commit(f) ==
    /\ fl[f].at = "posted"
    /\ LET n == SpillCount(Tidied(Consumed(st, fl[f].claim)), 0)
       IN  \E w \in Writes(n) :
             /\ st' = Committed(st, fl[f].claim, w)
             /\ WriteEnds(n, w)
    /\ fl' = [fl EXCEPT ![f] = Idle]
    /\ UNCHANGED <<produced, delivered, repeated, gone, faults>>

Abort(f) ==
    /\ fl[f].at = "failed"
    /\ LET n == SpillCount(Released(st), 0)
       IN  \E w \in Writes(n) : st' = Aborted(st, w) /\ WriteEnds(n, w)
    /\ fl' = [fl EXCEPT ![f] = Idle]
    /\ UNCHANGED <<produced, delivered, repeated, gone, faults>>

(* Somebody removes or truncates buffer.jsonl.                               *)
Rotate ==
    /\ faults < MaxFaults
    /\ st.file # <<>>
    /\ faults' = faults + 1
    /\ gone' = gone \cup Range(st.file)
    /\ st' = [st EXCEPT !.file = <<>>]
    /\ UNCHANGED <<fl, produced, delivered, repeated, writeFaults>>

(* The agent dies and starts again: memory and calls in flight are gone, the *)
(* file is opened from its first line.                                       *)
Restart ==
    /\ faults < MaxFaults
    /\ faults' = faults + 1
    /\ gone' = gone \cup Range(st.memory)
    /\ st' = [Opened(st.file) EXCEPT !.evicted = st.evicted, !.dropped = st.dropped]
    /\ fl' = [f \in Flusher |-> Idle]
    /\ UNCHANGED <<produced, delivered, repeated, writeFaults>>

Next ==
    \/ Enqueue \/ Rotate \/ Restart
    \/ \E f \in Flusher :
         Snapshot(f) \/ PostOk(f) \/ PostReplyLost(f) \/ PostFail(f) \/ Commit(f) \/ Abort(f)

Spec == Init /\ [][Next]_vars

(* The flush loop keeps calling _flush_once and a call runs to its end; the  *)
(* alarm engine answers some of infinitely many attempts.                    *)
FairSpec ==
    /\ Spec
    /\ \A f \in Flusher :
         /\ WF_vars(Snapshot(f)) /\ WF_vars(Commit(f)) /\ WF_vars(Abort(f))
         /\ WF_vars(PostOk(f) \/ PostFail(f)) /\ SF_vars(PostOk(f))

-----------------------------------------------------------------------------
(* No sample disappears unrecorded: one that was enqueued is buffered,       *)
(* delivered, evicted for the budget (counted), dropped by a failed disk     *)
(* write (logged), or went with the process or a deleted file.  Commit       *)
(* removes only what was posted, whatever spilled meanwhile.                 *)
Recorded == delivered \cup Buffered(st) \cup st.evicted \cup st.dropped \cup gone

Accounted == writeFaults = 0 => 1..produced \subseteq Recorded

(* While a claim is open and its file was not rotated, the claimed disk      *)
(* range and the claimed deque front are exactly the batch being posted      *)
(* (snapshot(): they "cannot shift"); the flush loop and a draining stop()   *)
(* never post at the same time.                                              *)
ClaimHoldsStill ==
    \A f \in Flusher :
        fl[f].at # "idle" =>
          LET c == fl[f].claim IN
          /\ \A g \in Flusher \ {f} : fl[g].at = "idle"
          /\ st.claim_open /\ st.claimed_mem = c.mem
          /\ c.mem <= Len(st.memory)
          /\ SubSeq(st.memory, 1, c.mem) =
               SubSeq(fl[f].batch, c.disk_lines + 1, Len(fl[f].batch))
          /\ ~st.claim_stale /\ ~Rotated(st) =>
               /\ c.new_offset = st.offset + c.disk_lines
               /\ SubSeq(st.file, st.offset + 1, c.new_offset) =
                    SubSeq(fl[f].batch, 1, c.disk_lines)

(* Memory stays within its bound, under a claim within twice the bound;      *)
(* outside a claim the file stays within its budget, but for the lines a     *)
(* failed write left in it.                                                  *)
Budgets ==
    /\ Len(st.memory) <= IF st.claim_open THEN 2 * MaxMemory ELSE MaxMemory
    /\ ~st.claim_open /\ faults = 0 /\ writeFaults = 0 => Len(st.file) <= MaxDisk

(* Without failed writes, lost replies, rotations and restarts the alarm     *)
(* engine ingests no sample twice.                                           *)
NoRepeatWhenCalm == faults = 0 /\ writeFaults = 0 => repeated = {}

(* Once no more samples come, every one is ingested in the end, or was       *)
(* evicted, dropped or lost: none stays in the buffer for good, in the file  *)
(* behind a claim that was not given back or in a deque that never spills.   *)
EventuallyDelivered ==
    []<>(1..produced \subseteq delivered \cup st.evicted \cup st.dropped \cup gone)
=============================================================================
