------------------------- MODULE PowerArbiterProofs -------------------------
(* Theorems about PowerArbiter, for any runs, users, reports of the          *)
(* providers and number of reloads.                                          *)
EXTENDS PowerArbiter, TLAPS

(* Why there is one writer: a worker leaves Join only after its predecessor  *)
(* has ended, so every worker before an active one has ended; generations    *)
(* after the published one have none.                                        *)
WriterInv ==
    /\ thread \in [Gen -> {"none", "joining", "loop", "apply", "ran", "ended"}]
    /\ cur \in Gen
    /\ reload.at # "none" => cur < MaxGen
    /\ \A g \in Gen : g > cur => thread[g] = "none"
    /\ \A g, k \in Gen : g < k /\ thread[k] \notin {"none", "joining"} => thread[g] = "ended"

(* A new agent has one worker.                                               *)
LEMMA WriterInit == Init => WriterInv
BY ArbiterAssumption DEF Init, WriterInv, Gen

(* Every step keeps that order of workers.                                   *)
LEMMA WriterStep == WriterInv /\ [Next]_vars => WriterInv'
<1>. SUFFICES ASSUME WriterInv, [Next]_vars
              PROVE  WriterInv'
  OBVIOUS
<1>. USE ArbiterAssumption DEF WriterInv, Gen
<1>1. ASSUME NEW g \in Gen, Join(g)
      PROVE  WriterInv'
  BY <1>1 DEF Join, At
<1>2. ASSUME NEW g \in Gen, LoopTake(g) \/ LoopEnd(g) \/ Defer(g) \/ Switch(g) \/ Commit(g)
      PROVE  WriterInv'
  BY <1>2, Zenon DEF LoopTake, LoopEnd, Defer, Switch, Commit, At
<1>3. ASSUME NEW m \in Mode, ReloadStop(m)
      PROVE  WriterInv'
  BY <1>3 DEF ReloadStop, LockFree
<1>4. CASE ReloadRecover
  BY <1>4 DEF ReloadRecover
<1>5. CASE ReloadAdopt
  BY <1>5 DEF ReloadAdopt, At
<1>6. CASE Restart
  BY <1>6 DEF Restart
<1>7. CASE UNCHANGED <<thread, cur, reload>>
  BY <1>7
<1>8. ASSUME NEW g \in Gen, LoopWait(g) \/ BackoffOver(g) \/ WindowSlides(g)
      PROVE  UNCHANGED <<thread, cur, reload>>
  BY <1>8 DEF LoopWait, BackoffOver, WindowSlides
<1>9. ASSUME NEW c \in Caller, Settled(c) \/ TimedOut(c)
      PROVE  UNCHANGED <<thread, cur, reload>>
  BY <1>9 DEF Settled, TimedOut, Return
<1>10. ASSUME NEW g \in Gen, NEW c \in Run, Take(c, g) \/ Release(c, g)
       PROVE  UNCHANGED <<thread, cur, reload>>
  BY <1>10 DEF Take, Release
<1>11. ASSUME NEW g \in Gen, NEW c \in Panel, NEW p \in MaybeProfile, Press(c, p, g)
       PROVE  UNCHANGED <<thread, cur, reload>>
  BY <1>11 DEF Press
<1>12. ASSUME NEW g \in Gen, NEW s \in Sample, Tick(s, g)
       PROVE  UNCHANGED <<thread, cur, reload>>
  BY <1>12 DEF Tick
<1>13. CASE UNCHANGED vars
  BY <1>13 DEF vars
<1>. QED
  BY <1>1, <1>2, <1>3, <1>4, <1>5, <1>6, <1>7, <1>8, <1>9, <1>10, <1>11, <1>12, <1>13, Zenon DEF Next, Worker

(* "The only writer of the performance/powersave units": at any time at most *)
(* one worker of all the arbiters ever built is switching the host.          *)
THEOREM SingleWriter == Spec => []OneWriter
<1>1. WriterInv => OneWriter
  BY DEF WriterInv, OneWriter, Gen
<1>. QED
  BY <1>1, WriterInit, WriterStep, PTL DEF Spec

-----------------------------------------------------------------------------
(* Types.  What _apply() has at hand: a profile to switch to, an outcome     *)
(* once it ran, and room for one more switch time.                           *)
ApplyInv ==
    \A g \in Gen :
        /\ thread[g] \in {"apply", "ran"} => arb[g].target \in Profile
        /\ thread[g] = "ran" => arb[g].recent < Cap /\ arb[g].result \in Outcome

Typed == TypeOK /\ WriterInv /\ ApplyInv

(* The arbiter b is a with other fields than those of _apply() and the holds *)
(* of the runs.                                                              *)
Keeps(a, b) ==
    /\ b \in Arbiter
    /\ b.target = a.target /\ b.result = a.result /\ b.recent = a.recent
    /\ b.applied = a.applied /\ b.busy = a.busy /\ (a.stop => b.stop)
    /\ b.jobs = a.jobs /\ b.mode = a.mode

(* Waking the worker changes nothing else.                                   *)
LEMMA NotifyKeeps ==
    ASSUME NEW a \in Arbiter
    PROVE  Keeps(a, Notify(a))
BY Zenon DEF Keeps, Notify, Arbiter

(* Neither does a press of the manual switch but to the manual hold.         *)
LEMMA PressKeeps ==
    ASSUME NEW a \in Arbiter, NEW p \in MaybeProfile
    PROVE  Keeps(a, Notify([a EXCEPT !.manual = p]))
BY Zenon DEF Keeps, Notify, Arbiter

(* A tick changes the policy and what it rests on, and the manual hold.      *)
LEMMA TickKeeps ==
    ASSUME NEW a \in Arbiter, NEW agg \in Aggregates, NEW p \in Profile \cup {"hold"}
    PROVE  Keeps(a, SetPolicy(OnAggregate(a, agg), p))
<1>. DEFINE b == OnAggregate(a, agg)
<1>1. Keeps(a, b)
  BY Zenon DEF Keeps, Notify, Arbiter, OnAggregate, MaybeProfile
<1>2. Keeps(b, SetPolicy(b, p))
  <2>. HIDE DEF b
  <2>1. CASE p = "hold"
    BY <1>1, <2>1 DEF Keeps, SetPolicy
  <2>2. CASE p \in Profile
    <3>. DEFINE n == IF b.pending = p THEN b.count + 1 ELSE 1
                c == [b EXCEPT !.pending = p, !.count = IF n < Dwell THEN n ELSE Dwell]
    <3>1. b \in Arbiter /\ p \in MaybeProfile /\ p # "hold"
      BY <1>1, <2>2 DEF Keeps, MaybeProfile, Profile
    <3>2. n \in Nat \ {0}
      BY <3>1 DEF Arbiter
    <3>3. (IF n < Dwell THEN n ELSE Dwell) \in 0..Dwell
      BY <3>2, ArbiterAssumption
    <3>4. Keeps(b, c)
      BY <3>1, <3>3, Zenon DEF Keeps, Arbiter
    <3>5. SetPolicy(b, p) = IF n >= Dwell THEN Notify([c EXCEPT !.policy = p]) ELSE c
      BY <3>1 DEF SetPolicy
    <3>. HIDE DEF c, n
    <3>6. Keeps(c, Notify([c EXCEPT !.policy = p]))
      BY <3>1, <3>4, Zenon DEF Keeps, Notify, Arbiter
    <3>. QED
      BY <3>4, <3>5, <3>6 DEF Keeps
  <2>. QED
    BY <2>1, <2>2
<1>. QED
  BY <1>1, <1>2 DEF Keeps

(* Ticks propose a profile or none.                                          *)
LEMMA ResidencyType ==
    ASSUME NEW s, NEW n \in 0..UnknownMax
    PROVE  /\ Aggregate(s) \in Aggregates
           /\ UnknownTicks(Aggregate(s), n) \in 0..UnknownMax
           /\ DesiredProfile(Aggregate(s), UnknownTicks(Aggregate(s), n)) \in Profile \cup {"hold"}
<1>1. Aggregate(s) \in Aggregates
  BY DEF Aggregate, Aggregates
<1>2. UnknownTicks(Aggregate(s), n) \in 0..UnknownMax
  BY ArbiterAssumption DEF UnknownTicks
<1>. QED
  BY <1>1, <1>2 DEF DesiredProfile, Profile, Aggregates

(* recover() leaves an arbiter without holds and with nothing in hand.       *)
LEMMA RecoveredType ==
    ASSUME NEW m \in Modes, NEW rec \in MaybeProfile, NEW grade \in Outcome
    PROVE  Recovered(New(m), rec, grade) \in Arbiter /\ Recovered(New(m), rec, grade).jobs = {}
<1>1. New(m) \in Arbiter /\ New(m).jobs = {}
  BY ArbiterAssumption DEF New, Arbiter, MaybeProfile, MaybeOutcome, Aggregates
<1>. DEFINE a == New(m)
<1>. HIDE DEF a
<1>2. [a EXCEPT !.applied = rec, !.outcome = grade, !.settled = grade] \in Arbiter
  BY <1>1, Zenon DEF a, Arbiter, MaybeOutcome
<1>3. [a EXCEPT !.applied = rec, !.outcome = grade, !.settled = grade].jobs = {}
  BY <1>1 DEF a, Arbiter
<1>. QED
  BY <1>1, <1>2, <1>3 DEF Recovered, a

(* A call in a place, waiting for a profile or not.                          *)
LEMMA CallType ==
    ASSUME NEW g \in Gen, NEW where \in {"idle", "waiting", "running", "unheld"}, NEW p \in MaybeProfile
    PROVE  In(where, g) \in Call /\ [In(where, g) EXCEPT !.want = p] \in Call
<1>1. Caller0 \in Call
  BY ArbiterAssumption DEF Caller0, Call, Attempt, NoAttempt, MaybeProfile, MaybeOutcome, Gen
<1>2. In(where, g) \in Call
  BY <1>1, Zenon DEF In, Call
<1>. QED
  BY <1>2 DEF Call

(* A step that edits one arbiter outside _apply() keeps its types.           *)
LEMMA EditType ==
    ASSUME Typed, NEW g \in Gen, NEW b, Keeps(arb[g], b), Set(g, b), UNCHANGED thread
    PROVE  arb' \in [Gen -> Arbiter] /\ ApplyInv'
BY DEF Typed, TypeOK, ApplyInv, Keeps, Set

(* A new agent is well typed.                                                *)
LEMMA TypedInit == Init => Typed
<1>. SUFFICES ASSUME Init PROVE TypeOK /\ ApplyInv
  BY WriterInit DEF Typed
<1>1. \A g \in Gen : arb[g] \in Arbiter
  <2>1. Grade(host, record) \in Outcome /\ "full" \in Modes
    BY DEF Grade, Outcome, Modes
  <2>2. Recovered(New("full"), record, Grade(host, record)) \in Arbiter
    BY <2>1, RecoveredType DEF Init
  <2>3. New("full") \in Arbiter
    BY ArbiterAssumption DEF New, Arbiter, Modes, MaybeProfile, MaybeOutcome, Aggregates
  <2>. QED
    BY <2>2, <2>3 DEF Init
<1>2. Caller0 \in Call
  BY ArbiterAssumption DEF Caller0, Call, Attempt, NoAttempt, MaybeProfile, MaybeOutcome, Gen
<1>3. arb \in [Gen -> Arbiter] /\ cl \in [Caller -> Call]
  BY <1>1, <1>2 DEF Init
<1>4. /\ thread \in [Gen -> {"none", "joining", "loop", "apply", "ran", "ended"}]
      /\ \A g \in Gen : thread[g] \in {"loop", "none"}
      /\ cur \in Gen
      /\ tick \in [gen : Gen, unknown : 0..UnknownMax]
      /\ mishaps \in 0..MaxMishaps
  BY ArbiterAssumption DEF Init, Gen
<1>5. reload \in [at : {"none", "stopped", "recovered"}, mode : Modes]
  BY DEF Init, Modes
<1>6. host \in Profile /\ record \in MaybeProfile /\ overlap \in BOOLEAN /\ leaked \subseteq Run
  BY Zenon DEF Init
<1>. QED
  BY <1>3, <1>4, <1>5, <1>6 DEF TypeOK, ApplyInv

(* Every step keeps the types.                                               *)
LEMMA TypedStep == Typed /\ [Next]_vars => Typed'
<1>. SUFFICES ASSUME Typed, [Next]_vars
              PROVE  TypeOK' /\ ApplyInv'
  BY WriterStep DEF Typed
<1>. USE DEF TypeOK
<1>a. WriterInv /\ ApplyInv /\ TypeOK
  BY DEF Typed
<1>b. \A g \in Gen : arb[g] \in Arbiter
  BY <1>a
<1>1. ASSUME NEW g \in Gen, Join(g) \/ LoopEnd(g)
      PROVE  TypeOK' /\ ApplyInv'
  BY <1>a, <1>1 DEF Join, LoopEnd, At, ApplyInv
<1>2. ASSUME NEW g \in Gen, LoopWait(g)
      PROVE  TypeOK' /\ ApplyInv'
  <2>. DEFINE a == arb[g]
              r == IF Converged(a) THEN "none" ELSE a.retry
              o == IF Converged(a) /\ a.outcome = "failed" /\ a.applied # NoProfile
                   THEN a.settled ELSE a.outcome
              b == [a EXCEPT !.asleep = TRUE, !.retry = r, !.outcome = o]
  <2>1. a \in Arbiter
    BY <1>b
  <2>2. r \in {"none", "ahead", "reached"} /\ o \in MaybeOutcome
    BY <2>1 DEF Arbiter
  <2>3. Set(g, b) /\ UNCHANGED <<thread, cur, reload, host, record, cl, tick, overlap, leaked, mishaps>>
    BY <1>2 DEF LoopWait
  <2>4. Keeps(a, b)
    <3>. HIDE DEF a, r, o
    <3>. QED
      BY <2>1, <2>2, Zenon DEF Keeps, Arbiter
  <2>. HIDE DEF b
  <2>. QED
    BY <1>a, <2>3, <2>4, EditType
<1>3. ASSUME NEW g \in Gen, LoopTake(g)
      PROVE  TypeOK' /\ ApplyInv'
  <2>1. Effective(arb[g]) \in Profile
    BY <1>a, <1>3 DEF LoopTake, Converged, Effective, Owner, Arbiter, MaybeProfile, Profile
  <2>2. [arb[g] EXCEPT !.busy = TRUE, !.target = Effective(arb[g])] \in Arbiter
    <3>. DEFINE a == arb[g]
                p == Effective(a)
    <3>1. a \in Arbiter /\ p \in MaybeProfile
      BY <1>b, <2>1 DEF MaybeProfile
    <3>. HIDE DEF a, p
    <3>2. [a EXCEPT !.busy = TRUE, !.target = p] \in Arbiter
      BY <3>1, Zenon DEF Arbiter
    <3>. QED
      BY <3>2 DEF a, p
  <2>. QED
    BY <1>a, <1>3, <2>1, <2>2 DEF LoopTake, Set, At, ApplyInv, Arbiter
<1>4. ASSUME NEW g \in Gen, Defer(g)
      PROVE  TypeOK' /\ ApplyInv'
  <2>. DEFINE b == Notify([arb[g] EXCEPT !.retry = "ahead", !.busy = FALSE, !.target = NoProfile])
  <2>1. b \in Arbiter
    <3>1. [arb[g] EXCEPT !.retry = "ahead", !.busy = FALSE, !.target = NoProfile] \in Arbiter
      BY <1>b, Zenon DEF Arbiter, MaybeProfile
    <3>. QED
      BY <3>1, NotifyKeeps DEF Keeps
  <2>2. arb[g].target \in MaybeProfile
    BY <1>a DEF Arbiter
  <2>3. cl' \in [Caller -> Call]
    BY <1>a, <1>4, <2>2, Zenon DEF Defer, Call
  <2>. QED
    BY <1>a, <1>4, <2>1, <2>3, Zenon DEF Defer, Set, At, ApplyInv
<1>5. ASSUME NEW g \in Gen, Switch(g)
      PROVE  TypeOK' /\ ApplyInv'
  <2>1. PICK r \in Outcome : Set(g, [arb[g] EXCEPT !.result = r])
    BY <1>5 DEF Switch, Outcome
  <2>2. [arb[g] EXCEPT !.result = r] \in Arbiter
    BY <1>a DEF Arbiter, MaybeOutcome
  <2>3. host' \in Profile /\ mishaps' \in 0..MaxMishaps
    BY <1>a, <1>5, ArbiterAssumption DEF Switch, ApplyInv, Mishap
  <2>4. arb[g].recent < Cap
    BY <1>a, <1>5, ArbiterAssumption DEF Switch, Capped, Arbiter
  <2>. QED
    BY <1>a, <1>5, <2>1, <2>2, <2>3, <2>4 DEF Switch, Set, At, ApplyInv, Arbiter
<1>6. ASSUME NEW g \in Gen, Commit(g)
      PROVE  TypeOK' /\ ApplyInv'
  <2>. DEFINE a == arb[g]
              b == [a EXCEPT !.recent = @ + 1, !.outcome = a.result, !.busy = FALSE,
                             !.target = NoProfile, !.result = "none"]
              done == IF a.result = "failed" THEN [b EXCEPT !.retry = "ahead"]
                      ELSE [b EXCEPT !.applied = a.target, !.settled = a.result, !.retry = "none"]
  <2>0. /\ thread[g] = "ran" /\ Set(g, Notify(done)) /\ At(g, "loop")
        /\ cl' = [c \in Caller |->
                    IF c \in Waiting(g)
                    THEN [cl[c] EXCEPT !.switch = [to |-> a.target, outcome |-> a.result], !.deferLast = FALSE]
                    ELSE cl[c]]
        /\ (record' = done.applied /\ UNCHANGED mishaps) \/ (Mishap /\ UNCHANGED record)
        /\ UNCHANGED <<cur, reload, host, tick, overlap, leaked>>
    BY <1>6, Zenon DEF Commit
  <2>1. a \in Arbiter /\ a.target \in MaybeProfile /\ a.result \in MaybeOutcome
    BY <1>b DEF Arbiter
  <2>2. a.recent + 1 \in 0..Cap
    <3>1. a.recent \in 0..Cap /\ a.recent < Cap
      BY <1>a, <2>0, <2>1, Zenon DEF ApplyInv, Arbiter
    <3>. QED
      BY <3>1, ArbiterAssumption
  <2>3. \A c \in Caller : cl'[c] \in Call
    <3>. HIDE DEF a
    <3>. QED
      BY <1>a, <2>0, <2>1, Zenon DEF Call, Attempt
  <2>4. b \in Arbiter
    <3>. HIDE DEF a
    <3>. QED
      BY <2>1, <2>2, Zenon DEF Arbiter, MaybeProfile, MaybeOutcome
  <2>5. done \in Arbiter
    <3>. HIDE DEF a, b
    <3>. QED
      BY <2>1, <2>4, Zenon DEF Arbiter
  <2>. HIDE DEF done
  <2>6. Notify(done) \in Arbiter /\ done.applied \in MaybeProfile
    BY <2>5, NotifyKeeps DEF Keeps, Arbiter
  <2>7. record' \in MaybeProfile /\ mishaps' \in 0..MaxMishaps
    <3>1. record' = done.applied \/ record' = record
      BY <2>0, Zenon
    <3>2. mishaps' = mishaps \/ (mishaps < MaxMishaps /\ mishaps' = mishaps + 1)
      BY <2>0, Zenon DEF Mishap
    <3>3. mishaps \in 0..MaxMishaps /\ record \in MaybeProfile
      BY <1>a
    <3>. QED
      BY <2>6, <3>1, <3>2, <3>3, ArbiterAssumption
  <2>8. cl' \in [Caller -> Call]
    BY <2>0, <2>3, Zenon
  <2>. HIDE DEF a
  <2>. QED
    BY <1>a, <2>0, <2>6, <2>7, <2>8, Zenon DEF Set, At, ApplyInv
<1>7. ASSUME NEW g \in Gen, BackoffOver(g)
      PROVE  TypeOK' /\ ApplyInv'
  <2>1. Keeps(arb[g], [arb[g] EXCEPT !.retry = "reached"])
    BY <1>a DEF Keeps, Arbiter
  <2>. QED
    BY <1>a, <1>7, <2>1, EditType DEF BackoffOver
<1>8. ASSUME NEW g \in Gen, WindowSlides(g)
      PROVE  TypeOK' /\ ApplyInv'
  <2>1. arb[g].recent - 1 \in 0..Cap /\ arb[g].recent \in Nat
    BY <1>a, <1>8, ArbiterAssumption DEF WindowSlides, Arbiter
  <2>2. [arb[g] EXCEPT !.recent = @ - 1] \in Arbiter
    BY <1>a, <2>1 DEF Arbiter
  <2>. QED
    BY <1>a, <1>8, <2>1, <2>2, ArbiterAssumption DEF WindowSlides, Set, ApplyInv, Arbiter
<1>9. ASSUME NEW m \in Mode, ReloadStop(m)
      PROVE  TypeOK' /\ ApplyInv'
  <2>1. Keeps(arb[cur], Notify([arb[cur] EXCEPT !.stop = TRUE]))
    <3>. DEFINE a == arb[cur]
                b == [a EXCEPT !.stop = TRUE]
    <3>1. a \in Arbiter
      BY <1>a
    <3>2. Keeps(a, b)
      <4>. HIDE DEF a
      <4>. QED
        BY <3>1, Zenon DEF Keeps, Arbiter
    <3>. HIDE DEF b
    <3>. QED
      BY <3>2, NotifyKeeps, Zenon DEF Keeps, b
  <2>2. reload' \in [at : {"none", "stopped", "recovered"}, mode : Modes]
    BY <1>9, ArbiterAssumption DEF ReloadStop, Modes
  <2>. QED
    BY <1>a, <1>9, <2>1, <2>2, EditType DEF ReloadStop
<1>10. CASE ReloadRecover
  <2>1. cur + 1 \in Gen /\ thread[cur + 1] = "none"
    BY <1>a, <1>10, ArbiterAssumption DEF ReloadRecover, WriterInv, Gen
  <2>2. PICK grade \in Outcome : Set(cur + 1, Recovered(New(reload.mode), record, grade))
    BY <1>10 DEF ReloadRecover, Outcome, Grade
  <2>3. Recovered(New(reload.mode), record, grade) \in Arbiter
    BY <1>a, RecoveredType
  <2>4. mishaps' \in 0..MaxMishaps
    BY <1>a, <1>10, ArbiterAssumption DEF ReloadRecover, Mishap
  <2>5. reload' \in [at : {"none", "stopped", "recovered"}, mode : Modes] /\ overlap' \in BOOLEAN
    BY <1>a, <1>10 DEF ReloadRecover
  <2>6. arb' \in [Gen -> Arbiter] /\ ApplyInv'
    BY <1>a, <1>10, <2>1, <2>2, <2>3 DEF ReloadRecover, Set, ApplyInv
  <2>. QED
    BY <1>a, <1>10, <2>4, <2>5, <2>6 DEF ReloadRecover
<1>11. CASE ReloadAdopt
  <2>1. cur + 1 \in Gen /\ thread[cur + 1] = "none"
    BY <1>a, <1>11, ArbiterAssumption DEF ReloadAdopt, WriterInv, Gen
  <2>2. Adopted(arb[cur + 1], arb[cur]) \in Arbiter
    <3>1. arb[cur] \in Arbiter /\ arb[cur + 1] \in Arbiter
      BY <1>a, <2>1
    <3>2. \A a, old \in Arbiter : Adopted(a, old) \in Arbiter
      BY Zenon DEF Adopted, Arbiter
    <3>. QED
      BY <3>1, <3>2, Zenon
  <2>3. arb' \in [Gen -> Arbiter] /\ ApplyInv'
    BY <1>a, <1>11, <2>1, <2>2 DEF ReloadAdopt, Set, At, ApplyInv
  <2>. QED
    BY <1>a, <1>11, <2>1, <2>3, Zenon DEF ReloadAdopt, At
<1>12. CASE Restart
  <2>1. \A g \in Gen : arb'[g] \in Arbiter
    <3>1. Grade(host, record) \in Outcome /\ "full" \in Modes
      BY DEF Grade, Outcome, Modes
    <3>2. Recovered(New("full"), record, Grade(host, record)) \in Arbiter
      BY <1>a, <3>1, RecoveredType
    <3>3. New("full") \in Arbiter
      BY ArbiterAssumption DEF New, Arbiter, Modes, MaybeProfile, MaybeOutcome, Aggregates
    <3>. QED
      BY <1>12, <3>2, <3>3 DEF Restart
  <2>2. Caller0 \in Call
    BY ArbiterAssumption DEF Caller0, Call, Attempt, NoAttempt, MaybeProfile, MaybeOutcome, Gen
  <2>3. mishaps' \in 0..MaxMishaps
    BY <1>a, <1>12, ArbiterAssumption DEF Restart, Mishap
  <2>4. arb' \in [Gen -> Arbiter] /\ cl' \in [Caller -> Call]
    BY <1>12, <2>1, <2>2 DEF Restart
  <2>5. /\ thread' \in [Gen -> {"none", "joining", "loop", "apply", "ran", "ended"}]
        /\ \A g \in Gen : thread'[g] \in {"loop", "none"}
        /\ cur' \in Gen
        /\ tick' \in [gen : Gen, unknown : 0..UnknownMax]
    BY <1>12, ArbiterAssumption DEF Restart, Gen
  <2>6. /\ reload' \in [at : {"none", "stopped", "recovered"}, mode : Modes]
        /\ overlap' \in BOOLEAN /\ leaked' \subseteq Run
    BY <1>12, Zenon DEF Restart, Modes
  <2>. QED
    BY <1>a, <1>12, <2>3, <2>4, <2>5, <2>6 DEF Restart, ApplyInv
<1>13. ASSUME NEW c \in Caller, Settled(c) \/ TimedOut(c)
       PROVE  TypeOK' /\ ApplyInv'
  <2>1. PICK where \in {"idle", "running"} : cl' = [cl EXCEPT ![c] = In(where, cl[c].gen)]
    BY <1>13 DEF Settled, TimedOut, Return, Calls
  <2>2. cl[c].gen \in Gen /\ NoProfile \in MaybeProfile
    BY <1>a DEF Call, MaybeProfile
  <2>3. cl' \in [Caller -> Call]
    BY <1>a, <2>1, <2>2, CallType, Zenon
  <2>. QED
    BY <1>a, <1>13, <2>3 DEF Settled, TimedOut, Return, ApplyInv
<1>14. ASSUME NEW g \in Gen, NEW c \in Run, Take(c, g)
       PROVE  TypeOK' /\ ApplyInv'
  <2>1. c \in Caller /\ "performance" \in MaybeProfile
    BY DEF Caller, MaybeProfile, Profile
  <2>2. cl' \in [Caller -> Call]
    <3>1. PICK call \in Call : cl' = [cl EXCEPT ![c] = call]
      <4>1. In("unheld", g) \in Call /\ [In("waiting", g) EXCEPT !.want = "performance"] \in Call
        BY <2>1, CallType, Zenon
      <4>. QED
        BY <1>14, <4>1, Zenon DEF Take, Calls
    <3>. QED
      BY <1>a, <2>1, <3>1
  <2>3. leaked' \subseteq Run
    BY <1>a, <1>14 DEF Take
  <2>4. [arb[g] EXCEPT !.jobs = @ \cup {c}] \in Arbiter
    BY <1>a DEF Arbiter
  <2>5. Notify([arb[g] EXCEPT !.jobs = @ \cup {c}]) \in Arbiter
    BY <2>4, NotifyKeeps DEF Keeps
  <2>6. /\ Notify([arb[g] EXCEPT !.jobs = @ \cup {c}]).target = arb[g].target
        /\ Notify([arb[g] EXCEPT !.jobs = @ \cup {c}]).result = arb[g].result
        /\ Notify([arb[g] EXCEPT !.jobs = @ \cup {c}]).recent = arb[g].recent
    BY <1>a DEF Notify, Arbiter
  <2>7. arb' \in [Gen -> Arbiter] /\ ApplyInv'
    BY <1>a, <1>14, <2>5, <2>6 DEF Take, Set, ApplyInv
  <2>. QED
    BY <1>a, <1>14, <2>2, <2>3, <2>7 DEF Take
<1>15. ASSUME NEW g \in Gen, NEW c \in Run, Release(c, g)
       PROVE  TypeOK' /\ ApplyInv'
  <2>1. c \in Caller /\ NoProfile \in MaybeProfile
    BY DEF Caller, MaybeProfile
  <2>2. cl' \in [Caller -> Call]
    BY <1>a, <1>15, <2>1, CallType, Zenon DEF Release, Calls
  <2>3. leaked' \subseteq Run
    BY <1>a, <1>15 DEF Release
  <2>4. [arb[g] EXCEPT !.jobs = @ \ {c}] \in Arbiter
    BY <1>a DEF Arbiter
  <2>5. Released(arb[g], c) \in Arbiter
    BY <2>4, NotifyKeeps DEF Keeps, Released
  <2>6. /\ Released(arb[g], c).target = arb[g].target
        /\ Released(arb[g], c).result = arb[g].result
        /\ Released(arb[g], c).recent = arb[g].recent
    BY <1>a DEF Released, Notify, Arbiter
  <2>7. arb' \in [Gen -> Arbiter] /\ ApplyInv'
    BY <1>a, <1>15, <2>5, <2>6 DEF Release, Set, ApplyInv
  <2>. QED
    BY <1>a, <1>15, <2>2, <2>3, <2>7 DEF Release
<1>16. ASSUME NEW g \in Gen, NEW c \in Panel, NEW p \in MaybeProfile, Press(c, p, g)
       PROVE  TypeOK' /\ ApplyInv'
  <2>1. Keeps(arb[g], Notify([arb[g] EXCEPT !.manual = p]))
    BY <1>a, PressKeeps
  <2>2. cl' \in [Caller -> Call]
    BY <1>a, <1>16, CallType, Zenon DEF Press, Calls, Caller
  <2>. QED
    BY <1>a, <1>16, <2>1, <2>2, EditType DEF Press
<1>17. ASSUME NEW g \in Gen, NEW s \in Sample, Tick(s, g)
       PROVE  TypeOK' /\ ApplyInv'
  <2>. DEFINE agg == Aggregate(s)
              n == UnknownTicks(agg, tick.unknown)
  <2>1. tick.unknown \in 0..UnknownMax
    BY <1>a
  <2>2. agg \in Aggregates /\ n \in 0..UnknownMax /\ DesiredProfile(agg, n) \in Profile \cup {"hold"}
    BY <2>1, ResidencyType
  <2>3. Keeps(arb[g], SetPolicy(OnAggregate(arb[g], agg), DesiredProfile(agg, n)))
    BY <1>a, <2>2, TickKeeps
  <2>4. tick' \in [gen : Gen, unknown : 0..UnknownMax]
    BY <1>17, <2>2 DEF Tick
  <2>. QED
    BY <1>a, <1>17, <2>3, <2>4, EditType DEF Tick
<1>18. CASE UNCHANGED vars
  BY <1>a, <1>18 DEF vars, ApplyInv
<1>. QED
  BY <1>1, <1>2, <1>3, <1>4, <1>5, <1>6, <1>7, <1>8, <1>9, <1>10, <1>11, <1>12, <1>13, <1>14, <1>15, <1>16, <1>17, <1>18, Zenon DEF Next, Worker

(* Every variable keeps its type; in particular the switches of the last     *)
(* minute never exceed the cap.                                              *)
THEOREM ArbiterTypes == Spec => []TypeOK
<1>1. Typed => TypeOK
  BY DEF Typed
<1>. QED
  BY <1>1, TypedInit, TypedStep, PTL DEF Spec

-----------------------------------------------------------------------------
(* Holds.  HoldEnds is not inductive: a run that found the arbiter disabled  *)
(* may still be listed by an earlier hold.                                   *)
HoldInv ==
    /\ HoldKept
    /\ \A c \in Run : c \in arb[cur].jobs /\ cl[c].at \in {"idle", "unheld"} => c \in leaked

(* A step that moves no run and leaves the listed runs of the published      *)
(* arbiter as they are keeps the holds.                                      *)
LEMMA SameHolds ==
    ASSUME HoldInv, arb'[cur'].jobs = arb[cur].jobs, \A c \in Run : cl'[c].at = cl[c].at, UNCHANGED leaked
    PROVE  HoldInv'
BY DEF HoldInv, HoldKept

(* A new agent has no holds.                                                 *)
LEMMA HoldInit == Init => HoldInv
<1>. SUFFICES ASSUME Init PROVE HoldInv
  OBVIOUS
<1>1. arb[1].jobs = {}
  <2>1. Grade(host, record) \in Outcome /\ "full" \in Modes /\ record \in MaybeProfile
    BY DEF Init, Grade, Outcome, Modes
  <2>2. Recovered(New("full"), record, Grade(host, record)).jobs = {}
    BY <2>1, RecoveredType
  <2>. QED
    BY <2>2, ArbiterAssumption DEF Init, Gen
<1>2. \A c \in Run : cl[c].at = "idle"
  BY DEF Init, Caller0, Caller
<1>. QED
  BY <1>1, <1>2 DEF Init, HoldInv, HoldKept

(* Every step keeps the holds.                                               *)
LEMMA HoldStep == Typed /\ HoldInv /\ [Next]_vars => HoldInv'
<1>. SUFFICES ASSUME Typed, HoldInv, [Next]_vars
              PROVE  HoldInv'
  OBVIOUS
<1>a. /\ arb \in [Gen -> Arbiter] /\ cl \in [Caller -> Call] /\ cur \in Gen
      /\ WriterInv /\ Run \subseteq Caller
  BY DEF Typed, TypeOK, Caller
<1>b. ASSUME NEW g \in Gen, NEW b, Set(g, b), b.jobs = arb[g].jobs, UNCHANGED <<cur, cl, leaked>>
      PROVE  HoldInv'
  <2>1. arb'[cur'].jobs = arb[cur].jobs
    BY <1>a, <1>b DEF Set
  <2>. QED
    BY <1>b, <2>1, SameHolds
<1>1. ASSUME NEW g \in Gen, Join(g) \/ LoopEnd(g)
      PROVE  HoldInv'
  BY <1>1, SameHolds DEF Join, LoopEnd
<1>2. ASSUME NEW g \in Gen, LoopWait(g)
      PROVE  HoldInv'
  <2>. DEFINE a == arb[g]
              b == [a EXCEPT !.asleep = TRUE,
                             !.retry = IF Converged(a) THEN "none" ELSE @,
                             !.outcome = IF Converged(a) /\ @ = "failed" /\ a.applied # NoProfile
                                         THEN a.settled ELSE @]
  <2>1. Set(g, b) /\ UNCHANGED <<cur, cl, leaked>>
    BY <1>2 DEF LoopWait
  <2>2. b.jobs = arb[g].jobs
    BY <1>a DEF Arbiter
  <2>. HIDE DEF b
  <2>. QED
    BY <1>b, <2>1, <2>2
<1>3. ASSUME NEW g \in Gen, LoopTake(g)
      PROVE  HoldInv'
  <2>1. [arb[g] EXCEPT !.busy = TRUE, !.target = Effective(arb[g])].jobs = arb[g].jobs
    BY <1>a DEF Arbiter
  <2>. QED
    BY <1>b, <1>3, <2>1, Zenon DEF LoopTake
<1>4. ASSUME NEW g \in Gen, Defer(g) \/ Commit(g)
      PROVE  HoldInv'
  <2>1. \A c \in Run : cl'[c].at = cl[c].at
    BY <1>a, <1>4, Zenon DEF Defer, Commit, Call
  <2>2. arb'[cur].jobs = arb[cur].jobs
    <3>1. CASE Defer(g)
      <4>1. Notify([arb[g] EXCEPT !.retry = "ahead", !.busy = FALSE, !.target = NoProfile]).jobs = arb[g].jobs
        BY <1>a DEF Arbiter, Notify
      <4>. QED
        BY <1>a, <3>1, <4>1, Zenon DEF Defer, Set
    <3>2. CASE Commit(g)
      <4>. DEFINE a == arb[g]
                  b == [a EXCEPT !.recent = @ + 1, !.outcome = a.result, !.busy = FALSE,
                                 !.target = NoProfile, !.result = "none"]
                  done == IF a.result = "failed" THEN [b EXCEPT !.retry = "ahead"]
                          ELSE [b EXCEPT !.applied = a.target, !.settled = a.result, !.retry = "none"]
      <4>1. Set(g, Notify(done))
        BY <3>2, Zenon DEF Commit
      <4>2. Notify(done).jobs = arb[g].jobs
        BY <1>a DEF Arbiter, Notify
      <4>. HIDE DEF done
      <4>. QED
        BY <1>a, <4>1, <4>2 DEF Set
    <3>. QED
      BY <1>4, <3>1, <3>2
  <2>. QED
    BY <1>4, <2>1, <2>2, SameHolds, Zenon DEF Defer, Commit
<1>5. ASSUME NEW g \in Gen, Switch(g)
      PROVE  HoldInv'
  <2>1. PICK r : Set(g, [arb[g] EXCEPT !.result = r])
    BY <1>5, Zenon DEF Switch
  <2>2. [arb[g] EXCEPT !.result = r].jobs = arb[g].jobs
    BY <1>a DEF Arbiter
  <2>. QED
    BY <1>b, <1>5, <2>1, <2>2, Zenon DEF Switch
<1>6. ASSUME NEW g \in Gen, BackoffOver(g)
      PROVE  HoldInv'
  <2>1. [arb[g] EXCEPT !.retry = "reached"].jobs = arb[g].jobs
    BY <1>a DEF Arbiter
  <2>. QED
    BY <1>b, <1>6, <2>1, Zenon DEF BackoffOver
<1>7. ASSUME NEW g \in Gen, WindowSlides(g)
      PROVE  HoldInv'
  <2>1. [arb[g] EXCEPT !.recent = @ - 1].jobs = arb[g].jobs
    BY <1>a DEF Arbiter
  <2>. QED
    BY <1>b, <1>7, <2>1, Zenon DEF WindowSlides
<1>8. ASSUME NEW m \in Mode, ReloadStop(m)
      PROVE  HoldInv'
  <2>1. Notify([arb[cur] EXCEPT !.stop = TRUE]).jobs = arb[cur].jobs
    BY <1>a DEF Arbiter, Notify
  <2>. QED
    BY <1>a, <1>b, <1>8, <2>1 DEF ReloadStop
<1>9. CASE ReloadRecover
  <2>1. PICK b : Set(cur + 1, b)
    BY <1>9 DEF ReloadRecover
  <2>2. arb'[cur] = arb[cur]
    BY <1>a, <2>1 DEF Set, Gen
  <2>. QED
    BY <1>9, <2>2, SameHolds DEF ReloadRecover
<1>10. CASE ReloadAdopt
  <2>1. cur + 1 \in Gen
    BY <1>a, <1>10, ArbiterAssumption DEF ReloadAdopt, WriterInv, Gen
  <2>2. Adopted(arb[cur + 1], arb[cur]).jobs = arb[cur].jobs
    BY <1>a, <2>1 DEF Adopted, Arbiter
  <2>3. arb'[cur'].jobs = arb[cur].jobs
    BY <1>a, <1>10, <2>1, <2>2 DEF ReloadAdopt, Set
  <2>. QED
    BY <1>10, <2>3, SameHolds DEF ReloadAdopt
<1>11. CASE Restart
  <2>1. arb'[1].jobs = {}
    <3>1. Grade(host, record) \in Outcome /\ "full" \in Modes /\ record \in MaybeProfile
      BY DEF Typed, TypeOK, Grade, Outcome, Modes
    <3>2. Recovered(New("full"), record, Grade(host, record)).jobs = {}
      BY <3>1, RecoveredType
    <3>. QED
      BY <1>11, <3>2, ArbiterAssumption DEF Restart, Gen
  <2>2. \A c \in Run : cl'[c].at = "idle"
    BY <1>a, <1>11 DEF Restart, Caller0
  <2>. QED
    BY <1>11, <2>1, <2>2 DEF Restart, HoldInv, HoldKept
<1>12. ASSUME NEW c \in Caller, Settled(c) \/ TimedOut(c)
       PROVE  HoldInv'
  <2>1. /\ cl[c].at = "waiting" /\ UNCHANGED <<arb, cur, leaked>>
        /\ cl' = [cl EXCEPT ![c] = In(IF c \in Panel THEN "idle" ELSE "running", cl[c].gen)]
    BY <1>12 DEF Settled, TimedOut, Return, Calls
  <2>2. c \in Run => cl'[c].at = "running"
    BY <1>a, <2>1, ArbiterAssumption DEF In, Caller0
  <2>3. \A d \in Run : d # c => cl'[d] = cl[d]
    BY <1>a, <2>1
  <2>. QED
    BY <2>1, <2>2, <2>3 DEF HoldInv, HoldKept
<1>13. ASSUME NEW g \in Gen, NEW c \in Run, Take(c, g)
       PROVE  HoldInv'
  <2>1. \A d \in Run : d # c => cl'[d] = cl[d]
    BY <1>a, <1>13 DEF Take, Calls
  <2>2. CASE arb[g].mode = "disabled"
    <3>1. cl'[c].at = "unheld" /\ cl[c].at = "idle" /\ UNCHANGED <<arb, cur, leaked>>
      BY <1>a, <1>13, <2>2, Zenon DEF Take, Calls, In, Caller0
    <3>. QED
      BY <2>1, <3>1 DEF HoldInv, HoldKept
  <2>3. CASE arb[g].mode # "disabled"
    <3>1. cl'[c].at = "waiting" /\ UNCHANGED cur
      BY <1>a, <1>13, <2>3, Zenon DEF Take, Calls, In, Caller0
    <3>2. Notify([arb[g] EXCEPT !.jobs = @ \cup {c}]).jobs = arb[g].jobs \cup {c}
      BY <1>a DEF Arbiter, Notify
    <3>3. arb'[cur].jobs = IF g = cur THEN arb[cur].jobs \cup {c} ELSE arb[cur].jobs
      BY <1>a, <1>13, <2>3, <3>2, Zenon DEF Take, Set
    <3>4. leaked' = IF g = cur THEN leaked \ {c} ELSE leaked \cup {c}
      BY <1>13, <2>3 DEF Take
    <3>. QED
      BY <2>1, <3>1, <3>3, <3>4 DEF HoldInv, HoldKept
  <2>. QED
    BY <2>2, <2>3
<1>14. ASSUME NEW g \in Gen, NEW c \in Run, Release(c, g)
       PROVE  HoldInv'
  <2>1. \A d \in Run : d # c => cl'[d] = cl[d]
    BY <1>a, <1>14 DEF Release, Calls
  <2>2. cl'[c].at = "idle" /\ UNCHANGED cur
    BY <1>a, <1>14 DEF Release, Calls, In, Caller0
  <2>3. Released(arb[g], c).jobs = arb[g].jobs \ {c}
    BY <1>a DEF Arbiter, Released, Notify
  <2>4. leaked' = IF g = cur /\ arb[g].mode # "disabled" THEN leaked \ {c}
                  ELSE IF c \in arb[cur].jobs THEN leaked \cup {c} ELSE leaked
    BY <1>14 DEF Release
  <2>5. arb'[cur].jobs = IF g = cur /\ arb[g].mode # "disabled" THEN arb[cur].jobs \ {c} ELSE arb[cur].jobs
    BY <1>a, <1>14, <2>3 DEF Release, Set
  <2>. QED
    BY <2>1, <2>2, <2>4, <2>5 DEF HoldInv, HoldKept
<1>15. ASSUME NEW g \in Gen, NEW c \in Panel, NEW p \in MaybeProfile, Press(c, p, g)
       PROVE  HoldInv'
  <2>1. Notify([arb[g] EXCEPT !.manual = p]).jobs = arb[g].jobs
    BY <1>a, PressKeeps DEF Keeps
  <2>2. arb'[cur].jobs = arb[cur].jobs /\ UNCHANGED <<cur, leaked>>
    BY <1>a, <1>15, <2>1 DEF Press, Set
  <2>3. \A d \in Run : cl'[d].at = cl[d].at
    BY <1>a, <1>15, ArbiterAssumption DEF Press, Calls
  <2>. QED
    BY <2>2, <2>3, SameHolds
<1>16. ASSUME NEW g \in Gen, NEW s \in Sample, Tick(s, g)
       PROVE  HoldInv'
  <2>. DEFINE agg == Aggregate(s)
              b == SetPolicy(OnAggregate(arb[g], agg), DesiredProfile(agg, UnknownTicks(agg, tick.unknown)))
  <2>1. tick.unknown \in 0..UnknownMax
    BY DEF Typed, TypeOK
  <2>2. b.jobs = arb[g].jobs
    BY <1>a, <2>1, ResidencyType, TickKeeps DEF Keeps
  <2>3. Set(g, b) /\ UNCHANGED <<cur, cl, leaked>>
    BY <1>16 DEF Tick
  <2>. HIDE DEF b
  <2>. QED
    BY <1>b, <2>2, <2>3
<1>17. CASE UNCHANGED vars
  BY <1>17, SameHolds DEF vars
<1>. QED
  BY <1>1, <1>2, <1>3, <1>4, <1>5, <1>6, <1>7, <1>8, <1>9, <1>10, <1>11, <1>12, <1>13, <1>14, <1>15, <1>16, <1>17, Zenon DEF Next, Worker

(* A benchmark's hold lasts as long as the benchmark: the published arbiter  *)
(* lists it until it leaves and no longer, whatever other runs, the manual   *)
(* switch and reloads do, except for the calls `leaked` names.               *)
THEOREM HoldsLastAsLongAsRuns == Spec => []HoldsFit
<1>1. HoldInv => HoldsFit
  BY DEF HoldInv, HoldEnds, HoldsFit
<1>. QED
  BY <1>1, TypedInit, TypedStep, HoldInit, HoldStep, PTL DEF Spec
-----------------------------------------------------------------------------
(* What "verified" rests on.  A worker that is between taking a profile and  *)
(* the end of its switch is busy; arbiters that were replaced, or are about  *)
(* to be, have been told to stop; callers wait at arbiters already           *)
(* published.                                                                *)
PlaceInv ==
    /\ \A g \in Gen : thread[g] \in {"apply", "ran"} => arb[g].busy
    /\ \A g \in Gen : g < cur \/ (g = cur /\ reload.at # "none") => arb[g].stop
    /\ \A c \in Caller : cl[c].gen <= cur /\ (cl[c].at = "waiting" => cl[c].want \in Profile)

(* No switch, readback or record write went wrong, and no reload read the    *)
(* host under a worker about to switch.                                      *)
Calm == mishaps = 0 /\ ~overlap

(* Then only the published arbiter's worker can still switch; the host is in *)
(* the profile that is applied, or, once the switch ran, in its target; and  *)
(* who waits knows of no switch but the last.                                *)
TruthInv ==
    /\ \A g \in Gen : g < cur \/ (g = cur /\ reload.at = "recovered") => thread[g] # "apply"
    /\ reload.at = "recovered" => arb[cur + 1].applied \in {NoProfile, host}
    /\ thread[cur] = "ran" => arb[cur].result = "verified" /\ arb[cur].target = host
    /\ thread[cur] # "ran" => arb[cur].applied \in {NoProfile, host}
    /\ \A c \in Caller :
          cl[c].at = "waiting" /\ cl[c].gen = cur =>
              cl[c].switch = NoAttempt
              \/ (cl[c].switch.to = arb[cur].applied /\ cl[c].switch.outcome = "verified")

VerifyInv == PlaceInv /\ (Calm => TruthInv)

(* An edit of an arbiter that is none of _apply()'s or recover()'s, and a    *)
(* call that knows of no switch yet.                                         *)
Still(a, b) ==
    /\ b.applied = a.applied /\ b.target = a.target /\ b.result = a.result
    /\ b.busy = a.busy /\ (a.stop => b.stop)

Newcomer(r) ==
    r.gen <= cur /\ (r.at = "waiting" => r.want \in Profile /\ r.switch = NoAttempt)

(* Such edits and calls change nothing of what "verified" rests on.          *)
LEMMA StillVerify ==
    ASSUME Typed, VerifyInv, \A g \in Gen : Still(arb[g], arb'[g]),
           \A c \in Caller : cl'[c] = cl[c] \/ Newcomer(cl'[c]),
           UNCHANGED <<thread, cur, reload, host, overlap, mishaps>>
    PROVE  VerifyInv'
<1>0. cur \in Gen /\ WriterInv
  BY DEF Typed, TypeOK
<1>1. PlaceInv'
  BY <1>0 DEF VerifyInv, PlaceInv, Still, Newcomer
<1>2. ASSUME Calm' PROVE TruthInv'
  <2>1. TruthInv
    BY <1>2 DEF VerifyInv, Calm
  <2>2. reload.at = "recovered" => cur + 1 \in Gen
    BY <1>0, ArbiterAssumption DEF WriterInv, Gen
  <2>3. \A c \in Caller : cl'[c].at = "waiting" /\ cl'[c].gen = cur =>
              cl'[c].switch = NoAttempt
              \/ (cl'[c].switch.to = arb[cur].applied /\ cl'[c].switch.outcome = "verified")
    BY <2>1 DEF TruthInv, Newcomer
  <2>. QED
    BY <1>0, <2>1, <2>2, <2>3 DEF TruthInv, Still
<1>. QED
  BY <1>1, <1>2 DEF VerifyInv

(* An edit of one generation that leaves its verdict standing keeps          *)
(* VerifyInv.                                                                *)
LEMMA EditVerify ==
    ASSUME Typed, VerifyInv, NEW g \in Gen, NEW b, Set(g, b), Still(arb[g], b),
           \A c \in Caller : cl'[c] = cl[c] \/ Newcomer(cl'[c]),
           UNCHANGED <<thread, cur, reload, host, overlap, mishaps>>
    PROVE  VerifyInv'
<1>1. \A k \in Gen : Still(arb[k], arb'[k])
  BY DEF Typed, TypeOK, Set, Still
<1>. QED
  BY <1>1, StillVerify

(* What keeps the holds and the worker leaves the verdict standing.          *)
LEMMA KeepsStill ==
    ASSUME NEW a, NEW b, Keeps(a, b)
    PROVE  Still(a, b)
BY DEF Keeps, Still

(* What a call is made of.                                                   *)
LEMMA CallFields ==
    ASSUME NEW where, NEW g, NEW p
    PROVE  /\ In(where, g).at = where /\ In(where, g).gen = g
           /\ In(where, g).switch = NoAttempt
           /\ [In(where, g) EXCEPT !.want = p].at = where /\ [In(where, g) EXCEPT !.want = p].gen = g
           /\ [In(where, g) EXCEPT !.want = p].want = p
           /\ [In(where, g) EXCEPT !.want = p].switch = NoAttempt
BY DEF In, Caller0

(* recover() adopts the record only where the host reads as it says.         *)
LEMMA RecoveredFields ==
    ASSUME NEW m \in Modes, NEW rec \in MaybeProfile, NEW h \in Profile
    PROVE  Recovered(New(m), rec, Grade(h, rec)).applied \in {NoProfile, h}
<1>1. New(m).applied = NoProfile
  BY DEF New
<1>2. [New(m) EXCEPT !.applied = rec, !.outcome = Grade(h, rec), !.settled = Grade(h, rec)].applied = rec
  BY DEF New
<1>. QED
  BY <1>1, <1>2 DEF Recovered, Grade

(* A new agent trusts the record if the host agrees.                         *)
LEMMA VerifyInit == Init => VerifyInv
<1>. SUFFICES ASSUME Init PROVE VerifyInv
  OBVIOUS
<1>1. arb[1] = Recovered(New("full"), record, Grade(host, record)) /\ cur = 1 /\ 1 \in Gen
      /\ reload.at = "none" /\ \A g \in Gen : thread[g] \in {"loop", "none"}
  BY ArbiterAssumption DEF Init, Gen
<1>2. arb[1].applied \in {NoProfile, host}
  BY <1>1, RecoveredFields DEF Init, Modes
<1>3. \A c \in Caller : cl[c].at = "idle" /\ cl[c].gen = 1
  BY DEF Init, Caller0
<1>. QED
  BY <1>1, <1>2, <1>3 DEF VerifyInv, PlaceInv, TruthInv, Gen

(* Every step keeps what "verified" rests on.                                *)
LEMMA VerifyStep == Typed /\ VerifyInv /\ [Next]_vars => VerifyInv'
<1>. SUFFICES ASSUME Typed, VerifyInv, [Next]_vars
              PROVE  VerifyInv'
  OBVIOUS
<1>a. /\ arb \in [Gen -> Arbiter] /\ cl \in [Caller -> Call] /\ cur \in Gen
      /\ WriterInv /\ PlaceInv /\ Caller = Run \cup Panel
      /\ thread \in [Gen -> {"none", "joining", "loop", "apply", "ran", "ended"}]
      /\ host \in Profile /\ record \in MaybeProfile /\ mishaps \in Nat
  BY ArbiterAssumption DEF Typed, TypeOK, Caller, VerifyInv
<1>b. \A g \in Gen : g \in Nat /\ (g > cur => thread[g] = "none")
  BY <1>a DEF WriterInv, Gen
<1>c. reload.at # "none" => cur + 1 \in Gen
  BY <1>a, ArbiterAssumption DEF WriterInv, Gen
<1>d. Calm => TruthInv
  BY DEF VerifyInv
<1>e. Mishap => ~Calm'
  BY <1>a DEF Mishap, Calm
<1>1. ASSUME NEW g \in Gen, Join(g) \/ LoopEnd(g)
      PROVE  VerifyInv'
  <2>1. /\ thread[g] \in {"joining", "loop"} /\ UNCHANGED <<arb, cur, reload, host, cl, overlap, mishaps>>
        /\ thread'[g] \in {"loop", "ended"} /\ \A k \in Gen : k # g => thread'[k] = thread[k]
    BY <1>a, <1>1 DEF Join, LoopEnd, At
  <2>2. PlaceInv'
    BY <1>a, <2>1 DEF PlaceInv
  <2>3. Calm' => TruthInv'
    BY <1>a, <1>d, <2>1 DEF Calm, TruthInv
  <2>. QED
    BY <2>2, <2>3 DEF VerifyInv
<1>2. ASSUME NEW g \in Gen, LoopWait(g)
      PROVE  VerifyInv'
  <2>1. PICK r, o : /\ Set(g, [arb[g] EXCEPT !.asleep = TRUE, !.retry = r, !.outcome = o])
                    /\ UNCHANGED <<thread, cur, reload, host, overlap, mishaps>> /\ UNCHANGED cl
    BY <1>2, Zenon DEF LoopWait
  <2>2. Still(arb[g], [arb[g] EXCEPT !.asleep = TRUE, !.retry = r, !.outcome = o])
    BY <1>a DEF Still, Arbiter
  <2>. QED
    BY <2>1, <2>2, EditVerify
<1>3. ASSUME NEW g \in Gen, LoopTake(g)
      PROVE  VerifyInv'
  <2>1. PICK p, b : b = [arb[g] EXCEPT !.busy = TRUE, !.target = p] /\ Set(g, b)
    BY <1>3, Zenon DEF LoopTake
  <2>2. b.busy = TRUE /\ b.applied = arb[g].applied /\ b.stop = arb[g].stop
    BY <1>a, <2>1 DEF Arbiter
  <2>3. arb'[g] = b /\ \A k \in Gen : k # g => arb'[k] = arb[k]
    BY <1>a, <2>1 DEF Set
  <2>4. /\ thread[g] = "loop" /\ UNCHANGED <<cur, reload, host, cl, overlap, mishaps>> /\ ~arb[g].stop
        /\ thread'[g] = "apply" /\ \A k \in Gen : k # g => thread'[k] = thread[k]
    BY <1>a, <1>3 DEF LoopTake, At
  <2>5. g = cur /\ reload.at = "none"
    BY <1>a, <1>b, <2>4 DEF PlaceInv
  <2>6. PlaceInv'
    BY <1>a, <2>2, <2>3, <2>4 DEF PlaceInv
  <2>7. ASSUME Calm' PROVE TruthInv'
    <3>1. TruthInv
      BY <1>d, <2>4, <2>7 DEF Calm
    <3>2. arb'[cur].applied = arb[cur].applied /\ thread'[cur] = "apply" /\ thread[cur] = "loop"
      BY <2>2, <2>3, <2>4, <2>5
    <3>3. \A k \in Gen : k < cur => thread'[k] # "apply"
      BY <1>a, <1>b, <2>4, <2>5, <3>1 DEF TruthInv
    <3>. QED
      BY <2>4, <2>5, <3>1, <3>2, <3>3 DEF TruthInv
  <2>. QED
    BY <2>6, <2>7 DEF VerifyInv
<1>4. ASSUME NEW g \in Gen, Defer(g)
      PROVE  VerifyInv'
  <2>1. PICK b : /\ b = Notify([arb[g] EXCEPT !.retry = "ahead", !.busy = FALSE, !.target = NoProfile])
                 /\ Set(g, b)
    BY <1>4, Zenon DEF Defer
  <2>2. b.applied = arb[g].applied /\ b.stop = arb[g].stop
    BY <1>a, <2>1 DEF Arbiter, Notify
  <2>3. arb'[g] = b /\ \A k \in Gen : k # g => arb'[k] = arb[k]
    BY <1>a, <2>1 DEF Set
  <2>4. /\ thread[g] = "apply" /\ UNCHANGED <<cur, reload, host, overlap, mishaps>>
        /\ thread'[g] = "loop" /\ \A k \in Gen : k # g => thread'[k] = thread[k]
    BY <1>a, <1>4, Zenon DEF Defer, At
  <2>5. \A c \in Caller : /\ cl'[c].at = cl[c].at /\ cl'[c].gen = cl[c].gen
                          /\ cl'[c].want = cl[c].want /\ cl'[c].switch = cl[c].switch
    BY <1>a, <1>4, Zenon DEF Defer, Call
  <2>6. PlaceInv'
    BY <1>a, <2>2, <2>3, <2>4, <2>5 DEF PlaceInv
  <2>7. Calm' => TruthInv'
    <3>1. \A k \in Gen : arb'[k].applied = arb[k].applied
      BY <2>2, <2>3
    <3>. QED
      BY <1>a, <1>c, <1>d, <2>3, <2>4, <2>5, <3>1 DEF Calm, TruthInv
  <2>. QED
    BY <2>6, <2>7 DEF VerifyInv
<1>5. ASSUME NEW g \in Gen, Switch(g)
      PROVE  VerifyInv'
  <2>1. PICK r, b : /\ b = [arb[g] EXCEPT !.result = r] /\ Set(g, b)
                    /\ Mishap \/ (r = "verified" /\ host' = arb[g].target /\ UNCHANGED mishaps)
    BY <1>5 DEF Switch
  <2>2. /\ b.applied = arb[g].applied /\ b.stop = arb[g].stop /\ b.busy = arb[g].busy
        /\ b.target = arb[g].target /\ b.result = r
    BY <1>a, <2>1 DEF Arbiter
  <2>3. arb'[g] = b /\ \A k \in Gen : k # g => arb'[k] = arb[k]
    BY <1>a, <2>1 DEF Set
  <2>4. /\ thread[g] = "apply" /\ UNCHANGED <<cur, reload, cl, overlap>>
        /\ thread'[g] = "ran" /\ \A k \in Gen : k # g => thread'[k] = thread[k]
    BY <1>a, <1>5 DEF Switch, At
  <2>5. PlaceInv'
    BY <1>a, <2>2, <2>3, <2>4 DEF PlaceInv
  <2>6. ASSUME Calm' PROVE TruthInv'
    <3>1. r = "verified" /\ host' = arb[g].target /\ UNCHANGED mishaps
      BY <1>e, <2>1, <2>6
    <3>2. TruthInv
      BY <1>d, <2>4, <2>6, <3>1 DEF Calm
    <3>3. g = cur /\ reload.at # "recovered"
      BY <1>a, <1>b, <2>4, <3>2 DEF TruthInv
    <3>. QED
      BY <1>a, <2>2, <2>3, <2>4, <3>1, <3>2, <3>3 DEF TruthInv
  <2>. QED
    BY <2>5, <2>6 DEF VerifyInv
<1>6. ASSUME NEW g \in Gen, Commit(g)
      PROVE  VerifyInv'
  <2>1. PICK a, n, o, b, done :
           /\ a = arb[g]
           /\ b = [a EXCEPT !.recent = n, !.outcome = o, !.busy = FALSE,
                            !.target = NoProfile, !.result = "none"]
           /\ done = IF a.result = "failed" THEN [b EXCEPT !.retry = "ahead"]
                     ELSE [b EXCEPT !.applied = a.target, !.settled = o, !.retry = "none"]
           /\ Set(g, Notify(done))
    BY <1>6, Zenon DEF Commit
  <2>2. /\ Notify(done).applied = (IF a.result = "failed" THEN a.applied ELSE a.target)
        /\ Notify(done).stop = a.stop
    BY <1>a, <2>1 DEF Arbiter, Notify
  <2>3. arb'[g] = Notify(done) /\ \A k \in Gen : k # g => arb'[k] = arb[k]
    BY <1>a, <2>1 DEF Set
  <2>4. /\ thread[g] = "ran" /\ UNCHANGED <<cur, reload, host, overlap>>
        /\ thread'[g] = "loop" /\ \A k \in Gen : k # g => thread'[k] = thread[k]
    BY <1>a, <1>6, Zenon DEF Commit, At
  <2>5. \A c \in Caller :
           /\ cl'[c].at = cl[c].at /\ cl'[c].gen = cl[c].gen /\ cl'[c].want = cl[c].want
           /\ cl[c].at = "waiting" /\ cl[c].gen = g =>
                 cl'[c].switch.to = a.target /\ cl'[c].switch.outcome = a.result
           /\ cl[c].gen # g => cl'[c] = cl[c]
    <3>1. cl' = [c \in Caller |->
                   IF c \in Waiting(g)
                   THEN [cl[c] EXCEPT !.switch = [to |-> a.target, outcome |-> a.result],
                                      !.deferLast = FALSE]
                   ELSE cl[c]]
      BY <1>6, <2>1, Zenon DEF Commit
    <3>. QED
      BY <1>a, <3>1, Zenon DEF Waiting, Call
  <2>6. PlaceInv'
    BY <1>a, <2>1, <2>2, <2>3, <2>4, <2>5 DEF PlaceInv
  <2>7. ASSUME Calm' PROVE TruthInv'
    <3>1. Mishap \/ UNCHANGED mishaps
      BY <1>6, Zenon DEF Commit
    <3>2. TruthInv
      BY <1>d, <1>e, <2>4, <2>7, <3>1 DEF Calm
    <3>3. CASE g = cur
      <4>1. a.result = "verified" /\ a.target = host
        BY <2>1, <2>4, <3>2, <3>3 DEF TruthInv
      <4>2. arb'[cur].applied = host
        BY <2>2, <2>3, <3>3, <4>1
      <4>3. reload.at = "recovered" => arb'[cur + 1] = arb[cur + 1]
        BY <1>a, <1>b, <1>c, <2>3, <3>3
      <4>. QED
        BY <1>a, <2>4, <2>5, <3>2, <3>3, <4>1, <4>2, <4>3 DEF TruthInv
    <3>4. CASE g # cur
      <4>1. reload.at = "recovered" => arb'[cur + 1] = arb[cur + 1]
        BY <1>a, <1>b, <1>c, <2>3, <2>4
      <4>. QED
        BY <1>a, <2>3, <2>4, <2>5, <3>2, <3>4, <4>1 DEF TruthInv
    <3>. QED
      BY <3>3, <3>4
  <2>. QED
    BY <2>6, <2>7 DEF VerifyInv
<1>7. ASSUME NEW g \in Gen, BackoffOver(g) \/ WindowSlides(g)
      PROVE  VerifyInv'
  <2>1. /\ Still(arb[g], [arb[g] EXCEPT !.retry = "reached"])
        /\ Still(arb[g], [arb[g] EXCEPT !.recent = @ - 1])
    BY <1>a DEF Still, Arbiter
  <2>. QED
    BY <1>7, <2>1, EditVerify DEF BackoffOver, WindowSlides
<1>8. ASSUME NEW m \in Mode, ReloadStop(m)
      PROVE  VerifyInv'
  <2>1. PICK b : b = Notify([arb[cur] EXCEPT !.stop = TRUE]) /\ Set(cur, b)
    BY <1>8 DEF ReloadStop
  <2>2. Still(arb[cur], b) /\ b.stop
    BY <1>a, <2>1 DEF Still, Arbiter, Notify
  <2>3. arb'[cur] = b /\ \A k \in Gen : k # cur => arb'[k] = arb[k]
    BY <1>a, <2>1 DEF Set
  <2>4. UNCHANGED <<thread, cur, host, cl, overlap, mishaps>> /\ reload'.at = "stopped" /\ reload.at = "none"
    BY <1>8 DEF ReloadStop, LockFree
  <2>5. PlaceInv'
    BY <1>a, <2>2, <2>3, <2>4 DEF PlaceInv, Still
  <2>6. Calm' => TruthInv'
    BY <1>a, <1>d, <2>2, <2>3, <2>4 DEF Calm, TruthInv, Still
  <2>. QED
    BY <2>5, <2>6 DEF VerifyInv
<1>9. CASE ReloadRecover
  <2>1. cur + 1 \in Gen /\ cur + 1 # cur /\ reload.at = "stopped" /\ reload'.at = "recovered"
        /\ reload.mode \in Modes
    BY <1>a, <1>b, <1>c, <1>9 DEF ReloadRecover, Typed, TypeOK
  <2>2. \A k \in Gen : k # cur + 1 => arb'[k] = arb[k]
    BY <1>a, <1>9 DEF ReloadRecover, Set
  <2>3. UNCHANGED <<thread, cur, host, cl>> /\ (overlap' <=> overlap \/ thread[cur] = "apply")
    BY <1>9, Zenon DEF ReloadRecover
  <2>4. thread[cur + 1] = "none"
    BY <1>a, <1>b, <2>1
  <2>5. PlaceInv'
    BY <1>a, <1>b, <2>1, <2>2, <2>3, <2>4 DEF PlaceInv
  <2>6. ASSUME Calm' PROVE TruthInv'
    <3>1. UNCHANGED mishaps /\ arb'[cur + 1] = Recovered(New(reload.mode), record, Grade(host, record))
      BY <1>a, <1>e, <1>9, <2>1, <2>6 DEF ReloadRecover, Set
    <3>2. TruthInv /\ thread[cur] # "apply"
      BY <1>d, <2>3, <2>6, <3>1 DEF Calm
    <3>3. arb'[cur + 1].applied \in {NoProfile, host}
      BY <1>a, <2>1, <3>1, RecoveredFields
    <3>. QED
      BY <1>a, <1>b, <2>1, <2>2, <2>3, <3>2, <3>3 DEF TruthInv
  <2>. QED
    BY <2>5, <2>6 DEF VerifyInv
<1>10. CASE ReloadAdopt
  <2>1. cur + 1 \in Gen /\ cur + 1 # cur /\ reload.at = "recovered" /\ reload'.at = "none" /\ cur' = cur + 1
    BY <1>a, <1>b, <1>c, <1>10 DEF ReloadAdopt, Typed, TypeOK
  <2>2. /\ \A k \in Gen : k # cur + 1 => arb'[k] = arb[k] /\ thread'[k] = thread[k]
        /\ thread'[cur + 1] = "joining" /\ UNCHANGED <<host, cl, overlap, mishaps>>
    BY <1>a, <1>10, <2>1 DEF ReloadAdopt, Set, At
  <2>3. arb'[cur + 1].applied = arb[cur + 1].applied
    <3>1. Adopted(arb[cur + 1], arb[cur]).applied = arb[cur + 1].applied
      BY <1>a, <2>1 DEF Adopted, Arbiter
    <3>. QED
      BY <1>a, <1>10, <2>1, <3>1 DEF ReloadAdopt, Set
  <2>4. \A g \in Gen : g < cur + 1 => g < cur \/ g = cur
    BY <1>a, <1>b
  <2>5. \A c \in Caller : cl[c].gen \in Nat /\ cl[c].gen <= cur /\ cl[c].gen <= cur + 1 /\ cl[c].gen # cur + 1
    BY <1>a, <1>b DEF PlaceInv, Call
  <2>6. PlaceInv'
    BY <1>a, <2>1, <2>2, <2>4, <2>5 DEF PlaceInv
  <2>7. Calm' => TruthInv'
    BY <1>a, <1>d, <2>1, <2>2, <2>3, <2>4, <2>5 DEF Calm, TruthInv
  <2>. QED
    BY <2>6, <2>7 DEF VerifyInv
<1>11. CASE Restart
  <2>1. ~Calm'
    BY <1>e, <1>11 DEF Restart
  <2>2. PlaceInv'
    <3>1. cur' = 1 /\ reload'.at = "none" /\ \A g \in Gen : thread'[g] \in {"loop", "none"}
      BY <1>11 DEF Restart
    <3>2. \A c \in Caller : cl'[c].gen = 1 /\ cl'[c].at = "idle"
      BY <1>11 DEF Restart, Caller0
    <3>. QED
      BY <3>1, <3>2 DEF PlaceInv, Gen
  <2>. QED
    BY <2>1, <2>2 DEF VerifyInv
<1>12. ASSUME NEW c \in Caller, Settled(c) \/ TimedOut(c)
       PROVE  VerifyInv'
  <2>1. PICK where \in {"idle", "running"} :
           cl' = [cl EXCEPT ![c] = In(where, cl[c].gen)] /\ UNCHANGED arb /\ UNCHANGED <<thread, cur, reload, host, overlap, mishaps>>
    BY <1>12 DEF Settled, TimedOut, Return, Calls
  <2>2. \A d \in Caller : cl'[d] = cl[d] \/ Newcomer(cl'[d])
    BY <1>a, <2>1, CallFields DEF Newcomer, PlaceInv
  <2>3. \A g \in Gen : Still(arb[g], arb'[g])
    BY <2>1 DEF Still
  <2>. QED
    BY <2>1, <2>2, <2>3, StillVerify
<1>f. ASSUME NEW g \in Gen, NEW c \in Caller, g \in Fetched(cl[c])
      PROVE  g <= cur
  BY <1>a, <1>b, <1>f DEF Fetched, Call, Gen
<1>13. ASSUME NEW g \in Gen, NEW c \in Run, Take(c, g)
       PROVE  VerifyInv'
  <2>1. c \in Caller /\ g <= cur /\ UNCHANGED <<thread, cur, reload, host, overlap, mishaps>>
    BY <1>a, <1>f, <1>13 DEF Take
  <2>2. \A d \in Caller : cl'[d] = cl[d] \/ Newcomer(cl'[d])
    <3>1. PICK r : /\ cl' = [cl EXCEPT ![c] = r]
                   /\ r \in {In("unheld", g), [In("waiting", g) EXCEPT !.want = "performance"]}
      BY <1>13 DEF Take, Calls
    <3>2. Newcomer(r)
      <4>1. CASE r = In("unheld", g)
        BY <2>1, <4>1, CallFields DEF Newcomer
      <4>2. CASE r = [In("waiting", g) EXCEPT !.want = "performance"]
        <5>1. r.gen = g /\ r.want = "performance" /\ r.switch = NoAttempt
          BY <4>2, CallFields
        <5>. QED
          BY <2>1, <5>1 DEF Newcomer, Profile
      <4>. QED
        BY <3>1, <4>1, <4>2
    <3>. QED
      BY <1>a, <3>1, <3>2
  <2>3. Still(arb[g], Notify([arb[g] EXCEPT !.jobs = @ \cup {c}]))
    BY <1>a DEF Still, Notify, Arbiter
  <2>4. CASE UNCHANGED arb
    <3>1. \A k \in Gen : Still(arb[k], arb'[k])
      BY <2>4 DEF Still
    <3>. QED
      BY <2>1, <2>2, <3>1, StillVerify
  <2>5. CASE Set(g, Notify([arb[g] EXCEPT !.jobs = @ \cup {c}]))
    BY <2>1, <2>2, <2>3, <2>5, EditVerify
  <2>. QED
    BY <1>13, <2>4, <2>5 DEF Take
<1>14. ASSUME NEW g \in Gen, NEW c \in Run, Release(c, g)
       PROVE  VerifyInv'
  <2>1. c \in Caller /\ g <= cur /\ UNCHANGED <<thread, cur, reload, host, overlap, mishaps>>
    BY <1>a, <1>f, <1>14 DEF Release
  <2>2. \A d \in Caller : cl'[d] = cl[d] \/ Newcomer(cl'[d])
    BY <1>a, <1>14, <2>1, CallFields DEF Release, Calls, Newcomer
  <2>3. Still(arb[g], Released(arb[g], c))
    BY <1>a DEF Still, Released, Notify, Arbiter
  <2>4. CASE UNCHANGED arb
    <3>1. \A k \in Gen : Still(arb[k], arb'[k])
      BY <2>4 DEF Still
    <3>. QED
      BY <2>1, <2>2, <3>1, StillVerify
  <2>5. CASE Set(g, Released(arb[g], c))
    BY <2>1, <2>2, <2>3, <2>5, EditVerify
  <2>. QED
    BY <1>14, <2>4, <2>5 DEF Release
<1>15. ASSUME NEW g \in Gen, NEW c \in Panel, NEW p \in MaybeProfile, Press(c, p, g)
       PROVE  VerifyInv'
  <2>1. c \in Caller /\ g <= cur /\ UNCHANGED <<thread, cur, reload, host, overlap, mishaps>> /\ Set(g, Notify([arb[g] EXCEPT !.manual = p]))
    BY <1>a, <1>f, <1>15 DEF Press
  <2>2. \A d \in Caller : cl'[d] = cl[d] \/ Newcomer(cl'[d])
    <3>1. PICK r : /\ cl' = [cl EXCEPT ![c] = r]
                   /\ r = IF p = NoProfile THEN In("idle", g) ELSE [In("waiting", g) EXCEPT !.want = p]
      BY <1>15, Zenon DEF Press, Calls
    <3>2. Newcomer(r)
      BY <2>1, <3>1, CallFields DEF Newcomer, MaybeProfile
    <3>. QED
      BY <1>a, <3>1, <3>2
  <2>3. Still(arb[g], Notify([arb[g] EXCEPT !.manual = p]))
    BY <1>a, PressKeeps, KeepsStill
  <2>. QED
    BY <2>1, <2>2, <2>3, EditVerify
<1>16. ASSUME NEW g \in Gen, NEW s \in Sample, Tick(s, g)
       PROVE  VerifyInv'
  <2>. DEFINE agg == Aggregate(s)
              b == SetPolicy(OnAggregate(arb[g], agg), DesiredProfile(agg, UnknownTicks(agg, tick.unknown)))
  <2>1. tick.unknown \in 0..UnknownMax
    BY DEF Typed, TypeOK
  <2>2. Still(arb[g], b)
    BY <1>a, <2>1, ResidencyType, TickKeeps, KeepsStill
  <2>3. Set(g, b) /\ UNCHANGED cl /\ UNCHANGED <<thread, cur, reload, host, overlap, mishaps>>
    BY <1>16 DEF Tick
  <2>. HIDE DEF b
  <2>. QED
    BY <2>2, <2>3, EditVerify
<1>17. CASE UNCHANGED vars
  <2>1. UNCHANGED <<arb, cl>> /\ UNCHANGED <<thread, cur, reload, host, overlap, mishaps>>
    BY <1>17 DEF vars
  <2>2. \A k \in Gen : Still(arb[k], arb'[k])
    BY <2>1 DEF Still
  <2>. QED
    BY <2>1, <2>2, StillVerify
<1>. QED
  BY <1>1, <1>2, <1>3, <1>4, <1>5, <1>6, <1>7, <1>8, <1>9, <1>10, <1>11, <1>12, <1>13, <1>14, <1>15, <1>16, <1>17, Zenon DEF Next, Worker

(* The inductive invariant says enough about a call that returns.            *)
LEMMA VerifiedStep ==
    ASSUME Typed, VerifyInv, NEW c \in Caller, cl[c].at = "waiting",
           Answer(arb[cl[c].gen], c, cl[c]) = "verified", mishaps = 0, ~overlap, cl[c].gen = cur
    PROVE  host = cl[c].want
<1>1. TruthInv /\ PlaceInv /\ cur \in Gen /\ thread \in [Gen -> {"none", "joining", "loop", "apply", "ran", "ended"}]
  BY DEF VerifyInv, Calm, Typed, TypeOK
<1>2. PICK r \in Call, a \in Arbiter : r = cl[c] /\ a = arb[cur]
  BY DEF Typed, TypeOK
<1>3. Answer(a, c, r) = "verified"
  BY <1>2 DEF Answer, LatestAttempt, HeldBy, Owner, OwnerOf
<1>4. ~a.busy
  BY <1>3 DEF Answer
<1>5. LatestAttempt(r) = "verified" \/ a.applied = r.want
  BY <1>3 DEF Answer
<1>6. LatestAttempt(r) = "verified" => r.switch.to = r.want /\ r.switch.outcome = "verified"
  BY DEF LatestAttempt
<1>7. r.switch = NoAttempt \/ r.switch.to = a.applied
  BY <1>1, <1>2 DEF TruthInv
<1>8. a.applied = r.want
  BY <1>5, <1>6, <1>7 DEF NoAttempt
<1>9. r.want \in Profile
  BY <1>1, <1>2 DEF PlaceInv
<1>10. a.applied \in {NoProfile, host}
  BY <1>1, <1>2, <1>4 DEF TruthInv, PlaceInv
<1>. QED
  BY <1>2, <1>8, <1>9, <1>10 DEF Profile, NoProfile

(* A request that is answered "verified" found the host in the profile it    *)
(* asked for, for any number of callers, reloads and switches, as long as    *)
(* nothing went wrong (mishaps), no reload read the host under a worker      *)
(* about to switch (overlap), and the arbiter asked is the published one.    *)
THEOREM VerifiedTellsTheTruth == Spec => VerifiedIsTrue
<1>1. Typed /\ VerifyInv =>
        [\A c \in Caller :
            /\ cl[c].at = "waiting" /\ Answer(arb[cl[c].gen], c, cl[c]) = "verified" /\ Settled(c)
            /\ mishaps = 0 /\ ~overlap /\ cl[c].gen = cur
            => host = cl[c].want]_vars
  BY VerifiedStep
<1>. QED
  BY <1>1, TypedInit, TypedStep, VerifyInit, VerifyStep, PTL DEF Spec, VerifiedIsTrue
=============================================================================
