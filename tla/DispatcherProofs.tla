-------------------------- MODULE DispatcherProofs --------------------------
(***************************************************************************)
(* Claims on incidents are held for a reason, by one dispatch at a time,   *)
(* and silence the other members, for every set of alerts, policies and    *)
(* channels and any number of dispatches that wait for their sends.        *)
(***************************************************************************)
EXTENDS Dispatcher, TLAPS

Typed ==
    /\ status \in [Alert -> Ongoing \cup {"none", "closed"}]
    /\ inc \in [Alert -> Alert]
    /\ seen \in [Alert -> Ongoing \cup {"none"}]
    /\ ready \in Seq(Event)
    /\ claims \subseteq Alert /\ ok \subseteq Alert /\ told \subseteq Alert /\ mixed \subseteq Alert
    /\ run \in [Slot -> Dispatch \cup {None}]

(* An incident began with an alert that is its own; alerts that are not in   *)
(* the table are in no incident but their own, and nobody dispatches them.   *)
TableInv ==
    /\ \A a \in Alert : inc[inc[a]] = inc[a]
    /\ \A a \in Alert : status[a] = "none" \/ status[inc[a]] = "none" => inc[a] = a
    /\ \A a \in Alert : seen[a] # "none" => status[a] # "none"
    /\ \A n \in 1..Len(ready) : status[ready[n].alert] # "none"
    /\ \A t \in Slot : run[t] # None => status[run[t].alert] # "none"

(* A dispatch claims the incident of its alert, for a firing event.          *)
ClaimInv ==
    \A t \in Slot : run[t] # None /\ run[t].claim # None =>
        run[t].event = "firing" /\ run[t].claim = inc[run[t].alert]

(* A mark in _send_ok is that of an alert with a dispatch under way.         *)
MarkInv == \A a \in ok : \E t \in Slot : run[t] # None /\ run[t].alert = a

(* A dispatch of which it is not known that it delivered: its alert has no   *)
(* mark, or another dispatch of the alert may have set it.                   *)
Unproven(t) ==
    /\ run[t] # None
    /\ \/ run[t].alert \notin ok
       \/ \E u \in Slot \ {t} : run[u] # None /\ run[u].alert = run[t].alert

BackedInv ==
    \A i \in claims \ mixed : i \in told \/ \E t \in Slot : Unproven(t) /\ run[t].claim = i

(* While the alert an incident began with is ongoing, what claimed it holds  *)
(* it, and an incident whose notification got through stays claimed.         *)
HeldInv ==
    /\ \A t \in Slot : run[t] # None /\ run[t].claim # None
                       /\ status[run[t].claim] \in Ongoing => run[t].claim \in claims
    /\ told \ mixed \subseteq claims

IndInv == Typed /\ TableInv /\ ClaimInv /\ MarkInv /\ BackedInv /\ HeldInv /\ OneClaimant

-----------------------------------------------------------------------------
(* What a waiting dispatch is.                                               *)
LEMMA RunFacts ==
    ASSUME Typed, NEW t \in Slot, run[t] # None
    PROVE  /\ run[t] \in Dispatch /\ run[t].alert \in Alert
           /\ run[t].claim \in Alert \cup {None} /\ run[t].event \in {"firing", "resolved"}
<1>1. run[t] \in Dispatch
  BY DEF Typed
<1>. QED
  BY <1>1 DEF Dispatch

(* A queued event is an event, and its alert one of the alerts.              *)
LEMMA ReadyFacts ==
    ASSUME Typed, NEW n \in 1..Len(ready)
    PROVE  ready[n] \in Event /\ ready[n].alert \in Alert
<1>1. ready[n] \in Event
  BY DEF Typed
<1>. QED
  BY <1>1 DEF Event

(* The alert an incident began with is in the table if a member is.          *)
LEMMA RootKnown ==
    ASSUME Typed, TableInv, NEW a \in Alert, status[a] # "none"
    PROVE  inc[a] \in Alert /\ status[inc[a]] # "none"
BY DEF Typed, TableInv

(* The table changes and nothing of the dispatcher's does.                   *)
LEMMA QuietStep ==
    ASSUME IndInv, UNCHANGED <<claims, ok, run, told, mixed>>, Typed', TableInv',
           \A a \in Alert : status[a] # "none" =>
               inc'[a] = inc[a] /\ (status'[a] \in Ongoing => status[a] \in Ongoing)
    PROVE  IndInv'
<1>. USE DEF IndInv
<1>1. \A t \in Slot : run[t] # None =>
         /\ run[t].alert \in Alert /\ inc'[run[t].alert] = inc[run[t].alert]
         /\ status[inc[run[t].alert]] # "none" /\ inc[run[t].alert] \in Alert
  BY RunFacts, RootKnown DEF TableInv
<1>2. ClaimInv'
  BY <1>1 DEF ClaimInv
<1>3. MarkInv' /\ BackedInv'
  BY DEF MarkInv, BackedInv, Unproven
<1>4. \A t \in Slot : run[t] # None /\ run[t].claim # None =>
         (status'[run[t].claim] \in Ongoing => status[run[t].claim] \in Ongoing)
  BY <1>1 DEF ClaimInv
<1>5. HeldInv'
  BY <1>4 DEF HeldInv
<1>6. OneClaimant'
  BY <1>4 DEF OneClaimant
<1>. QED
  BY <1>2, <1>3, <1>5, <1>6

(* An event is queued behind the others.                                     *)
LEMMA Spawned ==
    ASSUME ready \in Seq(Event), NEW a \in Alert, NEW event \in {"firing", "resolved", "acknowledged"},
           NEW s \in Ongoing \cup {"closed"}, Spawn(a, event, s)
    PROVE  /\ ready' \in Seq(Event) /\ Len(ready') = Len(ready) + 1
           /\ \A n \in 1..Len(ready) : ready'[n] = ready[n]
           /\ ready'[Len(ready) + 1].alert = a
<1>1. [alert |-> a, event |-> event, status |-> s] \in Event
  BY DEF Event
<1>. QED
  BY <1>1 DEF Spawn

(* An alert joins an incident, or begins one.                                *)
LEMMA CreateStep ==
    ASSUME IndInv, NEW a \in Alert, Create(a)
    PROVE  IndInv'
<1>. USE DEF IndInv, Ongoing
<1>1. PICK s \in Ongoing, i \in {a} \cup {inc[b] : b \in {b \in Alert : status[b] \in Ongoing}} :
         /\ status' = [status EXCEPT ![a] = s]
         /\ inc' = [inc EXCEPT ![a] = i]
         /\ Spawn(a, "firing", s)
  BY Zenon DEF Create
<1>2. /\ status[a] = "none" /\ UNCHANGED <<seen, claims, ok, run, told, mixed>>
  BY DEF Create, Rest, memory
<1>3. i \in Alert /\ inc[i] = i /\ (i = a \/ status[i] # "none")
  BY <1>2, RootKnown DEF Typed, TableInv
<1>4. /\ ready' \in Seq(Event) /\ Len(ready') = Len(ready) + 1
      /\ \A n \in 1..Len(ready) : ready'[n] = ready[n]
      /\ ready'[Len(ready) + 1].alert = a
  BY <1>1, Spawned DEF Typed
<1>5. Typed'
  BY <1>1, <1>2, <1>3, <1>4 DEF Typed
<1>6. \A b \in Alert : b # a => inc'[b] = inc[b] /\ status'[b] = status[b]
  BY <1>1 DEF Typed
<1>7. inc'[a] = i /\ status'[a] # "none"
  BY <1>1 DEF Typed
<1>8. \A b \in Alert : inc'[inc'[b]] = inc'[b]
  <2>1. inc'[i] = i
    BY <1>3, <1>6, <1>7
  <2>2. ASSUME NEW b \in Alert, b # a PROVE inc'[inc'[b]] = inc'[b]
    <3>1. inc'[b] = inc[b] /\ inc[b] \in Alert /\ inc[inc[b]] = inc[b]
      BY <1>6, <2>2 DEF Typed, TableInv
    <3>2. CASE inc[b] # a
      BY <1>6, <3>1, <3>2
    <3>3. CASE inc[b] = a
      BY <1>2, <2>2, <3>3 DEF TableInv
    <3>. QED
      BY <3>2, <3>3
  <2>. QED
    BY <1>7, <2>1, <2>2
<1>9. \A b \in Alert : status'[b] = "none" \/ status'[inc'[b]] = "none" => inc'[b] = b
  <2>1. ASSUME NEW b \in Alert, b # a, status'[b] = "none" \/ status'[inc'[b]] = "none"
        PROVE  inc'[b] = b
    BY <1>6, <1>7, <2>1 DEF Typed, TableInv
  <2>2. status'[i] # "none"
    BY <1>3, <1>6, <1>7
  <2>. QED
    BY <1>7, <2>1, <2>2
<1>10. \A b \in Alert : status[b] # "none" => status'[b] # "none"
  BY <1>2, <1>6
<1>11. \A b \in Alert : seen'[b] # "none" => status'[b] # "none"
  BY <1>2, <1>10 DEF TableInv
<1>12. \A n \in 1..Len(ready) : ready[n].alert \in Alert
  BY ReadyFacts
<1>13. \A n \in 1..Len(ready') : status'[ready'[n].alert] # "none"
  BY <1>4, <1>7, <1>10, <1>12 DEF Typed, TableInv
<1>14. \A t \in Slot : run'[t] # None => status'[run'[t].alert] # "none"
  BY <1>2, <1>10, RunFacts DEF TableInv
<1>15. TableInv'
  BY <1>8, <1>9, <1>11, <1>13, <1>14 DEF TableInv
<1>. QED
  BY <1>2, <1>5, <1>6, <1>15, QuietStep

(* A row's status changes, an event may be queued.                           *)
LEMMA StatusStep ==
    ASSUME IndInv, UNCHANGED <<inc, claims, ok, run, told, mixed>>,
           status' \in [Alert -> Ongoing \cup {"none", "closed"}],
           \A b \in Alert : /\ status'[b] = "none" <=> status[b] = "none"
                            /\ status'[b] \in Ongoing => status[b] \in Ongoing,
           seen' \in [Alert -> Ongoing \cup {"none"}],
           \A b \in Alert : seen'[b] # "none" => seen[b] # "none" \/ status[b] # "none",
           \/ UNCHANGED ready
           \/ \E a \in Alert, event \in {"firing", "resolved", "acknowledged"},
                 s \in Ongoing \cup {"closed"} :
                     status[a] # "none" /\ Spawn(a, event, s)
    PROVE  IndInv'
<1>. USE DEF IndInv
<1>1. \A n \in 1..Len(ready) : ready[n].alert \in Alert
  BY ReadyFacts
<1>2. /\ ready' \in Seq(Event)
      /\ \A n \in 1..Len(ready') : status'[ready'[n].alert] # "none"
  <2>1. CASE UNCHANGED ready
    BY <1>1, <2>1 DEF Typed, TableInv
  <2>2. ASSUME NEW a \in Alert, NEW event \in {"firing", "resolved", "acknowledged"},
               NEW s \in Ongoing \cup {"closed"}, status[a] # "none", Spawn(a, event, s)
        PROVE  /\ ready' \in Seq(Event)
               /\ \A n \in 1..Len(ready') : status'[ready'[n].alert] # "none"
    <3>1. /\ ready' \in Seq(Event) /\ Len(ready') = Len(ready) + 1
          /\ \A n \in 1..Len(ready) : ready'[n] = ready[n]
          /\ ready'[Len(ready) + 1].alert = a
      BY <2>2, Spawned DEF Typed
    <3>. QED
      BY <1>1, <2>2, <3>1 DEF Typed, TableInv
  <2>. QED
    BY <2>1, <2>2
<1>3. Typed'
  BY <1>2 DEF Typed
<1>4. \A t \in Slot : run'[t] # None => status'[run'[t].alert] # "none"
  BY RunFacts DEF TableInv
<1>5. TableInv'
  BY <1>2, <1>4 DEF Typed, TableInv
<1>. QED
  BY <1>3, <1>5, QuietStep

(* The cycle, the operators and the sweeps of the table.                     *)
LEMMA CycleStep ==
    ASSUME IndInv, CycleStart \/ CloseAll \/ \E a \in Alert : Turn(a) \/ Operator(a)
    PROVE  IndInv'
<1>. USE DEF Ongoing
<1>0. /\ status \in [Alert -> Ongoing \cup {"none", "closed"}]
      /\ seen \in [Alert -> Ongoing \cup {"none"}]
      /\ \A b \in Alert : seen[b] # "none" => status[b] # "none"
  BY DEF IndInv, Typed, TableInv
<1>1. CASE CycleStart
  <2>1. /\ UNCHANGED <<status, ready, inc, claims, ok, run, told, mixed>>
        /\ seen' \in [Alert -> Ongoing \cup {"none"}]
        /\ \A b \in Alert : seen'[b] # "none" => status[b] # "none"
    BY <1>0, <1>1 DEF CycleStart, Rest, memory
  <2>. QED
    BY <1>0, <2>1, StatusStep
<1>2. CASE CloseAll
  <2>1. /\ UNCHANGED <<seen, ready, inc, claims, ok, run, told, mixed>>
        /\ status' = [a \in Alert |-> IF status[a] \in Ongoing THEN "closed" ELSE status[a]]
    BY <1>2 DEF CloseAll, Rest, memory
  <2>. QED
    BY <1>0, <2>1, StatusStep
<1>3. ASSUME NEW a \in Alert, Turn(a) PROVE IndInv'
  <2>1. /\ UNCHANGED <<inc, claims, ok, run, told, mixed>>
        /\ seen[a] # "none" /\ seen' = [seen EXCEPT ![a] = "none"] /\ status[a] # "none"
    BY <1>0, <1>3 DEF Turn, StillFiring, AutoResolve, TurnOver, Rest, memory
  <2>2. CASE StillFiring(a)
    <3>1. Spawn(a, "firing", seen[a]) /\ UNCHANGED status /\ seen[a] \in Ongoing
      BY <1>0, <2>1, <2>2 DEF StillFiring
    <3>2. \E s \in Ongoing \cup {"closed"} : status[a] # "none" /\ Spawn(a, "firing", s)
      BY <2>1, <3>1 DEF Spawn
    <3>. QED
      BY <1>0, <2>1, <3>1, <3>2, StatusStep
  <2>3. CASE AutoResolve(a)
    <3>1. Spawn(a, "resolved", "closed") /\ status' = [status EXCEPT ![a] = "closed"]
      BY <2>3 DEF AutoResolve
    <3>. QED
      BY <1>0, <2>1, <3>1, StatusStep
  <2>. QED
    BY <1>3, <2>2, <2>3 DEF Turn
<1>4. ASSUME NEW a \in Alert, Operator(a) PROVE IndInv'
  <2>1. ASSUME NEW from \in SUBSET Ongoing, NEW to \in {"active", "handled", "closed"},
               SetStatus(a, from, to),
               \/ UNCHANGED ready
               \/ \E event \in {"firing", "resolved", "acknowledged"}, s \in Ongoing \cup {"closed"} :
                     Spawn(a, event, s)
        PROVE  IndInv'
    <3>1. /\ UNCHANGED <<inc, seen, claims, ok, run, told, mixed>>
          /\ status[a] \in Ongoing /\ status' = [status EXCEPT ![a] = to]
      BY <2>1, Zenon DEF SetStatus, Rest, memory
    <3>. QED
      BY <1>0, <2>1, <3>1, StatusStep
  <2>2. CASE Acknowledge(a)
    BY <2>1, <2>2 DEF Acknowledge
  <2>3. CASE Close(a)
    BY <2>1, <2>3 DEF Close
  <2>4. CASE Ignore(a)
    BY <2>1, <2>4 DEF Ignore
  <2>5. CASE Resume(a)
    BY <2>1, <2>5 DEF Resume
  <2>. QED
    BY <1>4, <2>2, <2>3, <2>4, <2>5 DEF Operator
<1>. QED
  BY <1>1, <1>2, <1>3, <1>4

-----------------------------------------------------------------------------
(* What the sweep keeps, and what an event claims of the rest.               *)
LEMMA EventFacts ==
    ASSUME IndInv, NEW e \in Event, status[e.alert] # "none"
    PROVE  /\ Swept \subseteq claims
           /\ \A i \in claims : inc[i] = i /\ status[i] \in Ongoing => i \in Swept
           /\ Claim(e) = None \/ (/\ Claim(e) = inc[e.alert] /\ Claim(e) \notin Swept
                                  /\ e.event = "firing")
           /\ Held(e) = Swept \cup ({Claim(e)} \ {None})
           /\ Todo(e) \in SUBSET Enabled
           /\ Todo(e) # {} => e.event \in {"firing", "resolved"} /\ ~Suppressed(e)
<1>0. e.alert \in Alert /\ e.event \in {"firing", "resolved", "acknowledged"}
  BY DEF Event
<1>1. inc[e.alert] \in Alert /\ inc[e.alert] # None /\ claims \subseteq Alert
  BY <1>0, DispatcherAssumption DEF IndInv, Typed
<1>2. Swept \subseteq claims
  BY DEF Swept
<1>3. \A i \in claims : inc[i] = i /\ status[i] \in Ongoing => i \in Swept
  BY <1>1 DEF Swept
<1>4. Claim(e) = None \/ (/\ Claim(e) = inc[e.alert] /\ Claim(e) \notin Swept
                          /\ e.event = "firing")
  BY DEF Claim, Claims
<1>5. Held(e) = Swept \cup ({Claim(e)} \ {None})
  <2>1. CASE ~Claims(e)
    BY <2>1 DEF Held, Claim
  <2>2. CASE Claims(e) /\ inc[e.alert] \in Swept
    BY <2>2 DEF Held, Claim
  <2>3. CASE Claims(e) /\ inc[e.alert] \notin Swept
    BY <1>1, <2>3 DEF Held, Claim
  <2>. QED
    BY <2>1, <2>2, <2>3
<1>6. Todo(e) \in SUBSET Enabled
  BY DEF Todo
<1>7. Todo(e) # {} => e.event \in {"firing", "resolved"} /\ ~Suppressed(e)
  <2>1. ASSUME e.event = "acknowledged" PROVE Todo(e) = {}
    BY <2>1 DEF Todo, Selected, Silent
  <2>2. ASSUME Suppressed(e) PROVE Todo(e) = {}
    BY <2>2 DEF Todo
  <2>. QED
    BY <1>0, <2>1, <2>2
<1>. QED
  BY <1>2, <1>3, <1>4, <1>5, <1>6, <1>7

(* An event is taken from the queue: it is of an alert in the table.         *)
LEMMA Taken ==
    ASSUME IndInv, ready # <<>>, ready' = Tail(ready), UNCHANGED table,
           run' \in [Slot -> Dispatch \cup {None}], claims' \subseteq Alert, ok' \subseteq Alert,
           told' \subseteq Alert, mixed' \subseteq Alert,
           \A t \in Slot : run'[t] # None => run'[t] = run[t] \/ run'[t].alert = Head(ready).alert
    PROVE  /\ Head(ready) \in Event /\ status[Head(ready).alert] # "none"
           /\ Typed' /\ TableInv'
<1>. USE DEF IndInv
<1>1. ready \in Seq(Event) /\ Len(ready) >= 1
  BY DEF Typed
<1>2. /\ Head(ready) = ready[1] /\ Tail(ready) \in Seq(Event) /\ Len(Tail(ready)) = Len(ready) - 1
      /\ \A n \in 1..Len(Tail(ready)) : Tail(ready)[n] = ready[n + 1]
  BY <1>1
<1>3. Head(ready) \in Event /\ status[Head(ready).alert] # "none"
  BY <1>1, <1>2 DEF TableInv
<1>4. Typed'
  BY <1>2 DEF Typed, table
<1>5. \A n \in 1..Len(Tail(ready)) : status[Tail(ready)[n].alert] # "none"
  BY <1>1, <1>2 DEF TableInv
<1>6. \A t \in Slot : run'[t] # None => status[run'[t].alert] # "none"
  BY <1>3 DEF TableInv
<1>7. TableInv'
  BY <1>5, <1>6 DEF TableInv, table
<1>. QED
  BY <1>3, <1>4, <1>7

(* The facts of a Begin, with the event it takes named.                      *)
Begun(e, t) ==
    /\ ready # <<>> /\ e = Head(ready) /\ run[t] = None
    /\ ready' = Tail(ready) /\ UNCHANGED table
    /\ told' = told \ (claims \ Swept)

Answered(e, t) ==
    /\ Todo(e) = {} /\ UNCHANGED run
    /\ claims' = IF e.alert \in ok THEN Held(e) ELSE Held(e) \ {Claim(e)}
    /\ ok' = ok \ {e.alert}
    /\ mixed' = mixed \cup (IF e.alert \in ok THEN Meets(e.alert, t) ELSE {Claim(e)} \cap told)

Sending(e, t) ==
    /\ Todo(e) # {} /\ UNCHANGED <<ok, mixed>>
    /\ run' = [run EXCEPT ![t] = [alert |-> e.alert, event |-> e.event,
                                  todo |-> Todo(e), claim |-> Claim(e)]]
    /\ claims' = Held(e)

(* A dispatch that begins takes the event at the head of the queue and is    *)
(* answered at once or goes on to its sends.                                 *)
LEMMA BeginIs ==
    ASSUME NEW t \in Slot, Begin(t)
    PROVE  \E e : Begun(e, t) /\ (Answered(e, t) \/ Sending(e, t))
<1>1. PICK e : e = Head(ready)
  OBVIOUS
<1>2. Begun(e, t)
  BY <1>1 DEF Begin, Begun, Free
<1>3. Answered(e, t) \/ Sending(e, t)
  BY <1>1, Zenon DEF Begin, Answered, Sending, Finish, Release
<1>. QED
  BY <1>2, <1>3

(* An event that goes nowhere: its claim, if it made one, is given up, or    *)
(* kept for the mark of another dispatch of the alert.                       *)
LEMMA AnsweredStep ==
    ASSUME IndInv, NEW t \in Slot, NEW e, Begun(e, t), Answered(e, t)
    PROVE  IndInv'
<1>. USE DEF IndInv
<1>a. /\ e \in Event /\ status[e.alert] # "none" /\ Typed' /\ TableInv'
  <2>1. e \in Event /\ status[e.alert] # "none"
    <3>1. ready \in Seq(Event) /\ ready # <<>> /\ e = ready[1] /\ 1 \in 1..Len(ready)
      BY DEF Begun, Typed
    <3>. QED
      BY <3>1, ReadyFacts DEF TableInv
  <2>2. Held(e) \subseteq Alert
    BY <2>1, EventFacts DEF Typed, Event
  <2>3. Meets(e.alert, t) \subseteq Alert
    BY RunFacts DEF Meets, Typed
  <2>4. /\ run' \in [Slot -> Dispatch \cup {None}] /\ claims' \subseteq Alert /\ ok' \subseteq Alert
        /\ told' \subseteq Alert /\ mixed' \subseteq Alert
    BY <2>2, <2>3 DEF Answered, Begun, Typed
  <2>5. ready # <<>> /\ ready' = Tail(ready) /\ UNCHANGED table
    BY DEF Begun
  <2>6. \A u \in Slot : run'[u] # None => run'[u] = run[u]
    BY DEF Answered
  <2>. QED
    BY <2>1, <2>4, <2>5, <2>6, Taken
<1>b. /\ Swept \subseteq claims
      /\ \A i \in claims : inc[i] = i /\ status[i] \in Ongoing => i \in Swept
      /\ Claim(e) \notin Swept \/ Claim(e) = None
      /\ Claim(e) = None \/ Claim(e) = inc[e.alert]
      /\ Held(e) = Swept \cup ({Claim(e)} \ {None})
  BY <1>a, EventFacts
<1>c. UNCHANGED <<run, inc, status>> /\ run[t] = None
      /\ told' = told \ (claims \ Swept) /\ ok' \subseteq ok
  BY DEF Begun, Answered, table
<1>d. Swept \subseteq claims' /\ mixed \subseteq mixed'
      /\ (e.alert \notin ok => claims' = Swept)
      /\ (e.alert \in ok => claims' = Held(e) /\ Meets(e.alert, t) \subseteq mixed')
  <2>1. None \notin Swept
    BY <1>b, DispatcherAssumption DEF Typed
  <2>. QED
    BY <1>b, <2>1 DEF Answered
<1>1. ClaimInv'
  BY <1>c DEF ClaimInv
<1>2. MarkInv'
  BY <1>c DEF MarkInv
<1>3. BackedInv'
  <2>. SUFFICES ASSUME NEW i \in claims', i \notin mixed', i \notin told'
                PROVE  \E u \in Slot : Unproven(u)' /\ run'[u].claim = i
    BY DEF BackedInv
  <2>1. CASE i \in Swept
    <3>1. PICK u \in Slot : Unproven(u) /\ run[u].claim = i
      BY <1>b, <1>c, <1>d, <2>1 DEF BackedInv
    <3>. QED
      BY <1>c, <3>1 DEF Unproven
  <2>2. CASE i \notin Swept
    <3>1. e.alert \in ok /\ i = inc[e.alert]
      BY <1>b, <1>d, <2>2
    <3>2. PICK u \in Slot : run[u] # None /\ run[u].alert = e.alert
      BY <3>1 DEF MarkInv
    <3>3. i \in Meets(e.alert, t)
      BY <1>c, <3>1, <3>2 DEF Meets
    <3>. QED
      BY <1>d, <3>1, <3>3
  <2>. QED
    BY <2>1, <2>2
<1>4. HeldInv'
  <2>1. ASSUME NEW u \in Slot, run[u] # None, run[u].claim # None, status[run[u].claim] \in Ongoing
        PROVE  run[u].claim \in claims'
    <3>1. run[u].claim \in claims /\ inc[run[u].claim] = run[u].claim
      BY <2>1, RunFacts DEF HeldInv, ClaimInv, TableInv
    <3>. QED
      BY <1>b, <1>d, <2>1, <3>1
  <2>2. told' \ mixed' \subseteq claims'
    BY <1>c, <1>d DEF HeldInv
  <2>. QED
    BY <1>c, <2>1, <2>2 DEF HeldInv
<1>5. OneClaimant'
  BY <1>c DEF OneClaimant
<1>. QED
  BY <1>a, <1>1, <1>2, <1>3, <1>4, <1>5

(* An event that is sent somewhere: what it claims is claimed by nobody.     *)
LEMMA SendingStep ==
    ASSUME IndInv, NEW t \in Slot, NEW e, Begun(e, t), Sending(e, t)
    PROVE  IndInv'
<1>. USE DEF IndInv
<1>a. e \in Event /\ status[e.alert] # "none"
  <2>1. ready \in Seq(Event) /\ ready # <<>> /\ e = ready[1] /\ 1 \in 1..Len(ready)
    BY DEF Begun, Typed
  <2>. QED
    BY <2>1, ReadyFacts DEF TableInv
<1>b. /\ Swept \subseteq claims
      /\ \A i \in claims : inc[i] = i /\ status[i] \in Ongoing => i \in Swept
      /\ Claim(e) = None \/ (/\ Claim(e) = inc[e.alert] /\ Claim(e) \notin Swept
                             /\ e.event = "firing")
      /\ Held(e) = Swept \cup ({Claim(e)} \ {None})
      /\ Todo(e) \in SUBSET Enabled /\ e.event \in {"firing", "resolved"}
  BY <1>a, EventFacts DEF Sending
<1>c. /\ UNCHANGED <<ok, mixed, inc, status>> /\ run[t] = None
      /\ told' = told \ (claims \ Swept) /\ claims' = Held(e)
  BY DEF Begun, Sending, table
<1>d. PICK d : d = [alert |-> e.alert, event |-> e.event, todo |-> Todo(e), claim |-> Claim(e)]
  BY Zenon
<1>e. /\ d.alert = e.alert /\ d.event = e.event /\ d.claim = Claim(e)
      /\ e.alert \in Alert /\ inc[e.alert] \in Alert
      /\ d \in Dispatch /\ d # None
  <2>1. e.alert \in Alert
    BY <1>a DEF Event
  <2>2. inc[e.alert] \in Alert
    BY <2>1 DEF Typed
  <2>3. d \in Dispatch
    BY <1>b, <1>d, <2>1, <2>2 DEF Dispatch
  <2>. QED
    BY <1>d, <2>1, <2>2, <2>3, DispatcherAssumption
<1>f. run'[t] = d /\ (\A u \in Slot : u # t => run'[u] = run[u])
      /\ run' \in [Slot -> Dispatch \cup {None}]
  BY <1>d, <1>e DEF Sending, Typed
<1>g. Typed' /\ TableInv'
  <2>1. /\ claims' \subseteq Alert /\ ok' \subseteq Alert /\ told' \subseteq Alert
        /\ mixed' \subseteq Alert
    BY <1>b, <1>c, <1>e DEF Typed
  <2>2. ready # <<>> /\ ready' = Tail(ready) /\ UNCHANGED table /\ e = Head(ready)
    BY DEF Begun
  <2>3. \A u \in Slot : run'[u] # None => run'[u] = run[u] \/ run'[u].alert = Head(ready).alert
    BY <1>e, <1>f, <2>2
  <2>. QED
    BY <1>f, <2>1, <2>2, <2>3, Taken
<1>1. ClaimInv'
  BY <1>b, <1>c, <1>e, <1>f DEF ClaimInv
<1>2. MarkInv'
  BY <1>c, <1>f DEF MarkInv
<1>3. BackedInv'
  <2>. SUFFICES ASSUME NEW i \in claims', i \notin mixed', i \notin told'
                PROVE  \E u \in Slot : Unproven(u)' /\ run'[u].claim = i
    BY DEF BackedInv
  <2>1. CASE i \in Swept
    <3>1. PICK u \in Slot : Unproven(u) /\ run[u].claim = i
      BY <1>b, <1>c, <2>1 DEF BackedInv
    <3>2. u # t /\ Unproven(u)'
      BY <1>c, <1>f, <3>1 DEF Unproven
    <3>. QED
      BY <1>f, <3>1, <3>2
  <2>2. CASE i \notin Swept
    <3>1. i = Claim(e)
      BY <1>b, <1>c, <2>2
    <3>2. Unproven(t)'
      BY <1>c, <1>e, <1>f DEF Unproven, MarkInv
    <3>. QED
      BY <1>e, <1>f, <3>1, <3>2
  <2>. QED
    BY <2>1, <2>2
<1>h. ASSUME NEW u \in Slot, u # t, run[u] # None, run[u].claim # None,
             status[run[u].claim] \in Ongoing
      PROVE  run[u].claim \in Swept
  <2>1. run[u].claim \in claims /\ inc[run[u].claim] = run[u].claim
    BY <1>h, RunFacts DEF HeldInv, ClaimInv, TableInv
  <2>. QED
    BY <1>b, <1>h, <2>1
<1>4. HeldInv'
  <2>1. \A u \in Slot : run'[u] # None /\ run'[u].claim # None /\ status'[run'[u].claim] \in Ongoing
                            => run'[u].claim \in claims'
    BY <1>b, <1>c, <1>e, <1>f, <1>h
  <2>2. told' \ mixed' \subseteq claims'
    BY <1>b, <1>c DEF HeldInv
  <2>. QED
    BY <2>1, <2>2 DEF HeldInv
<1>5. OneClaimant'
  <2>. SUFFICES ASSUME NEW u \in Slot, NEW v \in Slot, u # v, run'[u] # None, run'[v] # None,
                       run'[u].claim = run'[v].claim, run'[u].claim # None,
                       status[run'[u].claim] \in Ongoing
                PROVE  FALSE
    BY <1>c DEF OneClaimant
  <2>1. CASE u # t /\ v # t
    BY <1>f, <2>1 DEF OneClaimant
  <2>2. CASE u = t
    BY <1>b, <1>e, <1>f, <1>h, <2>2
  <2>3. CASE v = t
    BY <1>b, <1>e, <1>f, <1>h, <2>3
  <2>. QED
    BY <2>1, <2>2, <2>3
<1>. QED
  BY <1>g, <1>1, <1>2, <1>3, <1>4, <1>5

(* A channel answers: a delivery marks the alert and claims the incident.    *)
LEMMA SendStep ==
    ASSUME IndInv, NEW t \in Slot, NEW good \in BOOLEAN, Send(t, good)
    PROVE  IndInv'
<1>. USE DEF IndInv
<1>a. PICK d : d = run[t]
  OBVIOUS
<1>b. /\ d # None /\ d \in Dispatch /\ d.alert \in Alert /\ d.claim \in Alert \cup {None}
      /\ d.event \in {"firing", "resolved"} /\ inc[d.alert] \in Alert
  BY <1>a, RunFacts DEF Send, Typed
<1>c. PICK c \in d.todo : run' = [run EXCEPT ![t].todo = @ \ {c}]
  BY <1>a, Zenon DEF Send
<1>d. PICK q : q = [d EXCEPT !.todo = @ \ {c}]
  BY Zenon
<1>e. /\ q \in Dispatch /\ q # None /\ q.alert = d.alert /\ q.claim = d.claim /\ q.event = d.event
  <2>1. q \in Dispatch
    BY <1>b, <1>d DEF Dispatch
  <2>. QED
    BY <1>b, <1>d, <2>1, DispatcherAssumption DEF Dispatch
<1>f. run'[t] = q /\ (\A u \in Slot : u # t => run'[u] = run[u])
      /\ run' \in [Slot -> Dispatch \cup {None}]
  BY <1>a, <1>c, <1>d, <1>e DEF Typed
<1>g. \A u \in Slot : /\ run'[u] = None <=> run[u] = None
                      /\ run[u] # None => /\ run'[u].alert = run[u].alert
                                          /\ run'[u].claim = run[u].claim
                                          /\ run'[u].event = run[u].event
  BY <1>a, <1>b, <1>e, <1>f
<1>h. UNCHANGED <<status, inc, seen, ready, mixed>>
  BY DEF Send, table
<1>i. ok' = IF good THEN ok \cup {d.alert} ELSE ok
  BY <1>a DEF Send
<1>j. PICK del \in SUBSET Alert :
         /\ claims' = claims \cup del /\ told' = told \cup del
         /\ good /\ d.event = "firing" => inc[d.alert] \in del
  BY <1>a, <1>b, Zenon DEF Send
<1>1. Typed'
  BY <1>b, <1>f, <1>h, <1>i, <1>j DEF Typed
<1>2. TableInv'
  BY <1>g, <1>h DEF TableInv
<1>3. ClaimInv'
  BY <1>g, <1>h DEF ClaimInv
<1>4. MarkInv'
  BY <1>a, <1>b, <1>g, <1>i DEF MarkInv
<1>5. BackedInv'
  <2>. SUFFICES ASSUME NEW i \in claims', i \notin mixed', i \notin told'
                PROVE  \E u \in Slot : Unproven(u)' /\ run'[u].claim = i
    BY DEF BackedInv
  <2>1. PICK u \in Slot : Unproven(u) /\ run[u].claim = i
    BY <1>h, <1>j DEF BackedInv
  <2>2. run[u] # None /\ run'[u].claim = i
    BY <1>g, <2>1 DEF Unproven
  <2>3. CASE good /\ u = t
    <3>1. i # None /\ run[u].claim = inc[run[u].alert] /\ run[u].event = "firing"
      BY <1>1, <2>1, <2>2, DispatcherAssumption DEF ClaimInv, Typed
    <3>. QED
      BY <1>a, <1>j, <2>1, <2>3, <3>1
  <2>4. CASE good /\ u # t /\ run[u].alert = d.alert
    BY <1>a, <1>b, <1>g, <2>2, <2>4 DEF Unproven
  <2>5. CASE ~good \/ run[u].alert # d.alert
    <3>1. run[u].alert \in ok' => run[u].alert \in ok
      BY <1>i, <2>5
    <3>. QED
      BY <1>g, <2>1, <2>2, <3>1 DEF Unproven
  <2>. QED
    BY <2>3, <2>4, <2>5
<1>6. HeldInv'
  BY <1>g, <1>h, <1>j DEF HeldInv
<1>7. OneClaimant'
  BY <1>g, <1>h DEF OneClaimant
<1>. QED
  BY <1>1, <1>2, <1>3, <1>4, <1>5, <1>6, <1>7

(* The sends are over: the claim stays if a send of the alert got through.   *)
LEMMA EndStep ==
    ASSUME IndInv, NEW t \in Slot, End(t)
    PROVE  IndInv'
<1>. USE DEF IndInv
<1>a. PICK a, c : a = run[t].alert /\ c = run[t].claim
  OBVIOUS
<1>b. run[t] # None /\ a \in Alert /\ c \in Alert \cup {None}
      /\ (c # None => c = inc[a])
  BY <1>a, RunFacts DEF End, ClaimInv
<1>c. UNCHANGED <<status, inc, seen, ready, told>> /\ ok' = ok \ {a}
  BY <1>a DEF End, Finish, table
<1>d. claims' = IF a \in ok THEN claims ELSE claims \ {c}
  BY <1>a, Zenon DEF End, Finish, Release
<1>e. mixed' = mixed \cup (IF a \in ok THEN Meets(a, t) ELSE {c} \cap told)
  BY <1>a, Zenon DEF End, Finish, Meets
<1>f. run'[t] = None /\ (\A u \in Slot : u # t => run'[u] = run[u])
      /\ run' \in [Slot -> Dispatch \cup {None}]
  BY DEF End, Typed
<1>g. \A u \in Slot : u # t /\ run[u] # None /\ run[u].alert = a => inc[a] \in Meets(a, t)
  BY DEF Meets
<1>h. Meets(a, t) \subseteq Alert
  BY RunFacts DEF Meets, Typed
<1>1. Typed'
  BY <1>c, <1>d, <1>e, <1>f, <1>h DEF Typed
<1>2. TableInv'
  BY <1>c, <1>f DEF TableInv
<1>3. ClaimInv'
  BY <1>c, <1>f DEF ClaimInv
<1>4. MarkInv'
  <2>. SUFFICES ASSUME NEW b \in ok' PROVE \E u \in Slot : run'[u] # None /\ run'[u].alert = b
    BY DEF MarkInv
  <2>1. PICK u \in Slot : run[u] # None /\ run[u].alert = b
    BY <1>c DEF MarkInv
  <2>. QED
    BY <1>a, <1>c, <1>f, <2>1
<1>5. BackedInv'
  <2>. SUFFICES ASSUME NEW i \in claims', i \notin mixed', i \notin told'
                PROVE  \E u \in Slot : Unproven(u)' /\ run'[u].claim = i
    BY DEF BackedInv
  <2>1. PICK u \in Slot : Unproven(u) /\ run[u].claim = i
    BY <1>c, <1>d, <1>e DEF BackedInv
  <2>2. run[u] # None /\ i \in Alert /\ i = inc[run[u].alert]
    BY <1>d, <2>1, DispatcherAssumption DEF Unproven, ClaimInv, Typed
  <2>3. u # t
    <3>1. ASSUME u = t, a \in ok PROVE FALSE
      <4>1. PICK v \in Slot : v # t /\ run[v] # None /\ run[v].alert = a
        BY <1>a, <2>1, <3>1 DEF Unproven
      <4>. QED
        BY <1>a, <1>e, <1>g, <2>2, <3>1, <4>1
    <3>2. ASSUME u = t, a \notin ok PROVE FALSE
      BY <1>a, <1>d, <2>1, <3>2
    <3>. QED
      BY <3>1, <3>2
  <2>4. run[u].alert \notin ok' \/ run[u].alert # a
    BY <1>c
  <2>5. Unproven(u)'
    <3>1. CASE run[u].alert = a
      BY <1>c, <1>f, <2>2, <2>3, <3>1 DEF Unproven
    <3>2. CASE run[u].alert # a
      BY <1>a, <1>c, <1>f, <2>1, <2>3, <3>2 DEF Unproven
    <3>. QED
      BY <3>1, <3>2
  <2>. QED
    BY <1>f, <2>1, <2>3, <2>5
<1>6. HeldInv'
  <2>1. ASSUME NEW u \in Slot, u # t, run[u] # None, run[u].claim # None,
               status[run[u].claim] \in Ongoing
        PROVE  run[u].claim \in claims'
    <3>1. run[u].claim \in claims
      BY <2>1 DEF HeldInv
    <3>2. run[u].claim # c
      BY <1>a, <1>b, <2>1 DEF OneClaimant
    <3>. QED
      BY <1>d, <3>1, <3>2
  <2>2. told' \ mixed' \subseteq claims'
    BY <1>c, <1>d, <1>e DEF HeldInv
  <2>. QED
    BY <1>c, <1>f, <2>1, <2>2 DEF HeldInv
<1>7. OneClaimant'
  BY <1>c, <1>f DEF OneClaimant
<1>. QED
  BY <1>1, <1>2, <1>3, <1>4, <1>5, <1>6, <1>7

-----------------------------------------------------------------------------
(* Nothing is claimed, marked, told or under way, as after a start of the    *)
(* engine.                                                                   *)
LEMMA AtStart ==
    ASSUME Typed, claims = {}, ok = {}, told = {}, \A t \in Slot : run[t] = None, TableInv
    PROVE  IndInv
BY DEF IndInv, ClaimInv, MarkInv, BackedInv, HeldInv, OneClaimant

(* The invariant holds when the engine starts.                               *)
LEMMA IndInvInit == Init => IndInv
<1>. SUFFICES ASSUME Init PROVE IndInv
  OBVIOUS
<1>1. Typed
  BY DEF Init, Typed, Ongoing
<1>2. TableInv
  BY DEF Init, TableInv
<1>. QED
  BY <1>1, <1>2, AtStart DEF Init

(* Every step of the loop, the operators, the sends and the sweep keeps it.  *)
LEMMA IndInvStep == IndInv /\ [Next]_vars => IndInv'
<1>. SUFFICES ASSUME IndInv, [Next]_vars PROVE IndInv'
  OBVIOUS
<1>1. CASE CycleStart \/ CloseAll \/ \E a \in Alert : Turn(a) \/ Operator(a)
  BY <1>1, CycleStep
<1>2. ASSUME NEW a \in Alert, Create(a) PROVE IndInv'
  BY <1>2, CreateStep
<1>3. CASE SweepDue \/ (\E k \in Key : Elapse(k)) \/ UNCHANGED vars
  <2>1. UNCHANGED <<status, inc, seen, ready, claims, ok, run, told, mixed>>
    BY <1>3, Zenon DEF SweepDue, Elapse, vars, table, memory
  <2>2. Typed' /\ TableInv'
    BY <2>1 DEF IndInv, Typed, TableInv
  <2>. QED
    BY <2>1, <2>2, QuietStep
<1>4. CASE Restart
  <2>1. /\ seen' = [a \in Alert |-> "none"] /\ ready' = <<>> /\ claims' = {} /\ ok' = {}
        /\ told' = {} /\ mixed' = {} /\ run' = [t \in Slot |-> None] /\ UNCHANGED <<status, inc>>
    BY <1>4 DEF Restart
  <2>2. Typed'
    BY <2>1 DEF IndInv, Typed
  <2>3. TableInv'
    BY <2>1 DEF IndInv, TableInv, Typed
  <2>. QED
    BY <2>1, <2>2, <2>3 DEF IndInv, ClaimInv, MarkInv, BackedInv, HeldInv, OneClaimant
<1>5. ASSUME NEW t \in Slot, Begin(t) PROVE IndInv'
  BY <1>5, BeginIs, AnsweredStep, SendingStep
<1>6. ASSUME NEW t \in Slot, NEW good \in BOOLEAN, Send(t, good) PROVE IndInv'
  BY <1>6, SendStep
<1>7. ASSUME NEW t \in Slot, End(t) PROVE IndInv'
  BY <1>7, EndStep
<1>. QED
  BY <1>1, <1>2, <1>3, <1>4, <1>5, <1>6, <1>7 DEF Next

(* The invariant holds in every state that the dispatcher reaches.           *)
LEMMA Invariance == Spec => []IndInv
BY IndInvInit, IndInvStep, PTL DEF Spec

(* An incident is held claimed only while a member's firing notification got *)
(* through or a dispatch that claimed it waits for its sends, whatever is    *)
(* sent, fails, is swept or restarted in between.                            *)
THEOREM ClaimsAreBacked == Spec => []ClaimBacked
<1>1. IndInv => ClaimBacked
  BY DEF IndInv, BackedInv, Unproven, ClaimBacked
<1>. QED
  BY <1>1, Invariance, PTL

(* Two dispatches never hold the claim on an incident at a time while the    *)
(* alert it began with is ongoing.                                           *)
THEOREM ClaimsAreSingle == Spec => []OneClaimant
<1>1. IndInv => OneClaimant
  BY DEF IndInv
<1>. QED
  BY <1>1, Invariance, PTL

(* Under notify_per_incident, once a firing notification of an incident got  *)
(* through, no member but the one it began with starts another               *)
(* (_incident_channel_suppressed).                                           *)
THEOREM MembersKeepQuiet == PerIncident => (Spec => OneVoice)
<1>. SUFFICES ASSUME PerIncident PROVE Spec => OneVoice
  OBVIOUS
<1>. DEFINE Quiet(t) ==
        run[t] = None /\ run'[t] # None /\ run'[t].event = "firing" =>
            \/ inc[run'[t].alert] = run'[t].alert
            \/ inc[run'[t].alert] \notin told' \ mixed
            \/ status[inc[run'[t].alert]] \notin Ongoing
<1>1. ASSUME IndInv, [Next]_vars, NEW t \in Slot, run[t] = None, run'[t] # None,
             run'[t].event = "firing", inc[run'[t].alert] # run'[t].alert,
             inc[run'[t].alert] \in told', inc[run'[t].alert] \notin mixed
      PROVE  FALSE
  <2>1. ASSUME NEW u \in Slot, NEW e, Begun(e, u), Sending(e, u) PROVE FALSE
    <3>1. e \in Event /\ status[e.alert] # "none"
      <4>1. ready \in Seq(Event) /\ ready # <<>> /\ e = ready[1] /\ 1 \in 1..Len(ready)
        BY <1>1, <2>1 DEF Begun, Typed, IndInv
      <4>. QED
        BY <1>1, <4>1, ReadyFacts DEF TableInv, IndInv
    <3>2. ~Suppressed(e)
      BY <1>1, <2>1, <3>1, EventFacts DEF Sending
    <3>3. t = u /\ run'[t].alert = e.alert /\ run'[t].event = e.event
      BY <1>1, <2>1 DEF Sending, IndInv, Typed
    <3>4. inc[e.alert] \notin Swept
      BY <1>1, <3>2, <3>3 DEF Suppressed
    <3>5. inc[e.alert] \in told /\ inc[e.alert] \notin claims
      BY <1>1, <2>1, <3>3, <3>4 DEF Begun
    <3>. QED
      BY <1>1, <3>3, <3>5 DEF IndInv, HeldInv
  <2>2. ASSUME NEW u \in Slot, Begin(u) PROVE FALSE
    <3>1. PICK e : Begun(e, u) /\ (Answered(e, u) \/ Sending(e, u))
      BY <2>2, BeginIs
    <3>. QED
      BY <1>1, <2>1, <3>1 DEF Answered
  <2>3. ASSUME NEW u \in Slot, End(u) \/ \E good \in BOOLEAN : Send(u, good) PROVE FALSE
    BY <1>1, <2>3 DEF End, Send, IndInv, Typed
  <2>4. CASE Restart
    BY <1>1, <2>4 DEF Restart
  <2>5. CASE \/ CycleStart \/ CloseAll \/ SweepDue \/ UNCHANGED vars
             \/ \E a \in Alert : Create(a) \/ Turn(a) \/ Operator(a)
             \/ \E k \in Key : Elapse(k)
    <3>1. UNCHANGED run
      BY <2>5, Zenon DEF CycleStart, CloseAll, SweepDue, vars, Create, Turn, StillFiring, AutoResolve,
         Operator, Acknowledge, Close, Ignore, Resume, SetStatus, Rest, Elapse
    <3>. QED
      BY <1>1, <3>1
  <2>. QED
    BY <1>1, <2>2, <2>3, <2>4, <2>5 DEF Next
<1>2. IndInv /\ [Next]_vars => \A t \in Slot : Quiet(t)
  BY <1>1
<1>3. IndInv /\ [Next]_vars =>
         [\A t \in Slot :
             run[t] = None /\ run'[t] # None /\ run'[t].event = "firing" =>
                 LET a == run'[t].alert
                 IN  inc[a] = a \/ inc[a] \notin told' \ mixed \/ status[inc[a]] \notin Ongoing]_vars
  BY <1>2, Zenon
<1>. QED
  BY <1>3, Invariance, PTL DEF Spec, OneVoice
=============================================================================
