---------------------------- MODULE AlertsProofs ----------------------------
(***************************************************************************)
(* The alert tables, the cache and the rules stay in step: theorems about  *)
(* Alerts for any rules, cycle settings, number of alerts and clock.       *)
(*                                                                         *)
(* The stored state is a record and the methods are operators on it, so    *)
(* the proof is about operators first: Tame(e, f) is what every method     *)
(* but process_alert() keeps from the state e to its result f.             *)
(***************************************************************************)
EXTENDS Alerts, FiniteSetTheorems, WellFoundedInduction, TLAPS

Store ==
    [alerts : Rows, history : Rows, win : [Rule -> 0..MaxTime], cached : BOOLEAN,
     rows : Rows, next : 1..MaxAlerts + 1]

(* The tables are disjoint, and a row is in the one its status belongs in.   *)
Good(e) ==
    /\ e \in Store
    /\ DOMAIN e.alerts \cap DOMAIN e.history = {}
    /\ \A a \in DOMAIN e.alerts : e.alerts[a].status \in Ongoing
    /\ \A a \in DOMAIN e.history : e.history[a].status = "closed"

Coherent(e) == e.cached => e.rows = QueryActive(e)

(* No alert appears, and none changes its rule.                              *)
Kept(e, f) ==
    Known(f) \subseteq Known(e) /\ \A a \in Known(f) : GetAlert(f, a).rule = GetAlert(e, a).rule

Tame(e, f) == Good(f) /\ Kept(e, f) /\ (Coherent(e) => Coherent(f)) /\ f.next = e.next

-----------------------------------------------------------------------------
(* Numbers and sets of rows.                                                 *)

(* A nonempty set of numbers has a least member.                             *)
LEMMA LeastNat ==
    ASSUME NEW T \in SUBSET Nat, T # {}
    PROVE  \E x \in T : \A y \in T : x <= y
<1>1. PICK x \in T : \A y \in T : ~(<<y, x>> \in OpToRel(<, Nat))
  BY NatLessThanWellFounded, WFMin, Zenon
<1>2. \A y \in T : ~(y < x)
  BY <1>1, Zenon DEF OpToRel
<1>. QED
  BY <1>2

(* A nonempty bounded set of numbers has its maximum.                        *)
LEMMA MaxOfBounded ==
    ASSUME NEW n \in Nat, NEW S \in SUBSET (0..n), S # {}
    PROVE  Max(S) \in S
<1>. DEFINE T == {n - x : x \in S}
<1>1. T \in SUBSET Nat /\ T # {}
  <2>1. \A x \in S : n - x \in Nat
    OBVIOUS
  <2>. QED
    BY <2>1, Zenon
<1>2. PICK t \in T : \A y \in T : t <= y
  <2>. HIDE DEF T
  <2>. QED
    BY <1>1, LeastNat
<1>3. PICK x \in S : t = n - x
  OBVIOUS
<1>4. \A y \in S : x >= y
  BY <1>2, <1>3
<1>. QED
  BY <1>4, Zenon DEF Max

(* A table is a function from some alerts to rows.                           *)
LEMMA RowsIntro ==
    ASSUME NEW A \in SUBSET Alert, NEW f \in [A -> Row]
    PROVE  f \in Rows
BY DEF Rows

(* And every table is one.                                                   *)
LEMMA RowsElim ==
    ASSUME NEW f \in Rows
    PROVE  DOMAIN f \in SUBSET Alert /\ f \in [DOMAIN f -> Row]
BY DEF Rows

(* The empty table.                                                          *)
LEMMA NoRowsType == NoRows \in Rows /\ DOMAIN NoRows = {}
<1>1. NoRows \in [{} -> Row] /\ {} \in SUBSET Alert
  BY DEF NoRows
<1>. QED
  BY <1>1, RowsIntro, Zenon DEF NoRows

(* Part of a table is a table.                                               *)
LEMMA RestrictType ==
    ASSUME NEW f \in Rows, NEW A \in SUBSET DOMAIN f
    PROVE  /\ Restrict(f, A) \in Rows /\ DOMAIN Restrict(f, A) = A
           /\ \A a \in A : Restrict(f, A)[a] = f[a]
<1>1. Restrict(f, A) \in [A -> Row] /\ A \in SUBSET Alert
  BY RowsElim DEF Restrict
<1>. QED
  BY <1>1, RowsIntro DEF Restrict

(* Rows written over a table give a table.                                   *)
LEMMA UpsertType ==
    ASSUME NEW f \in Rows, NEW g \in Rows
    PROVE  /\ Upsert(f, g) \in Rows /\ DOMAIN Upsert(f, g) = DOMAIN f \cup DOMAIN g
           /\ \A a \in DOMAIN f \cup DOMAIN g :
                 Upsert(f, g)[a] = IF a \in DOMAIN g THEN g[a] ELSE f[a]
<1>1. Upsert(f, g) \in [DOMAIN f \cup DOMAIN g -> Row] /\ DOMAIN f \cup DOMAIN g \in SUBSET Alert
  BY RowsElim DEF Upsert
<1>. QED
  BY <1>1, RowsIntro DEF Upsert

(* The fields of the stored state.                                           *)
LEMMA StoreFields ==
    ASSUME NEW e \in Store
    PROVE  /\ e.alerts \in Rows /\ e.history \in Rows /\ e.rows \in Rows
           /\ e.win \in [Rule -> 0..MaxTime] /\ e.cached \in BOOLEAN
           /\ e.next \in 1..MaxAlerts + 1
BY DEF Store

(* A row is found in one table, and closed exactly if that is the history.   *)
LEMMA GetAlertType ==
    ASSUME NEW e, Good(e), NEW a \in Known(e)
    PROVE  /\ GetAlert(e, a) \in Row /\ a \in Alert
           /\ a \in DOMAIN e.alerts <=> GetAlert(e, a).status # "closed"
<1>1. e.alerts \in Rows /\ e.history \in Rows
  BY StoreFields DEF Good
<1>2. \A b \in DOMAIN e.alerts : e.alerts[b] \in Row /\ b \in Alert
  BY <1>1, RowsElim
<1>3. \A b \in DOMAIN e.history : e.history[b] \in Row /\ b \in Alert
  BY <1>1, RowsElim
<1>. QED
  BY <1>2, <1>3 DEF Good, Known, GetAlert, Ongoing

-----------------------------------------------------------------------------
(* The methods of the tables and of the cache.                               *)

(* write_alert(): the rows of f are what is read of them from now on, each   *)
(* in its table, and the other alerts are as they were.                      *)
LEMMA WriteAlertsFits ==
    ASSUME NEW e, Good(e), NEW f \in Rows
    PROVE  /\ Good(WriteAlerts(e, f))
           /\ Known(WriteAlerts(e, f)) = Known(e) \cup DOMAIN f
           /\ \A a \in Known(e) \cup DOMAIN f :
                 GetAlert(WriteAlerts(e, f), a) = IF a \in DOMAIN f THEN f[a] ELSE GetAlert(e, a)
           /\ WriteAlerts(e, f).next = e.next /\ WriteAlerts(e, f).win = e.win
<1>. DEFINE C == ClosedOf(f)
            x == Upsert(Without(e.alerts, C), Without(f, C))
            h == Upsert(Without(e.history, DOMAIN f), Restrict(f, C))
            w == WriteAlerts(e, f)
<1>1. e \in Store /\ e.alerts \in Rows /\ e.history \in Rows /\ C \subseteq DOMAIN f
  BY StoreFields DEF Good, ClosedOf
<1>2. /\ Without(e.alerts, C) \in Rows /\ DOMAIN Without(e.alerts, C) = DOMAIN e.alerts \ C
      /\ \A a \in DOMAIN e.alerts \ C : Without(e.alerts, C)[a] = e.alerts[a]
  BY <1>1, RestrictType DEF Without
<1>3. /\ Without(f, C) \in Rows /\ DOMAIN Without(f, C) = DOMAIN f \ C
      /\ \A a \in DOMAIN f \ C : Without(f, C)[a] = f[a]
  BY <1>1, RestrictType DEF Without
<1>4. /\ Without(e.history, DOMAIN f) \in Rows
      /\ DOMAIN Without(e.history, DOMAIN f) = DOMAIN e.history \ DOMAIN f
      /\ \A a \in DOMAIN e.history \ DOMAIN f : Without(e.history, DOMAIN f)[a] = e.history[a]
  BY <1>1, RestrictType DEF Without
<1>5. /\ Restrict(f, C) \in Rows /\ DOMAIN Restrict(f, C) = C
      /\ \A a \in C : Restrict(f, C)[a] = f[a]
  BY <1>1, RestrictType
<1>. HIDE DEF C
<1>6. /\ x \in Rows /\ DOMAIN x = (DOMAIN e.alerts \ C) \cup (DOMAIN f \ C)
      /\ \A a \in DOMAIN x : x[a] = IF a \in DOMAIN f THEN f[a] ELSE e.alerts[a]
  <2>1. PICK p \in Rows, q \in Rows : p = Without(e.alerts, C) /\ q = Without(f, C)
    BY <1>2, <1>3
  <2>2. /\ Upsert(p, q) \in Rows /\ DOMAIN Upsert(p, q) = DOMAIN p \cup DOMAIN q
        /\ \A a \in DOMAIN p \cup DOMAIN q : Upsert(p, q)[a] = IF a \in DOMAIN q THEN q[a] ELSE p[a]
    BY UpsertType, Zenon
  <2>3. x = Upsert(p, q)
    BY <2>1, Zenon
  <2>. QED
    BY <1>2, <1>3, <2>1, <2>2, <2>3
<1>7. /\ h \in Rows /\ DOMAIN h = (DOMAIN e.history \ DOMAIN f) \cup C
      /\ \A a \in DOMAIN h : h[a] = IF a \in DOMAIN f THEN f[a] ELSE e.history[a]
  <2>1. PICK p \in Rows, q \in Rows : p = Without(e.history, DOMAIN f) /\ q = Restrict(f, C)
    BY <1>4, <1>5
  <2>2. /\ Upsert(p, q) \in Rows /\ DOMAIN Upsert(p, q) = DOMAIN p \cup DOMAIN q
        /\ \A a \in DOMAIN p \cup DOMAIN q : Upsert(p, q)[a] = IF a \in DOMAIN q THEN q[a] ELSE p[a]
    BY UpsertType, Zenon
  <2>3. h = Upsert(p, q)
    BY <2>1, Zenon
  <2>. QED
    BY <1>1, <1>4, <1>5, <2>1, <2>2, <2>3
<1>8. w = [e EXCEPT !.alerts = x, !.history = h]
  BY DEF WriteAlerts, C
<1>. HIDE DEF x, h, w
<1>9. w \in Store /\ w.alerts = x /\ w.history = h /\ w.next = e.next /\ w.win = e.win
  BY <1>1, <1>6, <1>7, <1>8, Zenon DEF Store
<1>10. \A a \in DOMAIN f : f[a].status \in Ongoing \cup {"closed"} /\ (a \in C <=> f[a].status = "closed")
  BY RowsElim DEF Row, C, ClosedOf
<1>11. Good(w)
  <2>1. DOMAIN x \cap DOMAIN h = {}
    BY <1>6, <1>7 DEF Good
  <2>2. \A a \in DOMAIN x : x[a].status \in Ongoing
    BY <1>6, <1>10 DEF Good
  <2>3. \A a \in DOMAIN h : h[a].status = "closed"
    BY <1>1, <1>7, <1>10 DEF Good
  <2>. QED
    BY <1>9, <2>1, <2>2, <2>3 DEF Good
<1>12. Known(w) = Known(e) \cup DOMAIN f
  BY <1>1, <1>6, <1>7, <1>9 DEF Known
<1>13. ASSUME NEW a \in Known(e) \cup DOMAIN f
       PROVE  GetAlert(w, a) = IF a \in DOMAIN f THEN f[a] ELSE GetAlert(e, a)
  <2>1. CASE a \in DOMAIN f
    BY <1>6, <1>7, <1>9, <2>1 DEF GetAlert
  <2>2. CASE a \notin DOMAIN f
    BY <1>1, <1>6, <1>7, <1>9, <1>13, <2>2 DEF GetAlert, Known
  <2>. QED
    BY <2>1, <2>2
<1>. QED
  BY <1>9, <1>11, <1>12, <1>13 DEF w

(* The same tables with another cache or other windows.                      *)
LEMMA SameTables ==
    ASSUME NEW e, Good(e), NEW f \in Store, f.alerts = e.alerts, f.history = e.history
    PROVE  /\ Good(f) /\ Kept(e, f) /\ Known(f) = Known(e) /\ QueryActive(f) = QueryActive(e)
           /\ \A a \in Known(e) : GetAlert(f, a) = GetAlert(e, a)
BY DEF Good, Kept, Known, GetAlert, QueryActive

(* query_active() returns the hot table: all its rows are ongoing.           *)
LEMMA QueryType ==
    ASSUME NEW e, Good(e)
    PROVE  QueryActive(e) = e.alerts /\ QueryActive(e) \in Rows
<1>1. e.alerts \in Rows
  BY StoreFields DEF Good
<1>2. {a \in DOMAIN e.alerts : e.alerts[a].status \in Ongoing} = DOMAIN e.alerts
  BY DEF Good
<1>3. e.alerts = [a \in DOMAIN e.alerts |-> e.alerts[a]]
  BY <1>1, RowsElim
<1>. QED
  BY <1>1, <1>2, <1>3 DEF QueryActive, Restrict

(* _invalidate_active_cache() changes only the cache.                        *)
LEMMA InvalidateFits ==
    ASSUME NEW e, Good(e)
    PROVE  /\ Tame(e, Invalidate(e)) /\ ~Invalidate(e).cached
           /\ Invalidate(e).alerts = e.alerts /\ Invalidate(e).history = e.history
<1>1. e \in Store
  BY DEF Good
<1>2. /\ Invalidate(e) \in Store /\ Invalidate(e).alerts = e.alerts
      /\ Invalidate(e).history = e.history /\ Invalidate(e).next = e.next
      /\ Invalidate(e).cached = FALSE
  BY <1>1, NoRowsType, Zenon DEF Invalidate, Store
<1>. QED
  BY <1>2, SameTables DEF Tame, Coherent

(* get_active() changes only the cache, which it leaves filled.              *)
LEMMA GetActiveFits ==
    ASSUME NEW e, Good(e)
    PROVE  /\ Tame(e, GetActive(e)) /\ GetActive(e).cached
           /\ GetActive(e).alerts = e.alerts /\ GetActive(e).history = e.history
           /\ Coherent(e) => GetActive(e).rows = e.alerts
<1>1. e \in Store
  BY DEF Good
<1>2. CASE e.cached
  BY <1>1, <1>2, SameTables, QueryType DEF GetActive, Tame, Coherent
<1>3. CASE ~e.cached
  <2>1. GetActive(e) = [e EXCEPT !.cached = TRUE, !.rows = QueryActive(e)]
    BY <1>3 DEF GetActive
  <2>2. /\ GetActive(e) \in Store /\ GetActive(e).alerts = e.alerts
        /\ GetActive(e).history = e.history /\ GetActive(e).next = e.next
        /\ GetActive(e).cached = TRUE /\ GetActive(e).rows = QueryActive(e)
    BY <1>1, <2>1, QueryType, Zenon DEF Store
  <2>. QED
    BY <2>2, SameTables, QueryType DEF Tame, Coherent
<1>. QED
  BY <1>2, <1>3

(* The ignore windows live beside the tables.                                *)
LEMMA WindowFits ==
    ASSUME NEW e, Good(e), NEW w \in [Rule -> 0..MaxTime]
    PROVE  /\ Tame(e, [e EXCEPT !.win = w])
           /\ [e EXCEPT !.win = w].alerts = e.alerts /\ [e EXCEPT !.win = w].history = e.history
           /\ [e EXCEPT !.win = w].cached = e.cached /\ [e EXCEPT !.win = w].rows = e.rows
<1>. DEFINE f == [e EXCEPT !.win = w]
<1>1. e \in Store
  BY DEF Good
<1>2. /\ f \in Store /\ f.alerts = e.alerts /\ f.history = e.history /\ f.next = e.next
      /\ f.cached = e.cached /\ f.rows = e.rows
  BY <1>1 DEF Store
<1>. HIDE DEF f
<1>3. Tame(e, f)
  BY <1>2, SameTables DEF Tame, Coherent
<1>. QED
  BY <1>2, <1>3 DEF f

(* Methods called one after another.                                         *)
LEMMA TameTrans ==
    ASSUME NEW e, NEW f, NEW g, Tame(e, f), Tame(f, g)
    PROVE  Tame(e, g)
BY DEF Tame, Kept

(* A method that does nothing.                                               *)
LEMMA TameSelf ==
    ASSUME NEW e, Good(e)
    PROVE  Tame(e, e)
BY DEF Tame, Kept

(* clear_ignored_until() changes deadlines only.                             *)
LEMMA ClearedType ==
    ASSUME NEW f \in Rows, NEW R
    PROVE  /\ Cleared(f, R) \in Rows /\ DOMAIN Cleared(f, R) = DOMAIN f
           /\ \A a \in DOMAIN f : Cleared(f, R)[a].rule = f[a].rule
                                  /\ Cleared(f, R)[a].status = f[a].status
<1>1. \A a \in DOMAIN f : f[a] \in Row
  BY RowsElim
<1>2. \A row \in Row : /\ [row EXCEPT !.until = 0] \in Row
                       /\ [row EXCEPT !.until = 0].rule = row.rule
                       /\ [row EXCEPT !.until = 0].status = row.status
  BY BoundsAssumption DEF Row
<1>3. \A a \in DOMAIN f : /\ Cleared(f, R)[a] \in Row
                          /\ Cleared(f, R)[a].rule = f[a].rule
                          /\ Cleared(f, R)[a].status = f[a].status
  <2>. SUFFICES ASSUME NEW a \in DOMAIN f
                PROVE  /\ Cleared(f, R)[a] \in Row
                       /\ Cleared(f, R)[a].rule = f[a].rule
                       /\ Cleared(f, R)[a].status = f[a].status
    OBVIOUS
  <2>1. PICK row \in Row : row = f[a]
    BY <1>1
  <2>2. Cleared(f, R)[a] = IF row.rule \in R THEN [row EXCEPT !.until = 0] ELSE row
    BY <2>1 DEF Cleared
  <2>. QED
    BY <1>2, <2>1, <2>2
<1>4. Cleared(f, R) \in [DOMAIN f -> Row] /\ DOMAIN f \in SUBSET Alert
  BY <1>3, RowsElim DEF Cleared
<1>. QED
  BY <1>3, <1>4, RowsIntro, Zenon DEF Cleared

(* clear_rule_ignored() with the cache invalidated before it.                *)
LEMMA ClearFits ==
    ASSUME NEW e, Good(e), ~e.cached, NEW R
    PROVE  /\ Tame(e, ClearRuleIgnored(e, R))
           /\ DOMAIN ClearRuleIgnored(e, R).alerts = DOMAIN e.alerts
<1>. DEFINE w == [r \in Rule |-> IF r \in R THEN 0 ELSE e.win[r]]
            v == [e EXCEPT !.win = w]
            x == Cleared(v.alerts, R)
            h == Cleared(v.history, R)
            c == ClearRuleIgnored(e, R)
<1>0. e \in Store /\ e.alerts \in Rows /\ e.history \in Rows
  BY StoreFields DEF Good
<1>1. w \in [Rule -> 0..MaxTime]
  BY <1>0, StoreFields, BoundsAssumption
<1>2. c = [v EXCEPT !.alerts = x, !.history = h]
  BY DEF ClearRuleIgnored, ClearIgnoredUntil
<1>. HIDE DEF c, w
<1>3. v.alerts = e.alerts /\ v.history = e.history
  BY <1>0 DEF Store
<1>4. /\ x \in Rows /\ DOMAIN x = DOMAIN e.alerts
      /\ \A a \in DOMAIN e.alerts : x[a].rule = e.alerts[a].rule /\ x[a].status = e.alerts[a].status
  BY <1>0, <1>3, ClearedType
<1>5. /\ h \in Rows /\ DOMAIN h = DOMAIN e.history
      /\ \A a \in DOMAIN e.history : h[a].rule = e.history[a].rule /\ h[a].status = e.history[a].status
  BY <1>0, <1>3, ClearedType
<1>. HIDE DEF x, h
<1>6. /\ c \in Store /\ c.alerts = x /\ c.history = h /\ c.cached = e.cached /\ c.next = e.next
  BY <1>0, <1>1, <1>2, <1>4, <1>5, Zenon DEF Store
<1>7. Good(c)
  BY <1>4, <1>5, <1>6 DEF Good
<1>8. Kept(e, c)
  BY <1>4, <1>5, <1>6 DEF Kept, Known, GetAlert
<1>. QED
  BY <1>4, <1>6, <1>7, <1>8 DEF c, Tame, Coherent

(* Rows of known alerts are written again, under the rules they had.         *)
LEMMA RewriteFits ==
    ASSUME NEW e, Good(e), NEW f \in Rows, DOMAIN f \subseteq Known(e),
           \A a \in DOMAIN f : f[a].rule = GetAlert(e, a).rule
    PROVE  /\ Tame(e, Invalidate(WriteAlerts(e, f))) /\ ~Invalidate(WriteAlerts(e, f)).cached
           /\ \A a \in DOMAIN f : a \in DOMAIN Invalidate(WriteAlerts(e, f)).alerts
                                     <=> f[a].status # "closed"
           /\ \A a : a \notin DOMAIN f => (a \in DOMAIN Invalidate(WriteAlerts(e, f)).alerts
                                              <=> a \in DOMAIN e.alerts)
<1>1. PICK w : w = WriteAlerts(e, f)
  OBVIOUS
<1>2. /\ Good(w) /\ Known(w) = Known(e) /\ w.next = e.next
      /\ \A a \in Known(e) : GetAlert(w, a) = IF a \in DOMAIN f THEN f[a] ELSE GetAlert(e, a)
  <2>1. /\ Good(w) /\ Known(w) = Known(e) \cup DOMAIN f /\ w.next = e.next
        /\ \A a \in Known(e) \cup DOMAIN f :
              GetAlert(w, a) = IF a \in DOMAIN f THEN f[a] ELSE GetAlert(e, a)
    BY <1>1, WriteAlertsFits
  <2>2. Known(e) \cup DOMAIN f = Known(e)
    OBVIOUS
  <2>. QED
    BY <2>1, <2>2
<1>3. Kept(e, w)
  BY <1>2 DEF Kept
<1>4. PICK i : i = Invalidate(w)
  OBVIOUS
<1>5. Tame(w, i) /\ ~i.cached /\ i.alerts = w.alerts
  BY <1>2, <1>4, InvalidateFits
<1>6. Tame(e, i)
  BY <1>2, <1>3, <1>5 DEF Tame, Kept, Coherent
<1>7. \A a \in Known(e) : a \in DOMAIN w.alerts <=> GetAlert(w, a).status # "closed"
  BY <1>2, GetAlertType
<1>8. \A a \in Known(e) : a \in DOMAIN e.alerts <=> GetAlert(e, a).status # "closed"
  BY GetAlertType
<1>9. DOMAIN w.alerts \subseteq Known(e) /\ DOMAIN e.alerts \subseteq Known(e)
  BY <1>2 DEF Known
<1>10. \A a \in DOMAIN f : a \in DOMAIN i.alerts <=> f[a].status # "closed"
  BY <1>2, <1>5, <1>7
<1>11. \A a : a \notin DOMAIN f => (a \in DOMAIN i.alerts <=> a \in DOMAIN e.alerts)
  BY <1>2, <1>5, <1>7, <1>8, <1>9
<1>. QED
  BY <1>1, <1>4, <1>5, <1>6, <1>10, <1>11

(* update() gives each known alert of A the status s and touches no other;   *)
(* the rows move with the status.                                            *)
LEMMA UpdateFits ==
    ASSUME NEW e, Good(e), NEW A, NEW s \in Ongoing \cup {"closed"}, NEW u \in 0..MaxTime
    PROVE  /\ Tame(e, Update(e, A, s, u)) /\ ~Update(e, A, s, u).cached
           /\ \A a \in A \cap Known(e) : a \in DOMAIN Update(e, A, s, u).alerts <=> s # "closed"
           /\ \A a : a \notin A => (a \in DOMAIN Update(e, A, s, u).alerts <=> a \in DOMAIN e.alerts)
<1>1. PICK f : f = Updated(e, A, s, u)
  OBVIOUS
<1>2. \A a \in Known(e) : GetAlert(e, a) \in Row /\ a \in Alert
  BY GetAlertType
<1>3. \A row \in Row :
         LET new == [row EXCEPT !.status = s, !.until = IF u = 0 THEN @ ELSE u]
         IN  new \in Row /\ new.rule = row.rule /\ new.status = s
  BY Zenon DEF Row
<1>4. DOMAIN f = A \cap Known(e)
  BY <1>1, Zenon DEF Updated
<1>5. \A a \in DOMAIN f : f[a] \in Row /\ f[a].rule = GetAlert(e, a).rule /\ f[a].status = s
  <2>. SUFFICES ASSUME NEW a \in DOMAIN f
                PROVE  f[a] \in Row /\ f[a].rule = GetAlert(e, a).rule /\ f[a].status = s
    OBVIOUS
  <2>1. PICK row \in Row : row = GetAlert(e, a)
    BY <1>2, <1>4
  <2>2. f[a] = [row EXCEPT !.status = s, !.until = IF u = 0 THEN @ ELSE u]
    BY <1>1, <1>4, <2>1, Zenon DEF Updated
  <2>. QED
    BY <1>3, <2>1, <2>2, Zenon
<1>6. f \in [DOMAIN f -> Row] /\ DOMAIN f \in SUBSET Alert
  BY <1>1, <1>2, <1>4, <1>5, Zenon DEF Updated
<1>7. f \in Rows
  BY <1>6, RowsIntro
<1>8. Update(e, A, s, u) = Invalidate(WriteAlerts(e, f))
  BY <1>1 DEF Update
<1>9. DOMAIN f \subseteq Known(e) /\ \A a \in DOMAIN f : f[a].rule = GetAlert(e, a).rule
  BY <1>4, <1>5
<1>10. PICK w : w = Invalidate(WriteAlerts(e, f))
  OBVIOUS
<1>11. /\ Tame(e, w) /\ ~w.cached
       /\ \A a \in DOMAIN f : a \in DOMAIN w.alerts <=> f[a].status # "closed"
       /\ \A a : a \notin DOMAIN f => (a \in DOMAIN w.alerts <=> a \in DOMAIN e.alerts)
  BY <1>7, <1>9, <1>10, RewriteFits
<1>12. DOMAIN w.alerts \subseteq Known(e)
  BY <1>11 DEF Tame, Kept, Known
<1>13. \A a \in A \cap Known(e) : a \in DOMAIN w.alerts <=> s # "closed"
  BY <1>4, <1>5, <1>11
<1>14. \A a : a \notin A => (a \in DOMAIN w.alerts <=> a \in DOMAIN e.alerts)
  BY <1>4, <1>11
<1>. QED
  BY <1>8, <1>10, <1>11, <1>13, <1>14

(* close_alert(): what is closed is no row of the hot table.                 *)
LEMMA CloseFits ==
    ASSUME NEW e, Good(e), NEW A, NEW r, NEW reason
    PROVE  /\ Tame(e, CloseAlerts(e, A, r, reason))
           /\ A \cap DOMAIN CloseAlerts(e, A, r, reason).alerts = {}
           /\ DOMAIN CloseAlerts(e, A, r, reason).alerts \subseteq DOMAIN e.alerts
<1>1. CASE A \cap Known(e) = {}
  <2>1. CloseAlerts(e, A, r, reason) = e
    BY <1>1 DEF CloseAlerts
  <2>. QED
    BY <1>1, <2>1, TameSelf DEF Known
<1>2. CASE A \cap Known(e) # {}
  <2>1. PICK u : u = Update(e, A, "closed", 0)
    OBVIOUS
  <2>2. /\ Tame(e, u) /\ ~u.cached
        /\ \A a \in A \cap Known(e) : a \notin DOMAIN u.alerts
        /\ \A a : a \notin A => (a \in DOMAIN u.alerts <=> a \in DOMAIN e.alerts)
    <3>1. "closed" \in Ongoing \cup {"closed"} /\ 0 \in 0..MaxTime
      BY BoundsAssumption
    <3>. QED
      BY <2>1, <3>1, UpdateFits, Zenon
  <2>3. PICK v : v = IF reason = "auto" THEN u ELSE ClearRuleIgnored(u, {r})
    OBVIOUS
  <2>4. Good(u)
    BY <2>2 DEF Tame
  <2>5. Tame(u, v) /\ DOMAIN v.alerts = DOMAIN u.alerts
    BY <2>2, <2>3, <2>4, ClearFits, TameSelf
  <2>6. Good(v) /\ Tame(e, v)
    BY <2>2, <2>5, TameTrans DEF Tame
  <2>7. PICK g : g = GetActive(v)
    OBVIOUS
  <2>8. Tame(v, g) /\ g.alerts = v.alerts
    BY <2>6, <2>7, GetActiveFits
  <2>9. CloseAlerts(e, A, r, reason) = g
    BY <1>2, <2>1, <2>3, <2>7 DEF CloseAlerts
  <2>10. Tame(e, g)
    BY <2>6, <2>8, TameTrans
  <2>11. DOMAIN g.alerts \subseteq Known(e)
    BY <2>10 DEF Tame, Kept, Known
  <2>12. DOMAIN g.alerts = DOMAIN u.alerts
    BY <2>5, <2>8, Zenon
  <2>13. DOMAIN g.alerts \subseteq DOMAIN e.alerts /\ A \cap DOMAIN g.alerts = {}
    <3>1. ASSUME NEW a \in DOMAIN g.alerts PROVE a \notin A /\ a \in DOMAIN e.alerts
      BY <2>2, <2>11, <2>12, <3>1
    <3>. QED
      BY <3>1, Zenon
  <2>. QED
    BY <2>9, <2>10, <2>13, Zenon
<1>. QED
  BY <1>1, <1>2

(* close_rule_alerts() with a current list leaves the rule without an        *)
(* ongoing alert.                                                            *)
LEMMA CloseRuleFits ==
    ASSUME NEW e, Good(e), NEW r, NEW reason
    PROVE  /\ Tame(e, CloseRuleAlerts(e, r, reason))
           /\ Coherent(e) => Of(CloseRuleAlerts(e, r, reason).alerts, r) = {}
<1>1. PICK g : g = GetActive(e)
  OBVIOUS
<1>2. Tame(e, g) /\ g.alerts = e.alerts /\ (Coherent(e) => g.rows = e.alerts) /\ Good(g)
  BY <1>1, GetActiveFits DEF Tame
<1>3. PICK c : c = CloseAlerts(g, Of(g.rows, r), r, reason)
  OBVIOUS
<1>4. c = CloseRuleAlerts(e, r, reason)
  BY <1>1, <1>3 DEF CloseRuleAlerts
<1>5. Tame(g, c) /\ Of(g.rows, r) \cap DOMAIN c.alerts = {}
      /\ DOMAIN c.alerts \subseteq DOMAIN g.alerts
  BY <1>2, <1>3, CloseFits
<1>6. ASSUME Coherent(e), NEW a \in Of(c.alerts, r) PROVE FALSE
  <2>1. a \in DOMAIN c.alerts /\ c.alerts[a].rule = r /\ a \in Known(c)
    BY <1>6 DEF Of, Known
  <2>2. a \in Known(g) /\ GetAlert(g, a).rule = r
    BY <1>5, <2>1 DEF Tame, Kept, GetAlert
  <2>3. CASE a \in DOMAIN g.alerts
    <3>1. a \in Of(g.alerts, r)
      BY <1>2, <2>2, <2>3 DEF Of, GetAlert, Good
    <3>. QED
      BY <1>2, <1>5, <1>6, <2>1, <3>1
  <2>4. CASE a \notin DOMAIN g.alerts
    BY <1>5, <2>1, <2>4
  <2>. QED
    BY <2>3, <2>4
<1>. QED
  BY <1>2, <1>4, <1>5, <1>6, TameTrans

(* resume() of known alerts.                                                 *)
LEMMA ResumeRowsFits ==
    ASSUME NEW e, Good(e), NEW A \in SUBSET Known(e)
    PROVE  Tame(e, ResumeRows(e, A)) /\ ~ResumeRows(e, A).cached
<1>1. PICK f : f = [a \in A |-> [GetAlert(e, a) EXCEPT !.status = "active", !.until = 0]]
  BY Zenon
<1>2. \A a \in A : GetAlert(e, a) \in Row /\ a \in Alert
  BY GetAlertType
<1>3. \A row \in Row :
         LET new == [row EXCEPT !.status = "active", !.until = 0]
         IN  new \in Row /\ new.rule = row.rule
  <2>1. 0 \in 0..MaxTime /\ "active" \in Ongoing \cup {"closed"}
    BY BoundsAssumption DEF Ongoing
  <2>. QED
    BY <2>1, Zenon DEF Row
<1>4. DOMAIN f = A
  BY <1>1, Zenon
<1>5. \A a \in A : f[a] \in Row /\ f[a].rule = GetAlert(e, a).rule
  <2>. SUFFICES ASSUME NEW a \in A
                PROVE  f[a] \in Row /\ f[a].rule = GetAlert(e, a).rule
    OBVIOUS
  <2>1. PICK row \in Row : row = GetAlert(e, a)
    BY <1>2
  <2>2. f[a] = [row EXCEPT !.status = "active", !.until = 0]
    BY <1>1, <2>1, Zenon
  <2>. QED
    BY <1>3, <2>1, <2>2, Zenon
<1>6. f \in [A -> Row] /\ A \in SUBSET Alert
  BY <1>1, <1>2, <1>5, Zenon
<1>7. f \in Rows
  BY <1>6, RowsIntro
<1>8. ResumeRows(e, A) = Invalidate(WriteAlerts(e, f))
  BY <1>1, Zenon DEF ResumeRows
<1>. QED
  BY <1>4, <1>5, <1>7, <1>8, RewriteFits

(* What the manager's other methods do to an alert keeps the tables tame.    *)
LEMMA AcknowledgeFits ==
    ASSUME NEW e, Good(e), NEW a
    PROVE  Tame(e, AcknowledgeAlert(e, a))
<1>1. PICK u : u = Update(e, {a}, "acknowledged", 0)
  OBVIOUS
<1>2. "acknowledged" \in Ongoing \cup {"closed"} /\ 0 \in 0..MaxTime
  BY BoundsAssumption DEF Ongoing
<1>3. Tame(e, u) /\ ~u.cached
  BY <1>1, <1>2, UpdateFits, Zenon
<1>4. Good(u)
  BY <1>3 DEF Tame
<1>5. PICK c : c = ClearRuleIgnored(u, {GetAlert(e, a).rule})
  OBVIOUS
<1>6. Tame(u, c)
  BY <1>3, <1>4, <1>5, ClearFits
<1>7. Good(c)
  BY <1>6 DEF Tame
<1>8. Tame(c, GetActive(c))
  BY <1>7, GetActiveFits
<1>9. AcknowledgeAlert(e, a) = GetActive(c)
  BY <1>1, <1>5 DEF AcknowledgeAlert
<1>. QED
  BY <1>3, <1>6, <1>8, <1>9, TameTrans

(* ignore_alert() and the window of the rule.                                *)
LEMMA IgnoreFits ==
    ASSUME NEW e, Good(e), NEW a, NEW until \in 0..MaxTime
    PROVE  Tame(e, IgnoreAlert(e, a, until))
<1>1. PICK u : u = Update(e, {a}, "ignored", until)
  OBVIOUS
<1>2. "ignored" \in Ongoing \cup {"closed"}
  BY DEF Ongoing
<1>3. Tame(e, u)
  BY <1>1, <1>2, UpdateFits, Zenon
<1>4. Good(u)
  BY <1>3 DEF Tame
<1>5. PICK w : w = [u.win EXCEPT ![GetAlert(e, a).rule] = until]
  BY Zenon
<1>6. w \in [Rule -> 0..MaxTime]
  BY <1>4, <1>5, StoreFields, Zenon DEF Good
<1>7. PICK v : v = [u EXCEPT !.win = w]
  BY Zenon
<1>8. Tame(u, v)
  BY <1>4, <1>6, <1>7, WindowFits
<1>9. Good(v)
  BY <1>8 DEF Tame
<1>10. Tame(v, GetActive(v))
  BY <1>9, GetActiveFits
<1>11. IgnoreAlert(e, a, until) = GetActive(v)
  BY <1>1, <1>5, <1>7 DEF IgnoreAlert, SetRuleIgnored
<1>. QED
  BY <1>3, <1>8, <1>10, <1>11, TameTrans

(* resume_alert() of any alerts: the unknown are left out.                   *)
LEMMA ResumeFits ==
    ASSUME NEW e, Good(e), NEW A
    PROVE  Tame(e, ResumeAlerts(e, A))
<1>1. CASE A \cap Known(e) = {}
  BY <1>1, TameSelf DEF ResumeAlerts
<1>2. CASE A \cap Known(e) # {}
  <2>1. PICK u : u = ResumeRows(e, A \cap Known(e))
    OBVIOUS
  <2>2. A \cap Known(e) \in SUBSET Known(e)
    OBVIOUS
  <2>3. Tame(e, u) /\ ~u.cached
    BY <2>1, <2>2, ResumeRowsFits
  <2>4. Good(u)
    BY <2>3 DEF Tame
  <2>5. PICK c : c = ClearRuleIgnored(u, {GetAlert(e, a).rule : a \in A \cap Known(e)})
    BY Zenon
  <2>6. Tame(u, c)
    BY <2>3, <2>4, <2>5, ClearFits
  <2>7. Good(c)
    BY <2>6 DEF Tame
  <2>8. Tame(c, GetActive(c))
    BY <2>7, GetActiveFits
  <2>9. ResumeAlerts(e, A) = GetActive(c)
    BY <1>2, <2>1, <2>5 DEF ResumeAlerts
  <2>. QED
    BY <2>3, <2>6, <2>8, <2>9, TameTrans
<1>. QED
  BY <1>1, <1>2

(* delete() and the purge take rows away.                                    *)
LEMMA RemoveFits ==
    ASSUME NEW e, Good(e), NEW f \in Store, NEW A, NEW H,
           f.alerts = Without(e.alerts, A), f.history = Without(e.history, H), f.next = e.next
    PROVE  /\ Good(f) /\ Kept(e, f)
<1>1. e.alerts \in Rows /\ e.history \in Rows
  BY StoreFields DEF Good
<1>2. DOMAIN e.alerts \ A \in SUBSET DOMAIN e.alerts /\ DOMAIN e.history \ H \in SUBSET DOMAIN e.history
  OBVIOUS
<1>3. /\ DOMAIN f.alerts = DOMAIN e.alerts \ A
      /\ \A a \in DOMAIN e.alerts \ A : f.alerts[a] = e.alerts[a]
  BY <1>1, <1>2, RestrictType DEF Without
<1>4. /\ DOMAIN f.history = DOMAIN e.history \ H
      /\ \A a \in DOMAIN e.history \ H : f.history[a] = e.history[a]
  BY <1>1, <1>2, RestrictType DEF Without
<1>5. Good(f)
  BY <1>3, <1>4 DEF Good
<1>6. Kept(e, f)
  BY <1>3, <1>4 DEF Good, Kept, Known, GetAlert
<1>. QED
  BY <1>5, <1>6

-----------------------------------------------------------------------------
(* process_alert() *)

(* The ongoing alerts of f are those of e and perhaps n, of rule r.          *)
Grown(e, f, r, n) ==
    /\ Good(f) /\ (Coherent(e) => Coherent(f))
    /\ \A a \in DOMAIN f.alerts :
         \/ a = n /\ f.alerts[a].rule = r
         \/ a \in DOMAIN e.alerts /\ f.alerts[a].rule = e.alerts[a].rule

(* The rule's window, cleared when it is over, and the list that follows.    *)
Opened(e, r, until) == GetActive([e EXCEPT !.win[r] = until])

(* It changes no table.                                                      *)
LEMMA OpenedFits ==
    ASSUME NEW e, Good(e), NEW r, NEW until \in 0..MaxTime
    PROVE  Tame(e, Opened(e, r, until)) /\ Opened(e, r, until).alerts = e.alerts
<1>1. PICK w : w = [e.win EXCEPT ![r] = until]
  BY Zenon
<1>2. w \in [Rule -> 0..MaxTime]
  BY <1>1, StoreFields, Zenon DEF Good
<1>3. PICK v : v = [e EXCEPT !.win = w]
  BY Zenon
<1>4. Tame(e, v) /\ v.alerts = e.alerts
  BY <1>2, <1>3, WindowFits
<1>5. Good(v)
  BY <1>4 DEF Tame
<1>6. Tame(v, GetActive(v)) /\ GetActive(v).alerts = v.alerts
  BY <1>5, GetActiveFits
<1>7. Opened(e, r, until) = GetActive(v)
  BY <1>1, <1>3 DEF Opened
<1>. QED
  BY <1>4, <1>6, <1>7, TameTrans

(* An empty answer of a current list is an empty set of ongoing alerts.      *)
LEMMA CreatesFits ==
    ASSUME NEW e, Good(e), Coherent(e), NEW r, ProcessCreates(e, r)
    PROVE  Of(e.alerts, r) = {}
BY GetActiveFits DEF ProcessCreates

(* The insert of a new alert.                                                *)
Inserted(e, r) ==
    Invalidate(WriteAlerts([e EXCEPT !.next = @ + 1],
                   [a \in {e.next} |-> [rule |-> r, status |-> "active", until |-> 0]]))

Planted(e, w, r) ==
    /\ Good(w) /\ ~w.cached /\ e.next \in DOMAIN w.alerts
    /\ \A a \in DOMAIN w.alerts :
         \/ a = e.next /\ w.alerts[a].rule = r
         \/ a # e.next /\ a \in DOMAIN e.alerts /\ w.alerts[a].rule = e.alerts[a].rule

(* The new row is in the hot table, and the others are where they were.      *)
LEMMA NewRowFits ==
    ASSUME NEW e, Good(e), NEW r \in Rule, e.next <= MaxAlerts
    PROVE  Planted(e, Inserted(e, r), r)
<1>0. PICK w : w = Inserted(e, r)
  OBVIOUS
<1>1. PICK n, row : n = e.next /\ row = [rule |-> r, status |-> "active", until |-> 0]
  BY Zenon
<1>2. n \in Alert /\ n + 1 \in 1..MaxAlerts + 1
  BY <1>1, StoreFields, BoundsAssumption DEF Good, Alert
<1>3. row \in Row /\ row.rule = r
  <2>1. 0 \in 0..MaxTime /\ "active" \in Ongoing \cup {"closed"}
    BY BoundsAssumption DEF Ongoing
  <2>. QED
    BY <1>1, <2>1 DEF Row
<1>4. PICK f : f = [a \in {n} |-> row]
  BY Zenon
<1>5. f \in [{n} -> Row] /\ {n} \in SUBSET Alert /\ DOMAIN f = {n} /\ f[n] = row
  BY <1>2, <1>3, <1>4
<1>6. f \in Rows
  BY <1>5, RowsIntro
<1>7. PICK b : b = [e EXCEPT !.next = @ + 1]
  BY Zenon
<1>8. b \in Store /\ b.alerts = e.alerts /\ b.history = e.history
  <2>1. e \in Store
    BY DEF Good
  <2>. QED
    BY <1>1, <1>2, <1>7, <2>1 DEF Store
<1>9. Good(b) /\ Known(b) = Known(e)
  BY <1>8, SameTables
<1>10. PICK v : v = WriteAlerts(b, f)
  OBVIOUS
<1>11. /\ Good(v) /\ Known(v) = Known(b) \cup {n}
       /\ \A a \in Known(b) \cup {n} : GetAlert(v, a) = IF a \in {n} THEN f[a] ELSE GetAlert(b, a)
  BY <1>5, <1>6, <1>9, <1>10, WriteAlertsFits
<1>12. w = Invalidate(v)
  BY <1>0, <1>1, <1>4, <1>7, <1>10 DEF Inserted
<1>13. Good(w) /\ ~w.cached /\ w.alerts = v.alerts
  BY <1>11, <1>12, InvalidateFits DEF Tame
<1>14. ASSUME NEW a \in DOMAIN v.alerts
       PROVE  \/ a = n /\ v.alerts[a].rule = r
              \/ a # n /\ a \in DOMAIN e.alerts /\ v.alerts[a].rule = e.alerts[a].rule
  <2>1. a \in Known(v) /\ GetAlert(v, a) = v.alerts[a]
    BY <1>14 DEF Known, GetAlert
  <2>2. CASE a = n
    BY <1>3, <1>5, <1>11, <2>1, <2>2
  <2>3. CASE a # n
    <3>1. a \in Known(b) /\ GetAlert(v, a) = GetAlert(b, a)
      BY <1>11, <2>1, <2>3
    <3>2. GetAlert(v, a).status # "closed"
      BY <1>11, <1>14, <2>1, GetAlertType
    <3>3. a \in DOMAIN b.alerts
      BY <1>9, <3>1, <3>2, GetAlertType
    <3>. QED
      BY <1>8, <2>1, <2>3, <3>1, <3>3 DEF GetAlert
  <2>. QED
    BY <2>2, <2>3
<1>15. n \in DOMAIN v.alerts
  <2>1. n \in Known(v) /\ GetAlert(v, n) = row
    BY <1>5, <1>11
  <2>2. row.status # "closed"
    BY <1>1
  <2>. QED
    BY <1>11, <2>1, <2>2, GetAlertType
<1>. QED
  BY <1>0, <1>1, <1>13, <1>14, <1>15 DEF Planted

(* process_alert() of a rule that has an ongoing alert.                      *)
LEMMA ProcessRefreshes ==
    ASSUME NEW e, Good(e), NEW r \in Rule, now \in 0..MaxTime, ~ProcessCreates(e, r)
    PROVE  Tame(e, ProcessAlert(e, r))
<1>1. PICK until : until = IF e.win[r] > now THEN e.win[r] ELSE 0
  OBVIOUS
<1>2. until \in 0..MaxTime
  BY <1>1, StoreFields, BoundsAssumption DEF Good
<1>3. ProcessAlert(e, r) = Opened(e, r, until)
  BY <1>1 DEF ProcessAlert, Opened
<1>. QED
  BY <1>2, <1>3, OpenedFits

(* process_alert() of a rule that has none, born ignored or not.             *)
LEMMA ProcessCreatesOne ==
    ASSUME NEW e, Good(e), NEW r \in Rule, now \in 0..MaxTime, e.next <= MaxAlerts,
           ProcessCreates(e, r)
    PROVE  Grown(e, ProcessAlert(e, r), r, e.next)
<1>1. PICK until : until = IF e.win[r] > now THEN e.win[r] ELSE 0
  OBVIOUS
<1>2. until \in 0..MaxTime
  BY <1>1, StoreFields, BoundsAssumption DEF Good
<1>3. PICK o : o = Opened(e, r, until)
  OBVIOUS
<1>4. Good(o) /\ o.next = e.next /\ o.alerts = e.alerts
  BY <1>2, <1>3, OpenedFits DEF Tame
<1>5. PICK c : c = Inserted(o, r)
  OBVIOUS
<1>6. /\ Good(c) /\ ~c.cached /\ e.next \in DOMAIN c.alerts
      /\ \A a \in DOMAIN c.alerts :
           \/ a = e.next /\ c.alerts[a].rule = r
           \/ a # e.next /\ a \in DOMAIN e.alerts /\ c.alerts[a].rule = e.alerts[a].rule
  <2>1. o.next <= MaxAlerts
    BY <1>4
  <2>2. Planted(o, c, r)
    BY <1>4, <1>5, <2>1, NewRowFits
  <2>. QED
    BY <1>4, <2>2 DEF Planted
<1>7. PICK x : x = IF until = 0 THEN c ELSE Update(c, {o.next}, "ignored", until)
  OBVIOUS
<1>8. /\ Tame(c, x)
      /\ \A a : a # e.next => (a \in DOMAIN x.alerts <=> a \in DOMAIN c.alerts)
  <2>1. "ignored" \in Ongoing \cup {"closed"}
    BY DEF Ongoing
  <2>2. PICK y : y = Update(c, {o.next}, "ignored", until)
    OBVIOUS
  <2>3. /\ Tame(c, y)
        /\ \A a : a \notin {o.next} => (a \in DOMAIN y.alerts <=> a \in DOMAIN c.alerts)
    BY <1>2, <1>6, <2>1, <2>2, UpdateFits, Zenon
  <2>4. CASE until = 0
    BY <1>6, <1>7, <2>4, TameSelf
  <2>5. CASE until # 0
    BY <1>4, <1>7, <2>2, <2>3, <2>5
  <2>. QED
    BY <2>4, <2>5
<1>9. PICK g : g = GetActive(x)
  OBVIOUS
<1>10. Tame(x, g) /\ g.alerts = x.alerts
  BY <1>8, <1>9, GetActiveFits DEF Tame
<1>11. Tame(c, g)
  BY <1>8, <1>10, TameTrans
<1>12. Good(g) /\ Coherent(g)
  BY <1>6, <1>11 DEF Tame, Coherent
<1>13. ASSUME NEW a \in DOMAIN g.alerts
       PROVE  \/ a = e.next /\ g.alerts[a].rule = r
              \/ a \in DOMAIN e.alerts /\ g.alerts[a].rule = e.alerts[a].rule
  <2>1. a \in Known(c) /\ GetAlert(c, a).rule = g.alerts[a].rule
    BY <1>11, <1>13 DEF Tame, Kept, Known, GetAlert
  <2>2. CASE a \in DOMAIN c.alerts
    BY <1>6, <2>1, <2>2 DEF GetAlert
  <2>3. CASE a \notin DOMAIN c.alerts
    BY <1>6, <1>8, <1>10, <1>13, <2>3
  <2>. QED
    BY <2>2, <2>3
<1>14. ProcessAlert(e, r) = g
  BY <1>1, <1>3, <1>5, <1>7, <1>9 DEF ProcessAlert, Opened, Inserted
<1>. QED
  BY <1>12, <1>13, <1>14 DEF Grown

-----------------------------------------------------------------------------
(* What a step may do to the ongoing alerts of a rule.                       *)

(* A tame step leaves a rule no ongoing alert it did not have, unless one    *)
(* was revived.                                                              *)
LEMMA TameShrinks ==
    ASSUME NEW e, Good(e), NEW f, Kept(e, f), NEW r, r \notin Revivals(e, f)
    PROVE  Of(f.alerts, r) \subseteq Of(e.alerts, r)
<1>. SUFFICES ASSUME NEW a \in Of(f.alerts, r) PROVE a \in Of(e.alerts, r)
  OBVIOUS
<1>1. a \in DOMAIN f.alerts /\ f.alerts[a].rule = r
  BY DEF Of
<1>2. a \in Known(e) /\ GetAlert(e, a).rule = r
  BY <1>1 DEF Kept, Known, GetAlert
<1>3. a \notin DOMAIN e.history
  BY <1>1 DEF Revivals
<1>. QED
  BY <1>2, <1>3 DEF Known, GetAlert, Of, Good

(* The same for a step that creates an alert n after the tame part that led  *)
(* to l.                                                                     *)
LEMMA GrownShrinks ==
    ASSUME NEW e, Good(e), NEW l, Tame(e, l), NEW f, NEW q, NEW n, Grown(l, f, q, n),
           NEW r, r \notin Revivals(e, f), NEW a \in Of(f.alerts, r)
    PROVE  (a = n /\ r = q) \/ (a \in Of(e.alerts, r) /\ a \in Of(l.alerts, r))
<1>1. a \in DOMAIN f.alerts /\ f.alerts[a].rule = r
  BY DEF Of
<1>2. CASE a = n /\ r = q
  BY <1>2
<1>3. CASE ~(a = n /\ r = q)
  <2>1. a \in DOMAIN l.alerts /\ l.alerts[a].rule = r
    BY <1>1, <1>3 DEF Grown
  <2>2. a \in Of(l.alerts, r)
    BY <2>1 DEF Of, Tame, Good
  <2>3. a \in Known(e) /\ GetAlert(e, a).rule = r
    BY <2>1 DEF Tame, Kept, Known, GetAlert
  <2>4. a \notin DOMAIN e.history
    BY <1>1 DEF Revivals
  <2>5. a \in Of(e.alerts, r)
    BY <2>3, <2>4 DEF Known, GetAlert, Of, Good
  <2>. QED
    BY <2>2, <2>5
<1>. QED
  BY <1>2, <1>3

(* What was revived are alerts of rules.                                     *)
LEMMA RevivalsType ==
    ASSUME NEW e, NEW f, Good(f)
    PROVE  Revivals(e, f) \subseteq Rule
<1>1. \A a \in DOMAIN f.alerts : f.alerts[a] \in Row
  BY StoreFields, RowsElim DEF Good
<1>. QED
  BY <1>1 DEF Revivals, Row

(* Where the hot table stays as it is, nothing was revived.                  *)
LEMMA NoRevivals ==
    ASSUME NEW e, Good(e), NEW f, f.alerts = e.alerts
    PROVE  Revivals(e, f) = {}
BY DEF Revivals, Good

-----------------------------------------------------------------------------
(* The inductive invariant.                                                  *)

Settings == [Rule \ External -> {"on", "off", "gone"}]

Typed ==
    /\ now \in 0..MaxTime
    /\ saved \in Settings /\ shown \in Settings
    /\ okays \in [Rule -> 0..Cycles]
    /\ breaches \in [Rule -> 0..Need - 1]
    /\ pc \in {"idle", "check", "hit", "store", "listed", "rules"}
    /\ rules \subseteq Rule
    /\ snap \in [some : BOOLEAN, rows : Rows]
    /\ raced \in BOOLEAN /\ undone \subseteq Rule
    /\ mishaps \in 0..MaxMishaps

CacheInv == ~raced => Coherent(ae)

(* OneOngoing without the cardinality.                                       *)
OneInv == \A r \in Rule \ revived : ~raced => \A a, b \in Of(ae.alerts, r) : a = b

(* Only the evaluation, writing back what it read, makes a rule's row differ *)
(* from the cache entry that the routes decide by.                           *)
EntryInv == \A r \in Rule \ External : shown[r] # saved[r] => r \in undone

AlertInv == Good(ae) /\ revived \subseteq Rule /\ CacheInv /\ OneInv

IndInv == Typed /\ AlertInv /\ DisabledIsQuiet /\ EntryInv

(* A tame step keeps the alerts' part of the invariant and gives no rule an  *)
(* ongoing alert it did not have.                                            *)
LEMMA TameStep ==
    ASSUME IndInv, Tame(ae, ae'), revived' = revived \cup Revivals(ae, ae'), raced' = raced
    PROVE  AlertInv' /\ \A r \in Rule \ revived' : Of(ae'.alerts, r) \subseteq Of(ae.alerts, r)
<1>1. PICK e, f : e = ae /\ f = ae'
  OBVIOUS
<1>2. Good(e) /\ Tame(e, f) /\ Good(f) /\ Kept(e, f)
  BY <1>1 DEF IndInv, AlertInv, Tame
<1>3. \A r : r \notin Revivals(e, f) => Of(f.alerts, r) \subseteq Of(e.alerts, r)
  BY <1>2, TameShrinks
<1>4. \A r \in Rule \ revived' : r \notin Revivals(e, f) /\ r \in Rule \ revived
  BY <1>1
<1>5. \A r \in Rule \ revived' : Of(f.alerts, r) \subseteq Of(e.alerts, r)
  BY <1>3, <1>4
<1>6. Good(ae')
  BY <1>1, <1>2
<1>7. revived' \subseteq Rule
  BY <1>1, <1>2, RevivalsType DEF IndInv, AlertInv
<1>8. CacheInv'
  BY <1>1, <1>2 DEF IndInv, AlertInv, CacheInv, Tame
<1>9. OneInv'
  BY <1>1, <1>4, <1>5 DEF IndInv, AlertInv, OneInv
<1>. QED
  BY <1>1, <1>5, <1>6, <1>7, <1>8, <1>9 DEF AlertInv

(* The same where the hot table stays as it is and nothing is revived; the   *)
(* worker thread may have stored an old list.                                *)
LEMMA StillStep ==
    ASSUME IndInv, Good(ae'), ae'.alerts = ae.alerts, revived' = revived, raced => raced',
           ~raced' => Coherent(ae')
    PROVE  AlertInv' /\ \A r \in Rule \ revived' : Of(ae'.alerts, r) \subseteq Of(ae.alerts, r)
<1>1. OneInv'
  BY DEF IndInv, AlertInv, OneInv
<1>2. CacheInv'
  BY DEF CacheInv
<1>. QED
  BY <1>1, <1>2 DEF IndInv, AlertInv

(* Where no rule gains an ongoing alert, the disabled ones stay quiet.       *)
LEMMA QuietStep ==
    ASSUME IndInv, saved' = saved, undone' = undone, revived \subseteq revived', raced => raced',
           \A r \in Rule \ revived' : Of(ae'.alerts, r) \subseteq Of(ae.alerts, r)
    PROVE  DisabledIsQuiet'
<1>1. DOMAIN saved \subseteq Rule
  BY DEF IndInv, Typed, Settings
<1>2. ASSUME NEW r \in DOMAIN saved, saved[r] # "on", ~raced', r \notin revived' \cup undone
      PROVE  Of(ae'.alerts, r) = {}
  <2>1. r \in Rule \ revived' /\ ~raced /\ r \notin revived \cup undone
    BY <1>1, <1>2
  <2>2. Of(ae.alerts, r) = {}
    BY <1>2, <2>1 DEF IndInv, DisabledIsQuiet
  <2>. QED
    BY <2>1, <2>2
<1>. QED
  BY <1>2 DEF DisabledIsQuiet

(* A handler that does not touch the rules.                                  *)
LEMMA HandlerStep ==
    ASSUME IndInv, Tame(ae, ae'), revived' = revived \cup Revivals(ae, ae'),
           UNCHANGED <<now, settings, streaks, cycle, raced, undone, mishaps>>
    PROVE  IndInv'
<1>1. AlertInv' /\ \A r \in Rule \ revived' : Of(ae'.alerts, r) \subseteq Of(ae.alerts, r)
  BY TameStep
<1>2. DisabledIsQuiet'
  BY <1>1, QuietStep DEF settings
<1>3. EntryInv'
  BY DEF IndInv, EntryInv, settings
<1>4. Typed'
  BY DEF IndInv, Typed, settings, streaks, cycle
<1>. QED
  BY <1>1, <1>2, <1>3, <1>4 DEF IndInv

(* A handler that writes a rule: it may leave the rule off when no alert of  *)
(* it is ongoing, or the rule was off before, or the evaluation had put it   *)
(* back on.                                                                  *)
LEMMA SaveStep ==
    ASSUME IndInv, Tame(ae, ae'), revived' = revived \cup Revivals(ae, ae'),
           UNCHANGED <<now, streaks, cycle, raced, undone, mishaps>>,
           NEW r \in Rule \ External, NEW v \in {"on", "off", "gone"}, SaveRule(r, v),
           v = "on" \/ raced \/ Of(ae'.alerts, r) = {} \/ saved[r] # "on" \/ r \in undone
    PROVE  IndInv'
<1>1. AlertInv' /\ \A q \in Rule \ revived' : Of(ae'.alerts, q) \subseteq Of(ae.alerts, q)
  BY TameStep
<1>2. saved \in Settings /\ shown \in Settings
  BY DEF IndInv, Typed
<1>3. /\ saved' \in Settings /\ shown' \in Settings
      /\ \A q \in Rule \ External : saved'[q] = (IF q = r THEN v ELSE saved[q])
                                    /\ shown'[q] = (IF q = r THEN v ELSE shown[q])
  BY <1>2 DEF SaveRule, Settings
<1>4. EntryInv'
  BY <1>3 DEF IndInv, EntryInv
<1>5. Typed'
  BY <1>3 DEF IndInv, Typed, streaks, cycle
<1>6. DOMAIN saved' = Rule \ External /\ DOMAIN saved = Rule \ External
  BY <1>2, <1>3 DEF Settings
<1>7. ASSUME NEW q \in Rule \ External, saved'[q] # "on", ~raced, q \notin revived' \cup undone
      PROVE  Of(ae'.alerts, q) = {}
  <2>1. Of(ae'.alerts, q) \subseteq Of(ae.alerts, q) /\ q \notin revived \cup undone
    BY <1>1, <1>7
  <2>2. CASE saved[q] # "on"
    <3>1. Of(ae.alerts, q) = {}
      BY <1>6, <1>7, <2>1, <2>2 DEF IndInv, DisabledIsQuiet
    <3>. QED
      BY <2>1, <3>1
  <2>3. CASE saved[q] = "on"
    BY <1>3, <1>7, <2>3
  <2>. QED
    BY <2>2, <2>3
<1>8. DisabledIsQuiet'
  BY <1>6, <1>7 DEF DisabledIsQuiet
<1>. QED
  BY <1>1, <1>4, <1>5, <1>8 DEF IndInv

-----------------------------------------------------------------------------
(* The routes.                                                               *)

(* What the operators' lemmas need of the state.                             *)
LEMMA AeGood ==
    ASSUME IndInv
    PROVE  Good(ae) /\ (~raced => Coherent(ae)) /\ now \in 0..MaxTime
BY DEF IndInv, AlertInv, CacheInv, Typed

(* The operator's routes on one alert.                                       *)
LEMMA OperatorKeeps ==
    ASSUME IndInv, NEW a \in Alert, Operator(a)
    PROVE  IndInv'
<1>0. Good(ae) /\ now \in 0..MaxTime
  BY AeGood
<1>1. CASE Acknowledge(a)
  <2>1. Tame(ae, ae')
    BY <1>0, <1>1, AcknowledgeFits DEF Acknowledge, Handle
  <2>. QED
    BY <1>1, <2>1, HandlerStep DEF Acknowledge, Handle
<1>2. CASE Close(a)
  <2>1. Tame(ae, ae')
    BY <1>0, <1>2, CloseFits DEF Close, Handle
  <2>. QED
    BY <1>2, <2>1, HandlerStep DEF Close, Handle
<1>3. CASE Resume(a)
  <2>1. Tame(ae, ae')
    BY <1>0, <1>3, ResumeFits DEF Resume, Handle
  <2>. QED
    BY <1>3, <2>1, HandlerStep DEF Resume, Handle
<1>4. CASE Delete(a)
  <2>1. PICK f : f = [ae EXCEPT !.alerts = Without(@, {a}), !.history = Without(@, {a})]
    OBVIOUS
  <2>2. /\ Without(ae.alerts, {a}) \in Rows /\ Without(ae.history, {a}) \in Rows /\ ae \in Store
    <3>1. ae.alerts \in Rows /\ ae.history \in Rows
      BY <1>0, StoreFields DEF Good
    <3>2. /\ DOMAIN ae.alerts \ {a} \in SUBSET DOMAIN ae.alerts
          /\ DOMAIN ae.history \ {a} \in SUBSET DOMAIN ae.history
      OBVIOUS
    <3>. QED
      BY <1>0, <3>1, <3>2, RestrictType DEF Without, Good
  <2>3. /\ f \in Store /\ f.alerts = Without(ae.alerts, {a}) /\ f.history = Without(ae.history, {a})
        /\ f.next = ae.next
    BY <2>1, <2>2, Zenon DEF Store
  <2>4. Good(f) /\ Kept(ae, f)
    BY <1>0, <2>3, RemoveFits
  <2>5. Tame(f, Invalidate(f)) /\ ~Invalidate(f).cached
    BY <2>4, InvalidateFits
  <2>6. ae' = Invalidate(f)
    BY <1>4, <2>1 DEF Delete, Handle
  <2>7. Tame(ae, ae')
    BY <2>3, <2>4, <2>5, <2>6 DEF Tame, Kept, Coherent
  <2>. QED
    BY <1>4, <2>7, HandlerStep DEF Delete, Handle
<1>5. ASSUME NEW hours \in 1..MaxTime, Ignore(a, hours) PROVE IndInv'
  <2>1. now + hours \in 0..MaxTime
    BY <1>0, <1>5, BoundsAssumption DEF Ignore
  <2>2. Tame(ae, ae')
    BY <1>0, <1>5, <2>1, IgnoreFits DEF Ignore, Handle
  <2>. QED
    BY <1>5, <2>2, HandlerStep DEF Ignore, Handle
<1>. QED
  BY <1>1, <1>2, <1>3, <1>4, <1>5 DEF Operator

(* close_all_alerts().                                                       *)
LEMMA CloseAllKeeps ==
    ASSUME IndInv, CloseAll
    PROVE  IndInv'
<1>1. "closed" \in Ongoing \cup {"closed"} /\ 0 \in 0..MaxTime
  BY BoundsAssumption
<1>2. Tame(ae, ae')
  BY <1>1, AeGood, UpdateFits, Zenon DEF CloseAll, Handle
<1>. QED
  BY <1>2, HandlerStep DEF CloseAll, Handle

(* ignore_all_alerts().                                                      *)
LEMMA IgnoreAllKeeps ==
    ASSUME IndInv, NEW hours \in 1..MaxTime, IgnoreAll(hours)
    PROVE  IndInv'
<1>1. PICK until, e : until = now + hours /\ e = GetActive(ae)
  OBVIOUS
<1>2. until \in 0..MaxTime
  BY <1>1, AeGood, BoundsAssumption DEF IgnoreAll
<1>3. Tame(ae, e) /\ Good(e)
  BY <1>1, AeGood, GetActiveFits DEF Tame
<1>4. PICK u : u = Update(e, {a \in DOMAIN e.alerts : e.alerts[a].status # "ignored"}, "ignored", until)
  OBVIOUS
<1>5. "ignored" \in Ongoing \cup {"closed"}
  BY DEF Ongoing
<1>6. Tame(e, u)
  BY <1>2, <1>3, <1>4, <1>5, UpdateFits, Zenon
<1>7. Good(u)
  BY <1>6 DEF Tame
<1>8. PICK w : w = [r \in Rule |-> IF r \in {e.rows[a].rule : a \in DOMAIN e.rows}
                                   THEN until ELSE u.win[r]]
  BY Zenon
<1>9. w \in [Rule -> 0..MaxTime]
  BY <1>2, <1>7, <1>8, StoreFields DEF Good
<1>10. ae' = [u EXCEPT !.win = w]
  BY <1>1, <1>4, <1>8 DEF IgnoreAll, Handle
<1>11. Tame(u, ae')
  BY <1>7, <1>9, <1>10, WindowFits
<1>12. Tame(ae, ae')
  BY <1>3, <1>6, <1>11, TameTrans
<1>. QED
  BY <1>12, HandlerStep DEF IgnoreAll, Handle

(* A step that creates an alert of rule r, after the list of l showed none.  *)
LEMMA GrownStep ==
    ASSUME IndInv, NEW l, Tame(ae, l), NEW r \in Rule, NEW n, Grown(l, ae', r, n),
           Coherent(l) => Of(l.alerts, r) = {},
           revived' = revived \cup Revivals(ae, ae'), raced' = raced
    PROVE  /\ AlertInv'
           /\ \A q \in Rule \ revived' : q # r => Of(ae'.alerts, q) \subseteq Of(ae.alerts, q)
<1>1. PICK e, f : e = ae /\ f = ae'
  OBVIOUS
<1>2. Good(e) /\ Tame(e, l) /\ Grown(l, f, r, n)
  BY <1>1 DEF IndInv, AlertInv
<1>3. \A q : q \notin Revivals(e, f) =>
         \A a \in Of(f.alerts, q) : (a = n /\ q = r) \/ (a \in Of(e.alerts, q) /\ a \in Of(l.alerts, q))
  BY <1>2, GrownShrinks
<1>4. \A q \in Rule \ revived' : q \notin Revivals(e, f) /\ q \in Rule \ revived
  BY <1>1
<1>5. \A q \in Rule \ revived' : q # r => Of(f.alerts, q) \subseteq Of(e.alerts, q)
  BY <1>3, <1>4
<1>6. Good(ae')
  BY <1>1, <1>2 DEF Grown
<1>7. revived' \subseteq Rule
  BY <1>6, RevivalsType DEF IndInv, AlertInv
<1>8. ~raced => Coherent(l)
  BY DEF IndInv, AlertInv, CacheInv, Tame
<1>9. CacheInv'
  BY <1>8 DEF CacheInv, Grown
<1>10. OneInv'
  <2>1. ASSUME NEW q \in Rule \ revived', ~raced, NEW a \in Of(f.alerts, q), NEW b \in Of(f.alerts, q)
        PROVE  a = b
    <3>1. CASE q = r
      <4>1. Of(l.alerts, q) = {}
        BY <1>8, <2>1, <3>1
      <4>. QED
        BY <1>3, <1>4, <2>1, <4>1
    <3>2. CASE q # r
      <4>1. a \in Of(e.alerts, q) /\ b \in Of(e.alerts, q)
        BY <1>5, <2>1, <3>2
      <4>. QED
        BY <1>1, <1>4, <2>1, <4>1 DEF IndInv, AlertInv, OneInv
    <3>. QED
      BY <3>1, <3>2
  <2>. QED
    BY <1>1, <2>1 DEF OneInv
<1>. QED
  BY <1>1, <1>5, <1>6, <1>7, <1>9, <1>10 DEF AlertInv

(* POST /api/alarm/ingest: a rule of its own, so that no rule of the table   *)
(* is concerned.                                                             *)
LEMMA IngestKeeps ==
    ASSUME IndInv, NEW r \in External, Ingest(r)
    PROVE  IndInv'
<1>1. r \in Rule /\ Good(ae) /\ now \in 0..MaxTime /\ ae' = ProcessAlert(ae, r)
  BY RulesAssumption, AeGood DEF Ingest, Handle
<1>2. CASE ~ProcessCreates(ae, r)
  <2>1. Tame(ae, ae')
    BY <1>1, <1>2, ProcessRefreshes
  <2>. QED
    BY <2>1, HandlerStep DEF Ingest, Handle
<1>3. CASE ProcessCreates(ae, r)
  <2>1. Grown(ae, ae', r, ae.next)
    BY <1>1, <1>3, ProcessCreatesOne DEF Ingest
  <2>2. Coherent(ae) => Of(ae.alerts, r) = {}
    BY <1>1, <1>3, CreatesFits
  <2>3. Tame(ae, ae)
    BY <1>1, TameSelf
  <2>4. revived' = revived \cup Revivals(ae, ae') /\ raced' = raced
    BY DEF Ingest, Handle
  <2>5. PICK l, n : l = ae /\ n = ae.next
    OBVIOUS
  <2>6. /\ AlertInv'
        /\ \A q \in Rule \ revived' : q # r => Of(ae'.alerts, q) \subseteq Of(ae.alerts, q)
    BY <1>1, <2>1, <2>2, <2>3, <2>4, <2>5, GrownStep
  <2>7. UNCHANGED <<now, settings, streaks, cycle, raced, undone, mishaps>>
    BY DEF Ingest, Handle
  <2>8. Typed'
    BY <2>7 DEF IndInv, Typed, settings, streaks, cycle
  <2>9. EntryInv'
    BY <2>7 DEF IndInv, EntryInv, settings
  <2>10. ASSUME NEW q \in DOMAIN saved, saved[q] # "on", ~raced, q \notin revived' \cup undone
         PROVE  Of(ae'.alerts, q) = {}
    <3>1. q \in Rule \ External /\ q # r /\ q \in Rule \ revived'
      BY <2>10 DEF IndInv, Typed, Settings
    <3>2. Of(ae.alerts, q) = {}
      BY <2>4, <2>10 DEF IndInv, DisabledIsQuiet
    <3>. QED
      BY <2>6, <3>1, <3>2
  <2>11. DisabledIsQuiet'
    BY <2>7, <2>10 DEF DisabledIsQuiet, settings
  <2>. QED
    BY <2>6, <2>8, <2>9, <2>11 DEF IndInv
<1>. QED
  BY <1>2, <1>3

(* What a route takes a rule for is what the table or the cache entry        *)
(* holds.                                                                    *)
LEMMA WasType ==
    ASSUME IndInv, NEW r \in Rule \ External
    PROVE  /\ shown[r] \in {"on", "off", "gone"} /\ saved[r] \in {"on", "off", "gone"}
           /\ shown[r] # saved[r] => r \in undone
BY DEF IndInv, Typed, Settings, EntryInv

(* A rule is written and its alerts are closed: it may be off from here on.  *)
LEMMA SilenceKeeps ==
    ASSUME IndInv, NEW r \in Rule \ External, NEW v \in {"off", "gone"}, SaveRule(r, v),
           NEW reason, Handle(CloseRuleAlerts(ae, r, reason))
    PROVE  IndInv'
<1>1. Tame(ae, ae') /\ (Coherent(ae) => Of(ae'.alerts, r) = {})
  BY AeGood, CloseRuleFits DEF Handle
<1>2. /\ revived' = revived \cup Revivals(ae, ae')
      /\ UNCHANGED <<now, streaks, cycle, raced, undone, mishaps>>
  BY DEF Handle
<1>3. raced \/ Of(ae'.alerts, r) = {}
  BY <1>1, AeGood
<1>. QED
  BY <1>1, <1>2, <1>3, SaveStep

(* The rule routes.  A PUT of other fields may save "off" over an "on" that  *)
(* only the evaluation wrote.                                                *)
LEMMA RoutesKeep ==
    ASSUME IndInv, NEW r \in Rule \ External, SetEnabled(r) \/ EditRule(r) \/ DeleteRule(r)
    PROVE  IndInv'
<1>1. ASSUME Handle(ae)
      PROVE  /\ Tame(ae, ae') /\ revived' = revived \cup Revivals(ae, ae')
             /\ UNCHANGED <<now, streaks, cycle, raced, undone, mishaps>>
  BY <1>1, AeGood, TameSelf DEF Handle
<1>2. CASE Disable(r)
  BY <1>2, SilenceKeeps, Zenon DEF Disable
<1>3. CASE SaveRule(r, "on") /\ Handle(ae)
  BY <1>1, <1>3, SaveStep
<1>4. CASE EditRule(r)
  <2>1. PICK was \in Was(r) : SaveRule(r, was) /\ Handle(ae)
    BY <1>4 DEF EditRule
  <2>2. was \in {"on", "off", "gone"}
    BY <2>1, WasType DEF Was
  <2>3. was = "on" \/ saved[r] # "on" \/ r \in undone
    BY <2>1, WasType DEF Was
  <2>. QED
    BY <1>1, <2>1, <2>2, <2>3, SaveStep
<1>5. CASE DeleteRule(r)
  BY <1>5, SilenceKeeps, Zenon DEF DeleteRule
<1>. QED
  BY <1>2, <1>3, <1>4, <1>5 DEF SetEnabled

-----------------------------------------------------------------------------
(* The world.                                                                *)

(* A step on the same hot table that leaves the rules alone.                 *)
LEMMA WorldStep ==
    ASSUME IndInv, Typed', Good(ae'), ae'.alerts = ae.alerts, revived' = revived,
           saved' = saved, shown' = shown \/ shown' = saved, undone' = undone,
           raced => raced', ~raced' => Coherent(ae')
    PROVE  IndInv'
<1>1. AlertInv' /\ \A r \in Rule \ revived' : Of(ae'.alerts, r) \subseteq Of(ae.alerts, r)
  BY StillStep
<1>2. DisabledIsQuiet'
  BY <1>1, QuietStep
<1>3. EntryInv'
  BY DEF IndInv, EntryInv
<1>. QED
  BY <1>1, <1>2, <1>3 DEF IndInv

(* get_active_ignores(): the windows that a restart takes from the tables.   *)
LEMMA IgnoresType ==
    ASSUME NEW e, Good(e), now \in 0..MaxTime
    PROVE  ActiveIgnores(e) \in [Rule -> 0..MaxTime]
<1>1. ASSUME NEW r \in Rule
      PROVE  LET ends == {GetAlert(e, a).until : a \in {b \in Known(e) : GetAlert(e, b).rule = r}}
             IN  Max({u \in ends : u > now} \cup {0}) \in 0..MaxTime
  <2>. DEFINE ends == {GetAlert(e, a).until : a \in {b \in Known(e) : GetAlert(e, b).rule = r}}
              S == {u \in ends : u > now} \cup {0}
  <2>1. \A a \in Known(e) : GetAlert(e, a).until \in 0..MaxTime
    BY GetAlertType DEF Row
  <2>2. MaxTime \in Nat /\ 0 \in 0..MaxTime
    BY BoundsAssumption
  <2>3. S \in SUBSET (0..MaxTime) /\ S # {}
    BY <2>1, <2>2
  <2>. HIDE DEF S
  <2>4. Max(S) \in S
    BY <2>2, <2>3, MaxOfBounded
  <2>5. Max(S) \in 0..MaxTime
    BY <2>3, <2>4, Zenon
  <2>. QED
    BY <2>5 DEF S
<1>. QED
  BY <1>1 DEF ActiveIgnores

(* The clock, the cache's TTL, the purge and a restart.                      *)
LEMMA WorldKeeps ==
    ASSUME IndInv, Tick \/ CacheExpires \/ Purge \/ Restart
    PROVE  IndInv'
<1>0. Good(ae) /\ (~raced => Coherent(ae)) /\ now \in 0..MaxTime
  BY AeGood
<1>1. CASE Tick
  <2>1. Typed'
    BY <1>1, BoundsAssumption DEF Tick, IndInv, Typed, settings, streaks, cycle
  <2>. QED
    BY <1>0, <1>1, <2>1, WorldStep DEF Tick, settings
<1>2. CASE CacheExpires
  <2>1. Typed'
    BY <1>2 DEF CacheExpires, IndInv, Typed, settings, streaks, cycle
  <2>2. Tame(ae, ae') /\ ae'.alerts = ae.alerts
    BY <1>0, <1>2, InvalidateFits DEF CacheExpires
  <2>. QED
    BY <1>0, <1>2, <2>1, <2>2, WorldStep DEF CacheExpires, settings, Tame
<1>3. CASE Purge
  <2>1. Typed'
    BY <1>3 DEF Purge, IndInv, Typed, settings, streaks, cycle
  <2>2. PICK old : ae' = [ae EXCEPT !.history = Without(@, old)]
    BY <1>3 DEF Purge
  <2>3. ae \in Store /\ ae.alerts \in Rows /\ ae.history \in Rows
    BY <1>0, StoreFields DEF Good
  <2>4. DOMAIN ae.history \ old \in SUBSET DOMAIN ae.history
    OBVIOUS
  <2>5. Without(ae.history, old) \in Rows
    BY <2>3, <2>4, RestrictType DEF Without
  <2>6. /\ ae' \in Store /\ ae'.alerts = ae.alerts /\ ae'.history = Without(ae.history, old)
        /\ ae'.next = ae.next /\ ae'.cached = ae.cached /\ ae'.rows = ae.rows
    BY <2>2, <2>3, <2>5 DEF Store
  <2>7. /\ DOMAIN ae'.history \subseteq DOMAIN ae.history
        /\ \A a \in DOMAIN ae'.history : ae'.history[a] = ae.history[a]
    BY <2>3, <2>4, <2>6, RestrictType DEF Without
  <2>8. Good(ae')
    BY <1>0, <2>6, <2>7 DEF Good
  <2>9. ~raced => Coherent(ae')
    BY <1>0, <2>6 DEF Coherent, QueryActive
  <2>. QED
    BY <1>3, <2>1, <2>6, <2>8, <2>9, WorldStep DEF Purge, settings
<1>4. CASE Restart
  <2>1. PICK i, w : i = Invalidate(ae) /\ w = ActiveIgnores(ae)
    OBVIOUS
  <2>2. Good(i) /\ ~i.cached /\ i.alerts = ae.alerts /\ w \in [Rule -> 0..MaxTime]
    BY <1>0, <2>1, InvalidateFits, IgnoresType DEF Tame
  <2>3. ae' = [i EXCEPT !.win = w]
    BY <1>4, <2>1 DEF Restart
  <2>4. Good(ae') /\ ae'.alerts = ae.alerts /\ ae'.cached = i.cached
    BY <2>2, <2>3, WindowFits DEF Tame
  <2>5. Coherent(ae')
    BY <2>2, <2>4 DEF Coherent
  <2>6. Typed'
    <3>1. 0 \in 0..Cycles /\ 0 \in 0..Need - 1
      BY CyclesAssumption DEF Cycles
    <3>2. NoList \in [some : BOOLEAN, rows : Rows]
      BY NoRowsType DEF NoList
    <3>3. mishaps' \in 0..MaxMishaps
      BY <1>4, BoundsAssumption DEF Restart, IndInv, Typed
    <3>. QED
      BY <1>4, <3>1, <3>2, <3>3 DEF Restart, IndInv, Typed
  <2>. QED
    BY <1>4, <2>4, <2>5, <2>6, WorldStep DEF Restart
<1>. QED
  BY <1>1, <1>2, <1>3, <1>4

-----------------------------------------------------------------------------
(* The evaluation.                                                           *)

(* The cycle's reads, on the loop and on the worker thread.                  *)
LEMMA ReadsKeep ==
    ASSUME IndInv, CycleStart \/ ReadCheck \/ ReadHit \/ ReadStore \/ ReadFails
    PROVE  IndInv'
<1>0. Good(ae) /\ (~raced => Coherent(ae)) /\ ae.rows \in Rows /\ ae.cached \in BOOLEAN
  BY AeGood, StoreFields DEF Good
<1>1. CASE CycleStart
  <2>1. Typed'
    BY <1>1 DEF CycleStart, IndInv, Typed, settings, streaks, Settings
  <2>. QED
    BY <1>0, <1>1, <2>1, WorldStep DEF CycleStart, settings
<1>2. CASE ReadCheck
  <2>1. snap' \in [some : BOOLEAN, rows : Rows]
    <3>1. QueryActive(ae) \in Rows
      BY <1>0, QueryType
    <3>2. snap' = snap \/ snap' = [some |-> TRUE, rows |-> QueryActive(ae)]
      BY <1>2 DEF ReadCheck
    <3>3. snap \in [some : BOOLEAN, rows : Rows]
      BY DEF IndInv, Typed
    <3>4. [some |-> TRUE, rows |-> QueryActive(ae)] \in [some : BOOLEAN, rows : Rows]
      BY <3>1
    <3>. QED
      BY <3>2, <3>3, <3>4, Zenon
  <2>2. Typed'
    BY <1>2, <2>1 DEF ReadCheck, IndInv, Typed, settings, streaks
  <2>. QED
    BY <1>0, <1>2, <2>2, WorldStep DEF ReadCheck, settings
<1>3. CASE ReadHit
  <2>1. snap' \in [some : BOOLEAN, rows : Rows]
    BY <1>0, <1>3 DEF ReadHit
  <2>2. Typed'
    BY <1>3, <2>1 DEF ReadHit, IndInv, Typed, settings, streaks
  <2>. QED
    BY <1>0, <1>3, <2>2, WorldStep DEF ReadHit, settings
<1>4. CASE ReadStore
  <2>1. Typed'
    BY <1>4 DEF ReadStore, IndInv, Typed, settings, streaks
  <2>2. ae \in Store /\ snap.rows \in Rows
    BY <1>0 DEF Good, IndInv, Typed
  <2>3. /\ ae' \in Store /\ ae'.alerts = ae.alerts /\ ae'.history = ae.history
        /\ ae'.rows = snap.rows
    BY <1>4, <2>2, Zenon DEF ReadStore, Store
  <2>4. Good(ae') /\ QueryActive(ae') = QueryActive(ae)
    BY <1>0, <2>3, SameTables
  <2>5. raced => raced'
    BY <1>4, Zenon DEF ReadStore
  <2>6. ~raced' => Coherent(ae')
    BY <1>4, <2>3, <2>4, Zenon DEF ReadStore, Coherent
  <2>. QED
    BY <1>4, <2>1, <2>3, <2>4, <2>5, <2>6, WorldStep DEF ReadStore, settings
<1>5. CASE ReadFails
  <2>1. snap' \in [some : BOOLEAN, rows : Rows]
    BY <1>5, NoRowsType DEF ReadFails
  <2>2. mishaps' \in 0..MaxMishaps
    BY <1>5, BoundsAssumption DEF ReadFails, IndInv, Typed
  <2>3. Typed'
    BY <1>5, <2>1, <2>2 DEF ReadFails, IndInv, Typed, settings, streaks
  <2>. QED
    BY <1>0, <1>5, <2>3, WorldStep DEF ReadFails, settings
<1>. QED
  BY <1>1, <1>2, <1>3, <1>4, <1>5

(* What a rule's turn starts from.                                           *)
LEMMA TurnType ==
    ASSUME IndInv
    PROVE  /\ Tame(ae, Base) /\ Tame(ae, Listed)
           /\ List \in [some : BOOLEAN, rows : Rows]
<1>1. Good(ae)
  BY AeGood
<1>2. Tame(ae, Base)
  BY <1>1, ResumeFits, TameSelf DEF Base
<1>3. Good(Base)
  BY <1>2 DEF Tame
<1>4. Tame(ae, Listed)
  BY <1>2, <1>3, GetActiveFits, TameTrans DEF Listed
<1>5. Base.rows \in Rows
  BY <1>3, StoreFields DEF Good
<1>6. List \in [some : BOOLEAN, rows : Rows]
  BY <1>5 DEF List, IndInv, Typed
<1>. QED
  BY <1>2, <1>4, <1>6

(* A cycle without rules still resumes what has elapsed.                     *)
LEMMA ExpireOnlyKeeps ==
    ASSUME IndInv, ExpireOnly
    PROVE  IndInv'
<1>1. Tame(ae, ae')
  BY TurnType DEF ExpireOnly
<1>2. AlertInv' /\ \A r \in Rule \ revived' : Of(ae'.alerts, r) \subseteq Of(ae.alerts, r)
  BY <1>1, TameStep DEF ExpireOnly
<1>3. Typed'
  BY NoRowsType DEF ExpireOnly, GoOn, NoList, IndInv, Typed, settings, streaks
<1>4. DisabledIsQuiet'
  BY <1>2, QuietStep DEF ExpireOnly, settings
<1>5. EntryInv'
  BY DEF ExpireOnly, IndInv, EntryInv, settings
<1>. QED
  BY <1>2, <1>3, <1>4, <1>5 DEF IndInv

(* The rule is written back or not; where it is not, its alerts only shrink. *)
LEMMA WriteBackStep ==
    ASSUME IndInv, NEW r \in Rule, WriteBack(r) \/ NoWriteBack, raced' = raced,
           revived \subseteq revived',
           \A q \in Rule \ revived' : q # r => Of(ae'.alerts, q) \subseteq Of(ae.alerts, q),
           WriteBack(r) \/ (r \in Rule \ revived' => Of(ae'.alerts, r) \subseteq Of(ae.alerts, r))
    PROVE  /\ DisabledIsQuiet' /\ EntryInv'
           /\ saved' \in Settings /\ shown' \in Settings /\ undone' \subseteq Rule
<1>0. saved \in Settings /\ shown \in Settings /\ undone \subseteq Rule
  BY DEF IndInv, Typed
<1>1. /\ saved' \in Settings /\ shown' = shown /\ undone \subseteq undone' /\ undone' \subseteq Rule
      /\ \A q \in Rule \ External : saved'[q] # saved[q] => q = r /\ saved'[q] = "on" /\ q \in undone'
      /\ WriteBack(r) /\ r \in Rule \ External => saved'[r] = "on"
  <2>1. CASE WriteBack(r)
    BY <1>0, <2>1, Zenon DEF WriteBack, Settings
  <2>2. CASE NoWriteBack /\ ~WriteBack(r)
    BY <1>0, <2>2 DEF NoWriteBack, settings
  <2>. QED
    BY <2>1, <2>2
<1>2. EntryInv'
  BY <1>1 DEF IndInv, EntryInv
<1>3. DOMAIN saved' = Rule \ External /\ DOMAIN saved = Rule \ External
  BY <1>0, <1>1 DEF Settings
<1>4. ASSUME NEW q \in Rule \ External, saved'[q] # "on", ~raced, q \notin revived' \cup undone'
      PROVE  Of(ae'.alerts, q) = {}
  <2>1. saved[q] # "on" /\ q \notin revived \cup undone
    BY <1>1, <1>4
  <2>2. Of(ae.alerts, q) = {}
    BY <1>3, <1>4, <2>1 DEF IndInv, DisabledIsQuiet
  <2>3. Of(ae'.alerts, q) \subseteq Of(ae.alerts, q)
    BY <1>1, <1>4
  <2>. QED
    BY <2>2, <2>3
<1>5. DisabledIsQuiet'
  BY <1>3, <1>4 DEF DisabledIsQuiet
<1>. QED
  BY <1>0, <1>1, <1>2, <1>5

(* The streaks of a turn.                                                    *)
LEMMA MinOfTwo ==
    ASSUME NEW m \in Nat, NEW n \in Nat
    PROVE  Min({m, n}) = (IF m <= n THEN m ELSE n)
BY DEF Min

(* The streaks stay within the configured cycles.                            *)
LEMMA StreaksType ==
    ASSUME IndInv, NEW r \in Rule, NEW v \in Seen, Evaluate(r, v)
    PROVE  okays' \in [Rule -> 0..Cycles] /\ breaches' \in [Rule -> 0..Need - 1]
<1>1. okays \in [Rule -> 0..Cycles] /\ breaches \in [Rule -> 0..Need - 1]
  BY DEF IndInv, Typed
<1>2. Cycles \in Nat /\ 0 \in 0..Cycles /\ 0 \in 0..Need - 1
  BY CyclesAssumption DEF Cycles
<1>3. ASSUME NEW m \in 0..Cycles, NEW n \in 0..Need - 1, Streak(r, m, n)
      PROVE  okays' \in [Rule -> 0..Cycles] /\ breaches' \in [Rule -> 0..Need - 1]
  BY <1>1, <1>3 DEF Streak
<1>4. CASE Suppressed(r, v)
  BY <1>1, <1>2, <1>3, <1>4 DEF Suppressed, streaks
<1>5. CASE Fine(r, v)
  <2>1. PICK m : m = (IF v = "wobble" THEN 0 ELSE Min({okays[r] + 1, Cycles})) /\ Streak(r, m, 0)
    BY <1>5 DEF Fine
  <2>2. Min({okays[r] + 1, Cycles}) = (IF okays[r] + 1 <= Cycles THEN okays[r] + 1 ELSE Cycles)
    BY <1>1, <1>2, MinOfTwo
  <2>3. m \in 0..Cycles
    BY <1>1, <1>2, <2>1, <2>2
  <2>. QED
    BY <1>2, <1>3, <2>1, <2>3
<1>6. CASE StillFiring(r)
  BY <1>1, <1>2, <1>3, <1>6 DEF StillFiring
<1>7. CASE Deferred(r)
  <2>1. breaches[r] + 1 \in 0..Need - 1
    BY <1>1, <1>7, CyclesAssumption DEF Deferred
  <2>. QED
    BY <1>2, <1>3, <1>7, <2>1 DEF Deferred
<1>8. CASE Fire(r)
  BY <1>2, <1>3, <1>8 DEF Fire
<1>. QED
  BY <1>4, <1>5, <1>6, <1>7, <1>8 DEF Evaluate

(* What a turn does to the alerts: it is tame, or it creates one of its rule *)
(* and writes the rule back.                                                 *)
LEMMA TurnAlerts ==
    ASSUME IndInv, NEW r \in Rule, NEW v \in Seen, Evaluate(r, v)
    PROVE  /\ WriteBack(r) \/ NoWriteBack
           /\ \/ Tame(ae, ae')
              \/ /\ WriteBack(r)
                 /\ Grown(Listed, ae', r, ae.next)
                 /\ Coherent(Listed) => Of(Listed.alerts, r) = {}
<1>1. Tame(ae, Base) /\ Tame(ae, Listed) /\ now \in 0..MaxTime
  BY TurnType, AeGood
<1>2. Good(Listed) /\ Listed.next = ae.next
  BY <1>1 DEF Tame
<1>3. ASSUME NEW f, Tame(Listed, f) PROVE Tame(ae, f)
  BY <1>1, <1>3, TameTrans
<1>4. CASE Suppressed(r, v)
  BY <1>1, <1>4 DEF Suppressed
<1>5. CASE Fine(r, v)
  <2>1. ae' = Base \/ ae' = CloseAlerts(Listed, Firing(r), r, "auto")
    BY <1>5 DEF Fine
  <2>2. Tame(Listed, CloseAlerts(Listed, Firing(r), r, "auto"))
    BY <1>2, CloseFits
  <2>3. Tame(ae, CloseAlerts(Listed, Firing(r), r, "auto"))
    BY <1>3, <2>2
  <2>. QED
    BY <1>1, <1>5, <2>1, <2>3 DEF Fine
<1>6. CASE StillFiring(r)
  BY <1>1, <1>6 DEF StillFiring
<1>7. CASE Deferred(r)
  BY <1>1, <1>7 DEF Deferred
<1>8. CASE Fire(r)
  <2>1. CASE ~ProcessCreates(Listed, r)
    <3>1. Tame(Listed, ProcessAlert(Listed, r))
      BY <1>1, <1>2, <2>1, ProcessRefreshes
    <3>2. Tame(ae, ProcessAlert(Listed, r))
      BY <1>3, <3>1
    <3>. QED
      BY <1>8, <2>1, <3>2 DEF Fire
  <2>2. CASE ProcessCreates(Listed, r) /\ ae.next > MaxAlerts
    <3>1. Tame(Listed, GetActive(Listed))
      BY <1>2, GetActiveFits
    <3>2. Tame(ae, GetActive(Listed))
      BY <1>3, <3>1
    <3>. QED
      BY <1>8, <2>2, <3>2 DEF Fire
  <2>3. CASE ProcessCreates(Listed, r) /\ ~(ae.next > MaxAlerts)
    <3>1. Listed.next <= MaxAlerts
      BY <1>2, <2>3, StoreFields, BoundsAssumption DEF Good
    <3>2. Grown(Listed, ProcessAlert(Listed, r), r, ae.next)
      BY <1>1, <1>2, <2>3, <3>1, ProcessCreatesOne
    <3>3. Coherent(Listed) => Of(Listed.alerts, r) = {}
      BY <1>2, <2>3, CreatesFits
    <3>. QED
      BY <1>8, <2>3, <3>2, <3>3 DEF Fire
  <2>. QED
    BY <2>1, <2>2, <2>3
<1>. QED
  BY <1>4, <1>5, <1>6, <1>7, <1>8 DEF Evaluate

(* A rule's turn.                                                            *)
LEMMA EvaluateKeeps ==
    ASSUME IndInv, NEW r \in Rule, NEW v \in Seen, Evaluate(r, v)
    PROVE  IndInv'
<1>1. /\ revived' = revived \cup Revivals(ae, ae') /\ raced' = raced
      /\ UNCHANGED <<now, mishaps>> /\ GoOn(rules \ {r}, List)
  BY DEF Evaluate
<1>2. /\ AlertInv'
      /\ \A q \in Rule \ revived' : q # r => Of(ae'.alerts, q) \subseteq Of(ae.alerts, q)
      /\ WriteBack(r) \/ (r \in Rule \ revived' => Of(ae'.alerts, r) \subseteq Of(ae.alerts, r))
  <2>1. CASE Tame(ae, ae')
    BY <1>1, <2>1, TameStep
  <2>2. CASE /\ WriteBack(r) /\ Grown(Listed, ae', r, ae.next)
             /\ Coherent(Listed) => Of(Listed.alerts, r) = {}
    <3>1. PICK l, n : l = Listed /\ n = ae.next
      OBVIOUS
    <3>2. Tame(ae, l) /\ Grown(l, ae', r, n) /\ (Coherent(l) => Of(l.alerts, r) = {})
      BY <2>2, <3>1, TurnType
    <3>. QED
      BY <1>1, <2>2, <3>2, GrownStep, Zenon
  <2>. QED
    BY <2>1, <2>2, TurnAlerts, Zenon
<1>3. /\ DisabledIsQuiet' /\ EntryInv'
      /\ saved' \in Settings /\ shown' \in Settings /\ undone' \subseteq Rule
  BY <1>1, <1>2, TurnAlerts, WriteBackStep, Zenon
<1>4. /\ rules' \subseteq Rule /\ snap' \in [some : BOOLEAN, rows : Rows]
      /\ pc' \in {"idle", "check", "hit", "store", "listed", "rules"}
  <2>1. NoList \in [some : BOOLEAN, rows : Rows]
    BY NoRowsType DEF NoList
  <2>2. rules' \subseteq Rule /\ pc' \in {"idle", "check", "hit", "store", "listed", "rules"}
    BY <1>1 DEF GoOn, IndInv, Typed
  <2>3. snap' = NoList \/ snap' = List
    BY <1>1 DEF GoOn
  <2>. QED
    BY <2>1, <2>2, <2>3, TurnType, Zenon
<1>5. Typed'
  BY <1>1, <1>3, <1>4, StreaksType DEF IndInv, Typed
<1>. QED
  BY <1>2, <1>3, <1>5 DEF IndInv

-----------------------------------------------------------------------------
(* The engine starts with empty tables.                                      *)
LEMMA InitInv ==
    ASSUME Init
    PROVE  IndInv
<1>1. 0 \in 0..MaxTime /\ 0 \in 0..MaxMishaps /\ 1 \in 1..MaxAlerts + 1
  BY BoundsAssumption
<1>2. 0 \in 0..Cycles /\ 0 \in 0..Need - 1
  BY CyclesAssumption DEF Cycles
<1>3. NoList \in [some : BOOLEAN, rows : Rows]
  BY NoRowsType DEF NoList
<1>4. Typed
  BY <1>1, <1>2, <1>3, Zenon DEF Init, Typed, Settings
<1>5. ae \in Store /\ ae.alerts = NoRows /\ ae.history = NoRows /\ ae.cached = FALSE
  BY <1>1, NoRowsType DEF Init, Store
<1>6. \A r : Of(ae.alerts, r) = {}
  BY <1>5, NoRowsType DEF Of
<1>7. AlertInv
  BY <1>5, <1>6, NoRowsType DEF Init, AlertInv, Good, CacheInv, Coherent, OneInv
<1>8. DisabledIsQuiet
  BY <1>6 DEF DisabledIsQuiet
<1>9. EntryInv
  BY DEF Init, EntryInv
<1>. QED
  BY <1>4, <1>7, <1>8, <1>9 DEF IndInv

(* Every step keeps the invariant.                                           *)
LEMMA NextKeeps ==
    ASSUME IndInv, [Next]_vars
    PROVE  IndInv'
<1>1. CASE Cycle
  BY <1>1, ReadsKeep, ExpireOnlyKeeps, EvaluateKeeps DEF Cycle
<1>2. CASE \E a \in Alert : Operator(a)
  BY <1>2, OperatorKeeps
<1>3. CASE CloseAll
  BY <1>3, CloseAllKeeps
<1>4. CASE \E hours \in 1..MaxTime : IgnoreAll(hours)
  BY <1>4, IgnoreAllKeeps
<1>5. CASE \E r \in External : Ingest(r)
  BY <1>5, IngestKeeps
<1>6. CASE \E r \in Rule \ External : SetEnabled(r) \/ EditRule(r) \/ DeleteRule(r)
  BY <1>6, RoutesKeep
<1>7. CASE Tick \/ CacheExpires \/ Purge \/ Restart
  BY <1>7, WorldKeeps
<1>8. CASE UNCHANGED vars
  <2>1. Typed' /\ EntryInv'
    BY <1>8 DEF vars, settings, streaks, cycle, IndInv, Typed, EntryInv
  <2>2. AlertInv' /\ DisabledIsQuiet'
    BY <1>8 DEF vars, settings, IndInv, AlertInv, CacheInv, OneInv, DisabledIsQuiet
  <2>. QED
    BY <2>1, <2>2 DEF IndInv
<1>. QED
  BY <1>1, <1>2, <1>3, <1>4, <1>5, <1>6, <1>7, <1>8 DEF Next

(* The conjunction of the invariants below is inductive.                     *)
THEOREM Invariance == Spec => []IndInv
BY InitInv, NextKeeps, PTL DEF Spec

(* write_alert() keeps an alert in one table, the one its status belongs in, *)
(* for any rules and any number of alerts; every variable keeps its type.    *)
THEOREM TablesApart == Spec => []OneTable
<1>1. IndInv => OneTable
  <2>1. ASSUME IndInv PROVE TypeOK
    <3>1. Good(ae)
      BY <2>1, AeGood
    <3>. QED
      BY <2>1, <3>1, StoreFields DEF Good, IndInv, AlertInv, Typed, Settings, TypeOK
  <2>. QED
    BY <2>1, AeGood DEF OneTable, Good
<1>. QED
  BY <1>1, Invariance, PTL

(* The cached list of ongoing alerts is what a query would return, as long   *)
(* as the worker thread has not stored an old list over it.                  *)
THEOREM CacheFollowsTable == Spec => []CacheCurrent
<1>1. IndInv => CacheCurrent
  BY AeGood DEF CacheCurrent, Coherent
<1>. QED
  BY <1>1, Invariance, PTL

(* process_alert() never gives a rule a second ongoing alert, whatever the   *)
(* routes, the loop, the purge and restarts do in between.                   *)
THEOREM RulesAlertOnce == Spec => []OneOngoing
<1>1. IndInv => OneOngoing
  <2>1. ASSUME NEW S, \A a, b \in S : a = b PROVE Cardinality(S) <= 1
    <3>1. CASE S = {}
      BY <3>1, FS_EmptySet
    <3>2. CASE S # {}
      <4>1. PICK a \in S : S = {a}
        BY <2>1, <3>2
      <4>. QED
        BY <4>1, FS_Singleton
    <3>. QED
      BY <3>1, <3>2
  <2>. QED
    BY <2>1 DEF IndInv, AlertInv, OneInv, OneOngoing
<1>. QED
  BY <1>1, Invariance, PTL

(* Disabling or deleting a rule silences it for good, also in the middle of  *)
(* a cycle that has the rule on its list, unless the evaluation puts the     *)
(* rule back.                                                                *)
THEOREM DisabledRulesAreQuiet == Spec => []DisabledIsQuiet
<1>1. IndInv => DisabledIsQuiet
  BY DEF IndInv
<1>. QED
  BY <1>1, Invariance, PTL
=============================================================================
