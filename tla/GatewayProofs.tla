---------------------------- MODULE GatewayProofs ---------------------------
(***************************************************************************)
(* What the gateway counts is what its requests hold, for every set of     *)
(* requests, pools and stream limit.                                       *)
(***************************************************************************)
EXTENDS Gateway, FiniteSetTheorems, SequenceTheorems, TLAPS

(* A kind of request goes through its own states only; the provider, the     *)
(* agent and the outcome are known where they are used, and not before.      *)
Shape(q) ==
    /\ q.kind = "proxy" => q.pc \in {"new", "built", "stream", "done"}
    /\ q.kind \in {"json", "call"} => q.pc \notin {"first", "open", "built", "stream", "slot"}
    /\ q.kind = "chat" => q.pc \notin {"open", "built", "slot"}
    /\ q.pc \in {"enter", "pick"} => q.prov \in Provider
    /\ q.pc \in {"sent", "first", "open", "built", "stream", "slot"} /\ q.kind # "proxy"
       => q.at \in Agent
    /\ q.pc \notin {"leave", "done"} => q.out = None

GInv == Conserved /\ \A r \in Req : Shape(req[r])

Bit(b) == IF b THEN 1 ELSE 0

-----------------------------------------------------------------------------
(* Sets that differ in one element at most.                                  *)
LEMMA CountMoves ==
    ASSUME NEW S, NEW T, NEW r, IsFiniteSet(S), IsFiniteSet(T), S \ {r} = T \ {r}
    PROVE  /\ Cardinality(S) \in Nat /\ Cardinality(T) \in Nat
           /\ Cardinality(T) = Cardinality(S) + Bit(r \in T) - Bit(r \in S)
<1>1. /\ Cardinality(S) \in Nat /\ Cardinality(T) \in Nat
  BY FS_CardinalityType
<1>2. Cardinality(S \ {r}) = IF r \in S THEN Cardinality(S) - 1 ELSE Cardinality(S)
  BY FS_RemoveElement
<1>3. Cardinality(T \ {r}) = IF r \in T THEN Cardinality(T) - 1 ELSE Cardinality(T)
  BY FS_RemoveElement
<1>. QED
  BY <1>1, <1>2, <1>3 DEF Bit

(* The requests with some property are finitely many.                        *)
LEMMA RequestsFinite ==
    ASSUME NEW S \in SUBSET Req
    PROVE  IsFiniteSet(S) /\ Cardinality(S) \in 0..Cardinality(Req)
<1>1. IsFiniteSet(S) /\ Cardinality(S) <= Cardinality(Req)
  BY GatewayAssumption, FS_Subset
<1>2. Cardinality(S) \in Nat /\ Cardinality(Req) \in Nat
  BY <1>1, GatewayAssumption, FS_CardinalityType
<1>. QED
  BY <1>1, <1>2

(* The candidates of a request: each is an agent, and taking one leaves a    *)
(* shorter list.                                                             *)
LEMMA CandidateLists ==
    /\ <<>> \in Lists
    /\ \A s \in Lists :
          s # <<>> => Head(s) \in Agent /\ Tail(s) \in Lists
    /\ \A p \in Provider : Orders(PoolOf[p]) \subseteq Lists
<1>1. Cardinality(Agent) \in Nat
  BY GatewayAssumption, FS_CardinalityType
<1>2. <<>> \in Lists
  BY <1>1 DEF Lists
<1>3. ASSUME NEW s \in Lists, s # <<>>
      PROVE  Head(s) \in Agent /\ Tail(s) \in Lists
  <2>1. PICK n \in 0..Cardinality(Agent) : s \in [1..n -> Agent]
    BY <1>3 DEF Lists
  <2>a. n \in Nat /\ s \in Seq(Agent)
    BY <1>1, <2>1
  <2>b. Len(s) = n
    BY <2>1, <2>a
  <2>2. s \in Seq(Agent) /\ Len(s) = n /\ n # 0
    BY <1>3, <2>a, <2>b
  <2>c. Head(s) \in Agent /\ Tail(s) \in Seq(Agent) /\ Len(Tail(s)) = n - 1
    BY <2>2
  <2>3. Tail(s) \in [1..(n - 1) -> Agent]
    BY <2>c, LenProperties, Zenon
  <2>. QED
    BY <1>1, <2>1, <2>2, <2>c, <2>3 DEF Lists
<1>4. ASSUME NEW p \in Provider, NEW s \in Orders(PoolOf[p])
      PROVE  s \in Lists
  <2>1. PoolOf[p] \in SUBSET Agent
    BY DEF Agent
  <2>2. Cardinality(PoolOf[p]) \in 0..Cardinality(Agent)
    BY <1>1, <2>1, GatewayAssumption, FS_Subset, FS_CardinalityType
  <2>3. s \in [1..Cardinality(PoolOf[p]) -> PoolOf[p]]
    BY <1>4 DEF Orders, Bijection, Injection
  <2>4. s \in [1..Cardinality(PoolOf[p]) -> Agent]
    BY <2>1, <2>3
  <2>. QED
    BY <2>2, <2>4 DEF Lists
<1>. QED
  BY <1>2, <1>3, <1>4

-----------------------------------------------------------------------------
(* A step of the request r moves the counters by what r takes and gives back. *)
Moves(r) ==
    /\ req' = [req EXCEPT ![r] = req'[r]]
    /\ req'[r] \in Request /\ Shape(req'[r])
    /\ active' = active + Bit(Slotted(req'[r])) - Bit(Slotted(req[r]))
    /\ active' <= Limit
    /\ inflight' = [a \in Agent |->
           inflight[a] + Bit(ServedBy(req'[r], a)) - Bit(ServedBy(req[r], a))]
    /\ clients' = clients + Bit(Inside(req'[r])) - Bit(Inside(req[r]))
    /\ errors' = errors + Bit(Failed(req'[r])) - Bit(Failed(req[r]))

(* A step of one request that moves the counters by what it takes and gives  *)
(* back keeps them equal to what all the requests hold.                      *)
LEMMA Balance ==
    ASSUME GInv, NEW r \in Req, Moves(r)
    PROVE  /\ req' \in [Req -> Request] /\ \A s \in Req : Shape(req'[s])
           /\ active' \in 0..Limit /\ active' = Cardinality({s \in Req : Slotted(req'[s])})
           /\ inflight' \in [Agent -> 0..Cardinality(Req)]
           /\ \A a \in Agent : inflight'[a] = Cardinality({s \in Req : ServedBy(req'[s], a)})
           /\ clients' \in 0..Cardinality(Req)
           /\ clients' = Cardinality({s \in Req : Inside(req'[s])})
           /\ errors' \in 0..Cardinality(Req)
           /\ errors' = Cardinality({s \in Req : Failed(req'[s])})
<1>1. req \in [Req -> Request] /\ \A s \in Req : Shape(req[s])
  BY DEF GInv, Conserved, TypeOK
<1>2. req' \in [Req -> Request] /\ \A s \in Req \ {r} : req'[s] = req[s]
  BY <1>1 DEF Moves
<1>3. \A s \in Req : Shape(req'[s])
  BY <1>1, <1>2 DEF Moves
<1>4. active' \in 0..Limit /\ active' = Cardinality({s \in Req : Slotted(req'[s])})
  <2>. DEFINE S == {s \in Req : Slotted(req[s])}
              T == {s \in Req : Slotted(req'[s])}
  <2>1. S \ {r} = T \ {r} /\ (r \in S <=> Slotted(req[r])) /\ (r \in T <=> Slotted(req'[r]))
    BY <1>2
  <2>2. IsFiniteSet(S) /\ IsFiniteSet(T)
    BY RequestsFinite
  <2>3. active = Cardinality(S)
    BY DEF GInv, Conserved
  <2>4. active' = active + Bit(r \in T) - Bit(r \in S)
    BY <2>1 DEF Moves, Bit
  <2>. HIDE DEF S, T
  <2>5. Cardinality(T) \in Nat /\ active' = Cardinality(T)
    BY <2>1, <2>2, <2>3, <2>4, CountMoves
  <2>. QED
    BY <2>5, GatewayAssumption DEF Moves, T
<1>5. ASSUME NEW a \in Agent
      PROVE  /\ inflight'[a] \in 0..Cardinality(Req)
             /\ inflight'[a] = Cardinality({s \in Req : ServedBy(req'[s], a)})
  <2>. DEFINE S == {s \in Req : ServedBy(req[s], a)}
              T == {s \in Req : ServedBy(req'[s], a)}
  <2>1. S \ {r} = T \ {r} /\ (r \in S <=> ServedBy(req[r], a)) /\ (r \in T <=> ServedBy(req'[r], a))
    BY <1>2
  <2>2. IsFiniteSet(S) /\ IsFiniteSet(T) /\ Cardinality(T) \in 0..Cardinality(Req)
    BY RequestsFinite
  <2>3. inflight[a] = Cardinality(S)
    BY DEF GInv, Conserved
  <2>4. inflight'[a] = inflight[a] + Bit(r \in T) - Bit(r \in S)
    BY <2>1 DEF Moves, Bit
  <2>. HIDE DEF S, T
  <2>5. inflight'[a] = Cardinality(T)
    BY <2>1, <2>2, <2>3, <2>4, CountMoves
  <2>. QED
    BY <2>2, <2>5 DEF T
<1>6. clients' \in 0..Cardinality(Req) /\ clients' = Cardinality({s \in Req : Inside(req'[s])})
  <2>. DEFINE S == {s \in Req : Inside(req[s])}
              T == {s \in Req : Inside(req'[s])}
  <2>1. S \ {r} = T \ {r} /\ (r \in S <=> Inside(req[r])) /\ (r \in T <=> Inside(req'[r]))
    BY <1>2
  <2>2. IsFiniteSet(S) /\ IsFiniteSet(T) /\ Cardinality(T) \in 0..Cardinality(Req)
    BY RequestsFinite
  <2>3. clients = Cardinality(S)
    BY DEF GInv, Conserved
  <2>4. clients' = clients + Bit(r \in T) - Bit(r \in S)
    BY <2>1 DEF Moves, Bit
  <2>. HIDE DEF S, T
  <2>5. clients' = Cardinality(T)
    BY <2>1, <2>2, <2>3, <2>4, CountMoves
  <2>. QED
    BY <2>2, <2>5 DEF T
<1>7. errors' \in 0..Cardinality(Req) /\ errors' = Cardinality({s \in Req : Failed(req'[s])})
  <2>. DEFINE S == {s \in Req : Failed(req[s])}
              T == {s \in Req : Failed(req'[s])}
  <2>1. S \ {r} = T \ {r} /\ (r \in S <=> Failed(req[r])) /\ (r \in T <=> Failed(req'[r]))
    BY <1>2
  <2>2. IsFiniteSet(S) /\ IsFiniteSet(T) /\ Cardinality(T) \in 0..Cardinality(Req)
    BY RequestsFinite
  <2>3. errors = Cardinality(S)
    BY DEF GInv, Conserved
  <2>4. errors' = errors + Bit(r \in T) - Bit(r \in S)
    BY <2>1 DEF Moves, Bit
  <2>. HIDE DEF S, T
  <2>5. errors' = Cardinality(T)
    BY <2>1, <2>2, <2>3, <2>4, CountMoves
  <2>. QED
    BY <2>2, <2>5 DEF T
<1>8. inflight' \in [Agent -> 0..Cardinality(Req)]
  BY <1>5, Zenon DEF Moves
<1>. QED
  BY <1>2, <1>3, <1>4, <1>5, <1>6, <1>7, <1>8

(* What a request holds is counted.                                          *)
LEMMA Held ==
    ASSUME GInv, NEW r \in Req
    PROVE  /\ Slotted(req[r]) => active > 0
           /\ \A a \in Agent : ServedBy(req[r], a) => inflight[a] > 0
           /\ Inside(req[r]) => clients > 0
<1>1. ASSUME NEW S \in SUBSET Req, r \in S PROVE Cardinality(S) > 0
  <2>1. IsFiniteSet(S) /\ Cardinality(S) \in Nat
    BY RequestsFinite, FS_CardinalityType
  <2>2. Cardinality(S) # 0
    BY <1>1, <2>1, FS_EmptySet
  <2>. QED
    BY <2>1, <2>2
<1>2. Slotted(req[r]) => active > 0
  BY <1>1 DEF GInv, Conserved
<1>3. ASSUME NEW a \in Agent, ServedBy(req[r], a) PROVE inflight[a] > 0
  <2>1. {s \in Req : ServedBy(req[s], a)} \in SUBSET Req /\ r \in {s \in Req : ServedBy(req[s], a)}
    BY <1>3
  <2>2. inflight[a] = Cardinality({s \in Req : ServedBy(req[s], a)})
    BY DEF GInv, Conserved
  <2>. QED
    BY <1>1, <2>1, <2>2
<1>4. Inside(req[r]) => clients > 0
  BY <1>1 DEF GInv, Conserved
<1>. QED
  BY <1>2, <1>3, <1>4

(* The types of a request and of the counters.                               *)
LEMMA RequestTypes ==
    ASSUME GInv, NEW r \in Req
    PROVE  /\ req \in [Req -> Request] /\ req[r] \in Request /\ Shape(req[r])
           /\ active \in Nat /\ active <= Limit /\ Limit \in Nat
           /\ inflight \in [Agent -> Nat]
           /\ clients \in Nat /\ errors \in Nat
           /\ index.owner \in Provider \cup {None} /\ Fallback \in Provider
           /\ None \notin Failure /\ None \notin Agent
<1>1. Cardinality(Req) \in Nat
  BY GatewayAssumption, FS_CardinalityType
<1>2. None \notin Failure
  BY GatewayAssumption DEF Outcome, Failure
<1>. QED
  BY <1>1, <1>2, GatewayAssumption DEF GInv, Conserved, TypeOK

(* How a request's record is changed: its kind stays, and the other fields    *)
(* are set or kept.                                                          *)
Kept(r) ==
    /\ req' = [req EXCEPT ![r] = req'[r]] /\ req'[r] \in Request
    /\ req'[r].kind = req[r].kind

(* A step that writes one request's record keeps all the others.             *)
LEMMA Updated ==
    ASSUME NEW r \in Req, req \in [Req -> Request], NEW q \in Request, q.kind = req[r].kind,
           req' = [req EXCEPT ![r] = q]
    PROVE  Kept(r) /\ req'[r] = q
BY DEF Kept

(* Goto: only the state changes.                                             *)
LEMMA GotoFields ==
    ASSUME NEW r \in Req, req \in [Req -> Request], NEW pc, Goto(r, pc),
           pc \in {"await", "pick", "first", "open", "built", "stream", "slot", "done"}
    PROVE  /\ Kept(r) /\ req'[r].pc = pc /\ req'[r].prov = req[r].prov
           /\ req'[r].at = req[r].at /\ req'[r].out = req[r].out
<1>1. PICK c \in Request : c = req[r]
  OBVIOUS
<1>2. PICK q : q = [c EXCEPT !.pc = pc]
  BY Zenon
<1>3. /\ q \in Request /\ q.kind = c.kind /\ q.pc = pc /\ q.prov = c.prov
      /\ q.at = c.at /\ q.out = c.out
  BY <1>2 DEF Request
<1>4. req' = [req EXCEPT ![r] = q]
  BY <1>1, <1>2 DEF Goto
<1>. QED
  BY <1>1, <1>3, <1>4, Updated, Zenon

(* Exit: the outcome is known and the agent let go.                          *)
LEMMA ExitFields ==
    ASSUME NEW r \in Req, req \in [Req -> Request], NEW out \in Outcome, Exit(r, out)
    PROVE  /\ Kept(r) /\ req'[r].pc = "leave" /\ req'[r].out = out /\ req'[r].at = None
<1>1. PICK c \in Request : c = req[r]
  OBVIOUS
<1>2. PICK q : q = [c EXCEPT !.pc = "leave", !.out = out, !.left = <<>>, !.at = None, !.late = FALSE]
  OBVIOUS
<1>3. /\ q \in Request /\ q.kind = c.kind /\ q.pc = "leave" /\ q.out = out /\ q.at = None
  BY <1>2, CandidateLists, Zenon DEF Request
<1>4. req' = [req EXCEPT ![r] = q]
  BY <1>1, <1>2 DEF Exit
<1>. QED
  BY <1>1, <1>3, <1>4, Updated, Zenon

(* NextAgent: back to the list, the agent let go.                            *)
LEMMA NextFields ==
    ASSUME NEW r \in Req, req \in [Req -> Request], NEW late \in BOOLEAN, NextAgent(r, late)
    PROVE  /\ Kept(r) /\ req'[r].pc = "try" /\ req'[r].at = None /\ req'[r].out = req[r].out
<1>1. PICK c \in Request : c = req[r]
  OBVIOUS
<1>2. PICK q : q = [c EXCEPT !.pc = "try", !.at = None, !.late = @ \/ late]
  OBVIOUS
<1>3. /\ q \in Request /\ q.kind = c.kind /\ q.pc = "try" /\ q.at = None /\ q.out = c.out
  BY <1>2, Zenon DEF Request
<1>4. req' = [req EXCEPT ![r] = q]
  BY <1>1, <1>2, Zenon DEF NextAgent
<1>. QED
  BY <1>1, <1>3, <1>4, Updated, Zenon

(* Take: the first of the list is the agent in hand.                         *)
LEMMA TakeFields ==
    ASSUME NEW r \in Req, req \in [Req -> Request], Take(r, "sent")
    PROVE  /\ Kept(r) /\ req'[r].pc = "sent" /\ req'[r].at = Head(req[r].left)
           /\ Head(req[r].left) \in Agent /\ req'[r].out = req[r].out
<1>1. PICK c \in Request : c = req[r]
  OBVIOUS
<1>2. PICK q : q = [c EXCEPT !.pc = "sent", !.at = Head(c.left), !.left = Tail(c.left)]
  OBVIOUS
<1>3. c.left \in Lists /\ c.left # <<>>
  BY <1>1 DEF Request, Take
<1>4. Head(c.left) \in Agent /\ Tail(c.left) \in Lists
  BY <1>3, CandidateLists
<1>5. /\ q \in Request /\ q.kind = c.kind /\ q.pc = "sent" /\ q.at = Head(c.left) /\ q.out = c.out
  BY <1>2, <1>4, Zenon DEF Request
<1>6. req' = [req EXCEPT ![r] = q]
  BY <1>1, <1>2, Zenon DEF Take
<1>. QED
  BY <1>1, <1>4, <1>5, <1>6, Updated, Zenon

(* Route: the provider is known.                                             *)
LEMMA RouteFields ==
    ASSUME NEW r \in Req, req \in [Req -> Request], NEW prov \in Provider, Route(r, prov)
    PROVE  /\ Kept(r) /\ req'[r].pc = "enter" /\ req'[r].prov = prov
           /\ req'[r].at = req[r].at /\ req'[r].out = req[r].out
<1>1. PICK c \in Request : c = req[r]
  OBVIOUS
<1>2. PICK q : q = [c EXCEPT !.pc = "enter", !.prov = prov]
  OBVIOUS
<1>3. /\ q \in Request /\ q.kind = c.kind /\ q.pc = "enter" /\ q.prov = prov
      /\ q.at = c.at /\ q.out = c.out
  BY <1>2, Zenon DEF Request
<1>4. req' = [req EXCEPT ![r] = q]
  BY <1>1, <1>2, Zenon DEF Route
<1>. QED
  BY <1>1, <1>3, <1>4, Updated, Zenon

(* The list of candidates is drawn up.                                       *)
LEMMA CandidatesFields ==
    ASSUME NEW r \in Req, req \in [Req -> Request], req[r].prov \in Provider, Candidates(r)
    PROVE  /\ Kept(r) /\ req'[r].pc = "try" /\ req'[r].at = req[r].at /\ req'[r].out = req[r].out
<1>1. PICK c \in Request : c = req[r]
  OBVIOUS
<1>2. PICK s \in Orders(PoolOf[c.prov]) :
         req' = [req EXCEPT ![r].pc = "try", ![r].left = s, ![r].prov = None]
  BY <1>1, Zenon DEF Candidates
<1>3. PICK q : q = [c EXCEPT !.pc = "try", !.left = s, !.prov = None]
  OBVIOUS
<1>4. s \in Lists
  BY <1>1, CandidateLists
<1>5. /\ q \in Request /\ q.kind = c.kind /\ q.pc = "try" /\ q.at = c.at /\ q.out = c.out
  BY <1>3, <1>4, Zenon DEF Request
<1>6. req' = [req EXCEPT ![r] = q]
  BY <1>1, <1>2, <1>3, Zenon
<1>. QED
  BY <1>1, <1>5, <1>6, Updated, Zenon

(* A proxied stream ends with an outcome.                                    *)
LEMMA DoneFields ==
    ASSUME NEW r \in Req, req \in [Req -> Request], NEW out \in Outcome, ProxyEnds(r, out)
    PROVE  /\ Kept(r) /\ req'[r].pc = "done" /\ req'[r].out = out /\ req'[r].at = req[r].at
<1>1. PICK c \in Request : c = req[r]
  OBVIOUS
<1>2. PICK q : q = [c EXCEPT !.pc = "done", !.out = out]
  OBVIOUS
<1>3. /\ q \in Request /\ q.kind = c.kind /\ q.pc = "done" /\ q.out = out /\ q.at = c.at
  BY <1>2, Zenon DEF Request
<1>4. req' = [req EXCEPT ![r] = q]
  BY <1>1, <1>2, Zenon DEF ProxyEnds
<1>. QED
  BY <1>1, <1>3, <1>4, Updated, Zenon

(* The in-flight count of one agent goes up or down by one.                  *)
LEMMA InflightMoves ==
    ASSUME NEW b \in Agent, inflight \in [Agent -> Nat]
    PROVE  /\ Add(b, 1) => inflight' = [a \in Agent |-> inflight[a] + Bit(a = b)]
           /\ Sub(b) /\ inflight[b] > 0 => inflight' = [a \in Agent |-> inflight[a] - Bit(a = b)]
<1>1. ASSUME Add(b, 1) PROVE inflight' = [a \in Agent |-> inflight[a] + Bit(a = b)]
  <2>1. inflight' = [a \in Agent |-> IF a = b THEN inflight[a] + 1 ELSE inflight[a]]
    BY <1>1, Zenon DEF Add
  <2>2. \A a \in Agent : inflight[a] + Bit(a = b) = IF a = b THEN inflight[a] + 1 ELSE inflight[a]
    BY DEF Bit
  <2>. QED
    BY <2>1, <2>2
<1>2. ASSUME Sub(b), inflight[b] > 0 PROVE inflight' = [a \in Agent |-> inflight[a] - Bit(a = b)]
  <2>1. inflight' = [a \in Agent |-> IF a = b THEN inflight[a] - 1 ELSE inflight[a]]
    BY <1>2, Zenon DEF Sub
  <2>2. \A a \in Agent : inflight[a] - Bit(a = b) = IF a = b THEN inflight[a] - 1 ELSE inflight[a]
    BY DEF Bit
  <2>. QED
    BY <2>1, <2>2
<1>. QED
  BY <1>1, <1>2

(* Every step of a request takes and gives back what it should.              *)
LEMMA ServeStep ==
    ASSUME GInv, NEW r \in Req, Serve(r)
    PROVE  Moves(r)
<1>a. req \in [Req -> Request] /\ inflight \in [Agent -> Nat]
  BY RequestTypes
<1>b. Shape(req[r]) /\ None \notin Failure /\ None \notin Agent
  BY RequestTypes
<1>c. active \in Nat /\ active <= Limit /\ Limit \in Nat /\ clients \in Nat /\ errors \in Nat
  BY RequestTypes
<1>d. /\ Slotted(req[r]) => active > 0
      /\ Inside(req[r]) => clients > 0
  BY Held
<1>e. \A a \in Agent : ServedBy(req[r], a) => inflight[a] > 0
  BY Held
<1>f. index.owner \in Provider \cup {None} /\ Fallback \in Provider
  BY RequestTypes
<1>1. CASE Given(r)
  <2>0. PICK p \in Provider : Route(r, p)
    BY <1>f, <1>1 DEF Given
  <2>1. Kept(r) /\ req'[r].pc = "enter" /\ req'[r].prov \in Provider /\ req'[r].at = req[r].at /\ req'[r].out = req[r].out
    BY <1>a, <1>1, <2>0, RouteFields DEF Outcome, Given, counts
  <2>2. /\ Shape(req'[r])
        /\ (Slotted(req'[r]) <=> Slotted(req[r]))
        /\ (Inside(req'[r]) <=> Inside(req[r]))
        /\ (Failed(req'[r]) <=> Failed(req[r]))
        /\ \A a \in Agent : ServedBy(req'[r], a) <=> ServedBy(req[r], a)
    BY <1>b, <1>1, <2>0, <2>1 DEF At, Kind, Shape, Kept, Failure, Slotted, Inside, Failed, ServedBy, Given, counts
  <2>3. UNCHANGED inflight
    BY <1>1, <2>0 DEF Given, counts
  <2>. QED
    BY <1>a, <1>c, <1>d, <1>1, <2>0, <2>1, <2>2, <2>3 DEF Moves, Kept, Bit, Fail, Release, Given, counts
<1>2. CASE Lookup(r)
  <2>1. CASE index.owner # None \/ index.fresh
    <3>0. PICK p \in Provider : Route(r, p)
      BY <1>f, <1>2, <2>1 DEF Lookup
    <3>1. Kept(r) /\ req'[r].pc = "enter" /\ req'[r].prov \in Provider /\ req'[r].at = req[r].at /\ req'[r].out = req[r].out
      BY <1>a, <1>2, <2>1, <3>0, RouteFields DEF Outcome, Lookup, counts
    <3>2. /\ Shape(req'[r])
          /\ (Slotted(req'[r]) <=> Slotted(req[r]))
          /\ (Inside(req'[r]) <=> Inside(req[r]))
          /\ (Failed(req'[r]) <=> Failed(req[r]))
          /\ \A a \in Agent : ServedBy(req'[r], a) <=> ServedBy(req[r], a)
      BY <1>b, <1>2, <2>1, <3>0, <3>1 DEF At, Kind, Shape, Kept, Failure, Slotted, Inside, Failed, ServedBy, Lookup, counts
    <3>3. UNCHANGED inflight
      BY <1>2, <2>1, <3>0 DEF Lookup, counts
    <3>. QED
      BY <1>a, <1>c, <1>d, <1>2, <2>1, <3>0, <3>1, <3>2, <3>3 DEF Moves, Kept, Bit, Fail, Release, Lookup, counts
  <2>2. CASE ~(index.owner # None \/ index.fresh)
    <3>1. Kept(r) /\ req'[r].pc = "await" /\ req'[r].prov = req[r].prov /\ req'[r].at = req[r].at /\ req'[r].out = req[r].out
      BY <1>a, <1>2, <2>2, GotoFields DEF Outcome, Lookup, counts
    <3>2. /\ Shape(req'[r])
          /\ (Slotted(req'[r]) <=> Slotted(req[r]))
          /\ (Inside(req'[r]) <=> Inside(req[r]))
          /\ (Failed(req'[r]) <=> Failed(req[r]))
          /\ \A a \in Agent : ServedBy(req'[r], a) <=> ServedBy(req[r], a)
      BY <1>b, <1>2, <2>2, <3>1 DEF At, Kind, Shape, Kept, Failure, Slotted, Inside, Failed, ServedBy, Lookup, counts
    <3>3. UNCHANGED inflight
      BY <1>2, <2>2 DEF Lookup, counts
    <3>. QED
      BY <1>a, <1>c, <1>d, <1>2, <2>2, <3>1, <3>2, <3>3 DEF Moves, Kept, Bit, Fail, Release, Lookup, counts
  <2>. QED
    BY <1>2, <2>1, <2>2 DEF Lookup
<1>3. CASE Await(r)
  <2>0. PICK p \in Provider : Route(r, p)
    BY <1>f, <1>3 DEF Await
  <2>1. Kept(r) /\ req'[r].pc = "enter" /\ req'[r].prov \in Provider /\ req'[r].at = req[r].at /\ req'[r].out = req[r].out
    BY <1>a, <1>3, <2>0, RouteFields DEF Outcome, Await, counts
  <2>2. /\ Shape(req'[r])
        /\ (Slotted(req'[r]) <=> Slotted(req[r]))
        /\ (Inside(req'[r]) <=> Inside(req[r]))
        /\ (Failed(req'[r]) <=> Failed(req[r]))
        /\ \A a \in Agent : ServedBy(req'[r], a) <=> ServedBy(req[r], a)
    BY <1>b, <1>3, <2>0, <2>1 DEF At, Kind, Shape, Kept, Failure, Slotted, Inside, Failed, ServedBy, Await, counts
  <2>3. UNCHANGED inflight
    BY <1>3, <2>0 DEF Await, counts
  <2>. QED
    BY <1>a, <1>c, <1>d, <1>3, <2>0, <2>1, <2>2, <2>3 DEF Moves, Kept, Bit, Fail, Release, Await, counts
<1>4. CASE ClientBegin(r)
  <2>1. Kept(r) /\ req'[r].pc = "pick" /\ req'[r].prov = req[r].prov /\ req'[r].at = req[r].at /\ req'[r].out = req[r].out
    BY <1>a, <1>4, GotoFields DEF Outcome, ClientBegin, counts
  <2>2. /\ Shape(req'[r])
        /\ (Slotted(req'[r]) <=> Slotted(req[r]))
        /\ Inside(req'[r]) /\ ~Inside(req[r])
        /\ (Failed(req'[r]) <=> Failed(req[r]))
        /\ \A a \in Agent : ServedBy(req'[r], a) <=> ServedBy(req[r], a)
    BY <1>b, <1>4, <2>1 DEF At, Kind, Shape, Kept, Failure, Slotted, Inside, Failed, ServedBy, ClientBegin, counts
  <2>3. UNCHANGED inflight
    BY <1>4 DEF ClientBegin, counts
  <2>. QED
    BY <1>a, <1>c, <1>d, <1>4, <2>1, <2>2, <2>3 DEF Moves, Kept, Bit, Fail, Release, ClientBegin, counts
<1>5. CASE Candidates(r)
  <2>0. At(r, Kind, "pick") /\ req[r].prov \in Provider /\ UNCHANGED counts
    BY <1>b, <1>5 DEF Candidates, At, Shape
  <2>1. Kept(r) /\ req'[r].pc = "try" /\ req'[r].at = req[r].at /\ req'[r].out = req[r].out
    BY <1>a, <2>0, <1>5, CandidatesFields
  <2>2. /\ Shape(req'[r])
        /\ (Slotted(req'[r]) <=> Slotted(req[r]))
        /\ (Inside(req'[r]) <=> Inside(req[r]))
        /\ (Failed(req'[r]) <=> Failed(req[r]))
        /\ \A a \in Agent : ServedBy(req'[r], a) <=> ServedBy(req[r], a)
    BY <1>b, <2>0, <1>5, <2>1 DEF At, Kind, Shape, Kept, Failure, Slotted, Inside, Failed, ServedBy, counts
  <2>3. UNCHANGED inflight
    BY <2>0, <1>5 DEF counts
  <2>. QED
    BY <1>a, <1>c, <1>d, <2>0, <1>5, <2>1, <2>2, <2>3 DEF Moves, Kept, Bit, Fail, Release, counts
<1>6. CASE Exhausted(r)
  <2>0. PICK out \in {"timeout", "none"} : Exit(r, out)
    BY <1>f, <1>6 DEF Exhausted
  <2>a. At(r, Kind, "try") /\ Fail /\ UNCHANGED <<active, inflight, clients>>
    BY <1>6 DEF Exhausted
  <2>1. Kept(r) /\ req'[r].pc = "leave" /\ req'[r].out = out /\ req'[r].at = None
    BY <1>a, <2>a, <2>0, ExitFields DEF Outcome
  <2>2. /\ Shape(req'[r])
        /\ (Slotted(req'[r]) <=> Slotted(req[r]))
        /\ (Inside(req'[r]) <=> Inside(req[r]))
        /\ Failed(req'[r]) /\ ~Failed(req[r])
        /\ \A a \in Agent : ServedBy(req'[r], a) <=> ServedBy(req[r], a)
    BY <1>b, <2>a, <2>0, <2>1 DEF At, Kind, Shape, Kept, Failure, Slotted, Inside, Failed, ServedBy
  <2>3. UNCHANGED inflight
    BY <2>a, <2>0
  <2>. QED
    BY <1>a, <1>c, <1>d, <2>a, <2>0, <2>1, <2>2, <2>3 DEF Moves, Kept, Bit, Fail, Release
<1>7. CASE Forward(r)
  <2>1. Kept(r) /\ req'[r].pc = "sent" /\ req'[r].at = Head(req[r].left)
        /\ Head(req[r].left) \in Agent /\ req'[r].out = req[r].out
    BY <1>a, <1>7, TakeFields DEF Outcome, Forward, counts
  <2>2. /\ Shape(req'[r])
        /\ (Slotted(req'[r]) <=> Slotted(req[r]))
        /\ (Inside(req'[r]) <=> Inside(req[r]))
        /\ (Failed(req'[r]) <=> Failed(req[r]))
        /\ \A a \in Agent : (ServedBy(req'[r], a) <=> a = Head(req[r].left)) /\ ~ServedBy(req[r], a)
        /\ Head(req[r].left) \in Agent
    BY <1>b, <1>7, <2>1 DEF At, Kind, Shape, Kept, Failure, Slotted, Inside, Failed, ServedBy, Forward, counts
  <2>3. inflight' = [a \in Agent |-> inflight[a] + Bit(a = Head(req[r].left))]
    BY <1>a, <1>e, <1>7, <2>2, InflightMoves DEF Forward, counts
  <2>. QED
    BY <1>a, <1>c, <1>d, <1>7, <2>1, <2>2, <2>3 DEF Moves, Kept, Bit, Fail, Release, Forward, counts
<1>8. CASE Answer(r)
  <2>0. At(r, {"json", "call"}, "sent") /\ Sub(req[r].at) /\ UNCHANGED <<active, clients>>
    BY <1>8 DEF Answer
  <2>1. CASE \E late \in {FALSE, req[r].kind = "call"} : NextAgent(r, late) /\ UNCHANGED errors
    <3>0. PICK late \in BOOLEAN : NextAgent(r, late) /\ UNCHANGED errors
      BY <1>f, <1>8, <2>1, Zenon
    <3>1. Kept(r) /\ req'[r].pc = "try" /\ req'[r].at = None /\ req'[r].out = req[r].out
      BY <1>a, <2>0, <2>1, <3>0, NextFields DEF Outcome
    <3>2. /\ Shape(req'[r])
          /\ (Slotted(req'[r]) <=> Slotted(req[r]))
          /\ (Inside(req'[r]) <=> Inside(req[r]))
          /\ (Failed(req'[r]) <=> Failed(req[r]))
          /\ \A a \in Agent : ~ServedBy(req'[r], a) /\ (ServedBy(req[r], a) <=> a = req[r].at)
          /\ req[r].at \in Agent
      BY <1>b, <2>0, <2>1, <3>0, <3>1 DEF At, Kind, Shape, Kept, Failure, Slotted, Inside, Failed, ServedBy
    <3>3. inflight' = [a \in Agent |-> inflight[a] - Bit(a = req[r].at)]
      BY <1>a, <1>e, <2>0, <2>1, <3>0, <3>2, InflightMoves
    <3>. QED
      BY <1>a, <1>c, <1>d, <2>0, <2>1, <3>0, <3>1, <3>2, <3>3 DEF Moves, Kept, Bit, Fail, Release
  <2>2. CASE Exit(r, "served") /\ UNCHANGED errors
    <3>1. Kept(r) /\ req'[r].pc = "leave" /\ req'[r].out = "served" /\ req'[r].at = None
      BY <1>a, <2>0, <2>2, ExitFields DEF Outcome
    <3>2. /\ Shape(req'[r])
          /\ (Slotted(req'[r]) <=> Slotted(req[r]))
          /\ (Inside(req'[r]) <=> Inside(req[r]))
          /\ (Failed(req'[r]) <=> Failed(req[r]))
          /\ \A a \in Agent : ~ServedBy(req'[r], a) /\ (ServedBy(req[r], a) <=> a = req[r].at)
          /\ req[r].at \in Agent
      BY <1>b, <2>0, <2>2, <3>1 DEF At, Kind, Shape, Kept, Failure, Slotted, Inside, Failed, ServedBy
    <3>3. inflight' = [a \in Agent |-> inflight[a] - Bit(a = req[r].at)]
      BY <1>a, <1>e, <2>0, <2>2, <3>2, InflightMoves
    <3>. QED
      BY <1>a, <1>c, <1>d, <2>0, <2>2, <3>1, <3>2, <3>3 DEF Moves, Kept, Bit, Fail, Release
  <2>3. CASE Exit(r, "raised") /\ UNCHANGED errors
    <3>1. Kept(r) /\ req'[r].pc = "leave" /\ req'[r].out = "raised" /\ req'[r].at = None
      BY <1>a, <2>0, <2>3, ExitFields DEF Outcome
    <3>2. /\ Shape(req'[r])
          /\ (Slotted(req'[r]) <=> Slotted(req[r]))
          /\ (Inside(req'[r]) <=> Inside(req[r]))
          /\ (Failed(req'[r]) <=> Failed(req[r]))
          /\ \A a \in Agent : ~ServedBy(req'[r], a) /\ (ServedBy(req[r], a) <=> a = req[r].at)
          /\ req[r].at \in Agent
      BY <1>b, <2>0, <2>3, <3>1 DEF At, Kind, Shape, Kept, Failure, Slotted, Inside, Failed, ServedBy
    <3>3. inflight' = [a \in Agent |-> inflight[a] - Bit(a = req[r].at)]
      BY <1>a, <1>e, <2>0, <2>3, <3>2, InflightMoves
    <3>. QED
      BY <1>a, <1>c, <1>d, <2>0, <2>3, <3>1, <3>2, <3>3 DEF Moves, Kept, Bit, Fail, Release
  <2>4. CASE Exit(r, "bad") /\ Fail
    <3>1. Kept(r) /\ req'[r].pc = "leave" /\ req'[r].out = "bad" /\ req'[r].at = None
      BY <1>a, <2>0, <2>4, ExitFields DEF Outcome
    <3>2. /\ Shape(req'[r])
          /\ (Slotted(req'[r]) <=> Slotted(req[r]))
          /\ (Inside(req'[r]) <=> Inside(req[r]))
          /\ Failed(req'[r]) /\ ~Failed(req[r])
          /\ \A a \in Agent : ~ServedBy(req'[r], a) /\ (ServedBy(req[r], a) <=> a = req[r].at)
          /\ req[r].at \in Agent
      BY <1>b, <2>0, <2>4, <3>1 DEF At, Kind, Shape, Kept, Failure, Slotted, Inside, Failed, ServedBy
    <3>3. inflight' = [a \in Agent |-> inflight[a] - Bit(a = req[r].at)]
      BY <1>a, <1>e, <2>0, <2>4, <3>2, InflightMoves
    <3>. QED
      BY <1>a, <1>c, <1>d, <2>0, <2>4, <3>1, <3>2, <3>3 DEF Moves, Kept, Bit, Fail, Release
  <2>. QED
    BY <1>8, <2>1, <2>2, <2>3, <2>4, Zenon DEF Answer
<1>9. CASE Dial(r)
  <2>1. Kept(r) /\ req'[r].pc = "sent" /\ req'[r].at = Head(req[r].left)
        /\ Head(req[r].left) \in Agent /\ req'[r].out = req[r].out
    BY <1>a, <1>9, TakeFields DEF Outcome, Dial, counts
  <2>2. /\ Shape(req'[r])
        /\ (Slotted(req'[r]) <=> Slotted(req[r]))
        /\ (Inside(req'[r]) <=> Inside(req[r]))
        /\ (Failed(req'[r]) <=> Failed(req[r]))
        /\ \A a \in Agent : ServedBy(req'[r], a) <=> ServedBy(req[r], a)
    BY <1>b, <1>9, <2>1 DEF At, Kind, Shape, Kept, Failure, Slotted, Inside, Failed, ServedBy, Dial, counts
  <2>3. UNCHANGED inflight
    BY <1>9 DEF Dial, counts
  <2>. QED
    BY <1>a, <1>c, <1>d, <1>9, <2>1, <2>2, <2>3 DEF Moves, Kept, Bit, Fail, Release, Dial, counts
<1>10. CASE Dialed(r)
  <2>0. At(r, {"stream", "chat"}, "sent") /\ UNCHANGED <<active, inflight, clients>>
    BY <1>10 DEF Dialed
  <2>1. CASE \E late \in {FALSE, req[r].kind = "chat"} : NextAgent(r, late) /\ UNCHANGED errors
    <3>0. PICK late \in BOOLEAN : NextAgent(r, late) /\ UNCHANGED errors
      BY <1>f, <1>10, <2>1, Zenon
    <3>1. Kept(r) /\ req'[r].pc = "try" /\ req'[r].at = None /\ req'[r].out = req[r].out
      BY <1>a, <2>0, <2>1, <3>0, NextFields DEF Outcome
    <3>2. /\ Shape(req'[r])
          /\ (Slotted(req'[r]) <=> Slotted(req[r]))
          /\ (Inside(req'[r]) <=> Inside(req[r]))
          /\ (Failed(req'[r]) <=> Failed(req[r]))
          /\ \A a \in Agent : ServedBy(req'[r], a) <=> ServedBy(req[r], a)
      BY <1>b, <2>0, <2>1, <3>0, <3>1 DEF At, Kind, Shape, Kept, Failure, Slotted, Inside, Failed, ServedBy
    <3>3. UNCHANGED inflight
      BY <2>0, <2>1, <3>0
    <3>. QED
      BY <1>a, <1>c, <1>d, <2>0, <2>1, <3>0, <3>1, <3>2, <3>3 DEF Moves, Kept, Bit, Fail, Release
  <2>2. CASE Goto(r, IF req[r].kind = "chat" THEN "first" ELSE "open") /\ UNCHANGED errors
    <3>0. PICK pc \in {"first", "open"} : Goto(r, pc) /\ UNCHANGED errors /\ (pc = "first" <=> req[r].kind = "chat")
      BY <1>f, <1>10, <2>2, <2>0, Zenon DEF At, Goto
    <3>1. Kept(r) /\ req'[r].pc = pc /\ req'[r].prov = req[r].prov /\ req'[r].at = req[r].at /\ req'[r].out = req[r].out
      BY <1>a, <2>0, <2>2, <3>0, GotoFields DEF Outcome
    <3>2. /\ Shape(req'[r])
          /\ (Slotted(req'[r]) <=> Slotted(req[r]))
          /\ (Inside(req'[r]) <=> Inside(req[r]))
          /\ (Failed(req'[r]) <=> Failed(req[r]))
          /\ \A a \in Agent : ServedBy(req'[r], a) <=> ServedBy(req[r], a)
      BY <1>b, <2>0, <2>2, <3>0, <3>1 DEF At, Kind, Shape, Kept, Failure, Slotted, Inside, Failed, ServedBy
    <3>3. UNCHANGED inflight
      BY <2>0, <2>2, <3>0
    <3>. QED
      BY <1>a, <1>c, <1>d, <2>0, <2>2, <3>0, <3>1, <3>2, <3>3 DEF Moves, Kept, Bit, Fail, Release
  <2>3. CASE Exit(r, "relayed") /\ UNCHANGED errors
    <3>1. Kept(r) /\ req'[r].pc = "leave" /\ req'[r].out = "relayed" /\ req'[r].at = None
      BY <1>a, <2>0, <2>3, ExitFields DEF Outcome
    <3>2. /\ Shape(req'[r])
          /\ (Slotted(req'[r]) <=> Slotted(req[r]))
          /\ (Inside(req'[r]) <=> Inside(req[r]))
          /\ (Failed(req'[r]) <=> Failed(req[r]))
          /\ \A a \in Agent : ServedBy(req'[r], a) <=> ServedBy(req[r], a)
      BY <1>b, <2>0, <2>3, <3>1 DEF At, Kind, Shape, Kept, Failure, Slotted, Inside, Failed, ServedBy
    <3>3. UNCHANGED inflight
      BY <2>0, <2>3
    <3>. QED
      BY <1>a, <1>c, <1>d, <2>0, <2>3, <3>1, <3>2, <3>3 DEF Moves, Kept, Bit, Fail, Release
  <2>4. CASE Exit(r, "bad") /\ Fail
    <3>1. Kept(r) /\ req'[r].pc = "leave" /\ req'[r].out = "bad" /\ req'[r].at = None
      BY <1>a, <2>0, <2>4, ExitFields DEF Outcome
    <3>2. /\ Shape(req'[r])
          /\ (Slotted(req'[r]) <=> Slotted(req[r]))
          /\ (Inside(req'[r]) <=> Inside(req[r]))
          /\ Failed(req'[r]) /\ ~Failed(req[r])
          /\ \A a \in Agent : ServedBy(req'[r], a) <=> ServedBy(req[r], a)
      BY <1>b, <2>0, <2>4, <3>1 DEF At, Kind, Shape, Kept, Failure, Slotted, Inside, Failed, ServedBy
    <3>3. UNCHANGED inflight
      BY <2>0, <2>4
    <3>. QED
      BY <1>a, <1>c, <1>d, <2>0, <2>4, <3>1, <3>2, <3>3 DEF Moves, Kept, Bit, Fail, Release
  <2>. QED
    BY <1>10, <2>1, <2>2, <2>3, <2>4, Zenon DEF Dialed
<1>11. CASE ChatOpen(r)
  <2>1. Kept(r) /\ req'[r].pc = "stream" /\ req'[r].prov = req[r].prov /\ req'[r].at = req[r].at /\ req'[r].out = req[r].out
    BY <1>a, <1>11, GotoFields DEF Outcome, ChatOpen, counts
  <2>2. /\ Shape(req'[r])
        /\ (Slotted(req'[r]) <=> Slotted(req[r]))
        /\ (Inside(req'[r]) <=> Inside(req[r]))
        /\ (Failed(req'[r]) <=> Failed(req[r]))
        /\ \A a \in Agent : (ServedBy(req'[r], a) <=> a = req[r].at) /\ ~ServedBy(req[r], a)
        /\ req[r].at \in Agent
    BY <1>b, <1>11, <2>1 DEF At, Kind, Shape, Kept, Failure, Slotted, Inside, Failed, ServedBy, ChatOpen, counts
  <2>3. inflight' = [a \in Agent |-> inflight[a] + Bit(a = req[r].at)]
    BY <1>a, <1>e, <1>11, <2>2, InflightMoves DEF ChatOpen, counts
  <2>. QED
    BY <1>a, <1>c, <1>d, <1>11, <2>1, <2>2, <2>3 DEF Moves, Kept, Bit, Fail, Release, ChatOpen, counts
<1>12. CASE ChatEnds(r)
  <2>0. At(r, {"chat"}, "stream") /\ Sub(req[r].at) /\ UNCHANGED <<active, clients>>
    BY <1>12 DEF ChatEnds
  <2>1. CASE NextAgent(r, TRUE) /\ UNCHANGED errors
    <3>1. Kept(r) /\ req'[r].pc = "try" /\ req'[r].at = None /\ req'[r].out = req[r].out
      BY <1>a, <2>0, <2>1, NextFields, Zenon DEF Outcome
    <3>2. /\ Shape(req'[r])
          /\ (Slotted(req'[r]) <=> Slotted(req[r]))
          /\ (Inside(req'[r]) <=> Inside(req[r]))
          /\ (Failed(req'[r]) <=> Failed(req[r]))
          /\ \A a \in Agent : ~ServedBy(req'[r], a) /\ (ServedBy(req[r], a) <=> a = req[r].at)
          /\ req[r].at \in Agent
      BY <1>b, <2>0, <2>1, <3>1 DEF At, Kind, Shape, Kept, Failure, Slotted, Inside, Failed, ServedBy
    <3>3. inflight' = [a \in Agent |-> inflight[a] - Bit(a = req[r].at)]
      BY <1>a, <1>e, <2>0, <2>1, <3>2, InflightMoves
    <3>. QED
      BY <1>a, <1>c, <1>d, <2>0, <2>1, <3>1, <3>2, <3>3 DEF Moves, Kept, Bit, Fail, Release
  <2>2. CASE Exit(r, "served") /\ UNCHANGED errors
    <3>1. Kept(r) /\ req'[r].pc = "leave" /\ req'[r].out = "served" /\ req'[r].at = None
      BY <1>a, <2>0, <2>2, ExitFields DEF Outcome
    <3>2. /\ Shape(req'[r])
          /\ (Slotted(req'[r]) <=> Slotted(req[r]))
          /\ (Inside(req'[r]) <=> Inside(req[r]))
          /\ (Failed(req'[r]) <=> Failed(req[r]))
          /\ \A a \in Agent : ~ServedBy(req'[r], a) /\ (ServedBy(req[r], a) <=> a = req[r].at)
          /\ req[r].at \in Agent
      BY <1>b, <2>0, <2>2, <3>1 DEF At, Kind, Shape, Kept, Failure, Slotted, Inside, Failed, ServedBy
    <3>3. inflight' = [a \in Agent |-> inflight[a] - Bit(a = req[r].at)]
      BY <1>a, <1>e, <2>0, <2>2, <3>2, InflightMoves
    <3>. QED
      BY <1>a, <1>c, <1>d, <2>0, <2>2, <3>1, <3>2, <3>3 DEF Moves, Kept, Bit, Fail, Release
  <2>3. CASE Exit(r, "dropped") /\ Fail
    <3>1. Kept(r) /\ req'[r].pc = "leave" /\ req'[r].out = "dropped" /\ req'[r].at = None
      BY <1>a, <2>0, <2>3, ExitFields DEF Outcome
    <3>2. /\ Shape(req'[r])
          /\ (Slotted(req'[r]) <=> Slotted(req[r]))
          /\ (Inside(req'[r]) <=> Inside(req[r]))
          /\ Failed(req'[r]) /\ ~Failed(req[r])
          /\ \A a \in Agent : ~ServedBy(req'[r], a) /\ (ServedBy(req[r], a) <=> a = req[r].at)
          /\ req[r].at \in Agent
      BY <1>b, <2>0, <2>3, <3>1 DEF At, Kind, Shape, Kept, Failure, Slotted, Inside, Failed, ServedBy
    <3>3. inflight' = [a \in Agent |-> inflight[a] - Bit(a = req[r].at)]
      BY <1>a, <1>e, <2>0, <2>3, <3>2, InflightMoves
    <3>. QED
      BY <1>a, <1>c, <1>d, <2>0, <2>3, <3>1, <3>2, <3>3 DEF Moves, Kept, Bit, Fail, Release
  <2>. QED
    BY <1>12, <2>1, <2>2, <2>3, Zenon DEF ChatEnds
<1>13. CASE StreamSlot(r)
  <2>0. At(r, {"stream"}, "open") /\ UNCHANGED <<inflight, clients>>
    BY <1>13 DEF StreamSlot
  <2>1. CASE active < Limit /\ active' = active + 1 /\ Goto(r, "built") /\ UNCHANGED errors
    <3>1. Kept(r) /\ req'[r].pc = "built" /\ req'[r].prov = req[r].prov /\ req'[r].at = req[r].at /\ req'[r].out = req[r].out
      BY <1>a, <2>0, <2>1, GotoFields DEF Outcome
    <3>2. /\ Shape(req'[r])
          /\ Slotted(req'[r]) /\ ~Slotted(req[r])
          /\ (Inside(req'[r]) <=> Inside(req[r]))
          /\ (Failed(req'[r]) <=> Failed(req[r]))
          /\ \A a \in Agent : ServedBy(req'[r], a) <=> ServedBy(req[r], a)
      BY <1>b, <2>0, <2>1, <3>1 DEF At, Kind, Shape, Kept, Failure, Slotted, Inside, Failed, ServedBy
    <3>3. UNCHANGED inflight
      BY <2>0, <2>1
    <3>. QED
      BY <1>a, <1>c, <1>d, <2>0, <2>1, <3>1, <3>2, <3>3 DEF Moves, Kept, Bit, Fail, Release
  <2>2. CASE active >= Limit /\ Exit(r, "busy") /\ Fail /\ UNCHANGED active
    <3>1. Kept(r) /\ req'[r].pc = "leave" /\ req'[r].out = "busy" /\ req'[r].at = None
      BY <1>a, <2>0, <2>2, ExitFields DEF Outcome
    <3>2. /\ Shape(req'[r])
          /\ (Slotted(req'[r]) <=> Slotted(req[r]))
          /\ (Inside(req'[r]) <=> Inside(req[r]))
          /\ Failed(req'[r]) /\ ~Failed(req[r])
          /\ \A a \in Agent : ServedBy(req'[r], a) <=> ServedBy(req[r], a)
      BY <1>b, <2>0, <2>2, <3>1 DEF At, Kind, Shape, Kept, Failure, Slotted, Inside, Failed, ServedBy
    <3>3. UNCHANGED inflight
      BY <2>0, <2>2
    <3>. QED
      BY <1>a, <1>c, <1>d, <2>0, <2>2, <3>1, <3>2, <3>3 DEF Moves, Kept, Bit, Fail, Release
  <2>. QED
    BY <1>13, <2>1, <2>2 DEF StreamSlot, Acquire
<1>14. CASE HandOff(r)
  <2>0. At(r, {"stream"}, "built") /\ UNCHANGED <<clients, errors>>
    BY <1>14 DEF HandOff
  <2>1. CASE Goto(r, "stream") /\ Add(req[r].at, 1) /\ UNCHANGED active
    <3>1. Kept(r) /\ req'[r].pc = "stream" /\ req'[r].prov = req[r].prov /\ req'[r].at = req[r].at /\ req'[r].out = req[r].out
      BY <1>a, <2>0, <2>1, GotoFields DEF Outcome
    <3>2. /\ Shape(req'[r])
          /\ (Slotted(req'[r]) <=> Slotted(req[r]))
          /\ (Inside(req'[r]) <=> Inside(req[r]))
          /\ (Failed(req'[r]) <=> Failed(req[r]))
          /\ \A a \in Agent : (ServedBy(req'[r], a) <=> a = req[r].at) /\ ~ServedBy(req[r], a)
          /\ req[r].at \in Agent
      BY <1>b, <2>0, <2>1, <3>1 DEF At, Kind, Shape, Kept, Failure, Slotted, Inside, Failed, ServedBy
    <3>3. inflight' = [a \in Agent |-> inflight[a] + Bit(a = req[r].at)]
      BY <1>a, <1>e, <2>0, <2>1, <3>2, InflightMoves
    <3>. QED
      BY <1>a, <1>c, <1>d, <2>0, <2>1, <3>1, <3>2, <3>3, SMTT(20) DEF Moves, Kept, Bit, Fail, Release
  <2>2. CASE Exit(r, "raised") /\ Release /\ UNCHANGED inflight
    <3>1. Kept(r) /\ req'[r].pc = "leave" /\ req'[r].out = "raised" /\ req'[r].at = None
      BY <1>a, <2>0, <2>2, ExitFields DEF Outcome
    <3>2. /\ Shape(req'[r])
          /\ ~Slotted(req'[r]) /\ Slotted(req[r])
          /\ (Inside(req'[r]) <=> Inside(req[r]))
          /\ (Failed(req'[r]) <=> Failed(req[r]))
          /\ \A a \in Agent : ServedBy(req'[r], a) <=> ServedBy(req[r], a)
      BY <1>b, <2>0, <2>2, <3>1 DEF At, Kind, Shape, Kept, Failure, Slotted, Inside, Failed, ServedBy
    <3>3. UNCHANGED inflight
      BY <2>0, <2>2
    <3>. QED
      BY <1>a, <1>c, <1>d, <2>0, <2>2, <3>1, <3>2, <3>3 DEF Moves, Kept, Bit, Fail, Release
  <2>. QED
    BY <1>14, <2>1, <2>2 DEF HandOff
<1>15. CASE Closed(r)
  <2>1. Kept(r) /\ req'[r].pc = "slot" /\ req'[r].prov = req[r].prov /\ req'[r].at = req[r].at /\ req'[r].out = req[r].out
    BY <1>a, <1>15, GotoFields DEF Outcome, Closed, counts
  <2>2. /\ Shape(req'[r])
        /\ ~Slotted(req'[r]) /\ Slotted(req[r])
        /\ (Inside(req'[r]) <=> Inside(req[r]))
        /\ (Failed(req'[r]) <=> Failed(req[r]))
        /\ \A a \in Agent : ServedBy(req'[r], a) <=> ServedBy(req[r], a)
    BY <1>b, <1>15, <2>1 DEF At, Kind, Shape, Kept, Failure, Slotted, Inside, Failed, ServedBy, Closed, counts
  <2>3. UNCHANGED inflight
    BY <1>15 DEF Closed, counts
  <2>. QED
    BY <1>a, <1>c, <1>d, <1>15, <2>1, <2>2, <2>3, SMTT(20) DEF Moves, Kept, Bit, Fail, Release, Closed, counts
<1>16. CASE ClosedHost(r)
  <2>1. Kept(r) /\ req'[r].pc = "leave" /\ req'[r].out = "served" /\ req'[r].at = None
    BY <1>a, <1>16, ExitFields DEF Outcome, ClosedHost, counts
  <2>2. /\ Shape(req'[r])
        /\ (Slotted(req'[r]) <=> Slotted(req[r]))
        /\ (Inside(req'[r]) <=> Inside(req[r]))
        /\ (Failed(req'[r]) <=> Failed(req[r]))
        /\ \A a \in Agent : ~ServedBy(req'[r], a) /\ (ServedBy(req[r], a) <=> a = req[r].at)
        /\ req[r].at \in Agent
    BY <1>b, <1>16, <2>1 DEF At, Kind, Shape, Kept, Failure, Slotted, Inside, Failed, ServedBy, ClosedHost, counts
  <2>3. inflight' = [a \in Agent |-> inflight[a] - Bit(a = req[r].at)]
    BY <1>a, <1>e, <1>16, <2>2, InflightMoves DEF ClosedHost, counts
  <2>. QED
    BY <1>a, <1>c, <1>d, <1>16, <2>1, <2>2, <2>3, SMTT(20) DEF Moves, Kept, Bit, Fail, Release, ClosedHost, counts
<1>17. CASE ClientEnd(r)
  <2>1. Kept(r) /\ req'[r].pc = "done" /\ req'[r].prov = req[r].prov /\ req'[r].at = req[r].at /\ req'[r].out = req[r].out
    BY <1>a, <1>17, GotoFields, SMTT(20) DEF Outcome, ClientEnd, counts
  <2>2. /\ Shape(req'[r])
        /\ (Slotted(req'[r]) <=> Slotted(req[r]))
        /\ ~Inside(req'[r]) /\ Inside(req[r])
        /\ (Failed(req'[r]) <=> Failed(req[r]))
        /\ \A a \in Agent : ServedBy(req'[r], a) <=> ServedBy(req[r], a)
    BY <1>b, <1>17, <2>1 DEF At, Kind, Shape, Kept, Failure, Slotted, Inside, Failed, ServedBy, ClientEnd, counts
  <2>3. UNCHANGED inflight
    BY <1>17 DEF ClientEnd, counts
  <2>. QED
    BY <1>a, <1>c, <1>d, <1>17, <2>1, <2>2, <2>3, SMTT(20) DEF Moves, Kept, Bit, Fail, Release, ClientEnd, counts
<1>18. CASE ProxySlot(r)
  <2>0. At(r, {"proxy"}, "new") /\ UNCHANGED <<inflight, clients, errors>>
    BY <1>18 DEF ProxySlot
  <2>1. CASE active < Limit /\ active' = active + 1 /\ Goto(r, "built")
    <3>1. Kept(r) /\ req'[r].pc = "built" /\ req'[r].prov = req[r].prov /\ req'[r].at = req[r].at /\ req'[r].out = req[r].out
      BY <1>a, <2>0, <2>1, GotoFields DEF Outcome
    <3>2. /\ Shape(req'[r])
          /\ Slotted(req'[r]) /\ ~Slotted(req[r])
          /\ (Inside(req'[r]) <=> Inside(req[r]))
          /\ (Failed(req'[r]) <=> Failed(req[r]))
          /\ \A a \in Agent : ServedBy(req'[r], a) <=> ServedBy(req[r], a)
      BY <1>b, <2>0, <2>1, <3>1 DEF At, Kind, Shape, Kept, Failure, Slotted, Inside, Failed, ServedBy
    <3>3. UNCHANGED inflight
      BY <2>0, <2>1
    <3>. QED
      BY <1>a, <1>c, <1>d, <2>0, <2>1, <3>1, <3>2, <3>3 DEF Moves, Kept, Bit, Fail, Release
  <2>2. CASE active >= Limit /\ ProxyEnds(r, "busy") /\ UNCHANGED active
    <3>1. Kept(r) /\ req'[r].pc = "done" /\ req'[r].out = "busy" /\ req'[r].at = req[r].at
      BY <1>a, <2>0, <2>2, DoneFields DEF Outcome
    <3>2. /\ Shape(req'[r])
          /\ (Slotted(req'[r]) <=> Slotted(req[r]))
          /\ (Inside(req'[r]) <=> Inside(req[r]))
          /\ (Failed(req'[r]) <=> Failed(req[r]))
          /\ \A a \in Agent : ServedBy(req'[r], a) <=> ServedBy(req[r], a)
      BY <1>b, <2>0, <2>2, <3>1 DEF At, Kind, Shape, Kept, Failure, Slotted, Inside, Failed, ServedBy
    <3>3. UNCHANGED inflight
      BY <2>0, <2>2
    <3>. QED
      BY <1>a, <1>c, <1>d, <2>0, <2>2, <3>1, <3>2, <3>3, SMTT(20) DEF Moves, Kept, Bit, Fail, Release
  <2>. QED
    BY <1>18, <2>1, <2>2 DEF ProxySlot
<1>19. CASE ProxyDialed(r)
  <2>0. At(r, {"proxy"}, "built") /\ UNCHANGED <<inflight, clients, errors>>
    BY <1>19 DEF ProxyDialed
  <2>1. CASE Goto(r, "stream") /\ UNCHANGED active
    <3>1. Kept(r) /\ req'[r].pc = "stream" /\ req'[r].prov = req[r].prov /\ req'[r].at = req[r].at /\ req'[r].out = req[r].out
      BY <1>a, <2>0, <2>1, GotoFields DEF Outcome
    <3>2. /\ Shape(req'[r])
          /\ (Slotted(req'[r]) <=> Slotted(req[r]))
          /\ (Inside(req'[r]) <=> Inside(req[r]))
          /\ (Failed(req'[r]) <=> Failed(req[r]))
          /\ \A a \in Agent : ServedBy(req'[r], a) <=> ServedBy(req[r], a)
      BY <1>b, <2>0, <2>1, <3>1 DEF At, Kind, Shape, Kept, Failure, Slotted, Inside, Failed, ServedBy
    <3>3. UNCHANGED inflight
      BY <2>0, <2>1
    <3>. QED
      BY <1>a, <1>c, <1>d, <2>0, <2>1, <3>1, <3>2, <3>3 DEF Moves, Kept, Bit, Fail, Release
  <2>2. CASE ProxyEnds(r, "none") /\ Release
    <3>1. Kept(r) /\ req'[r].pc = "done" /\ req'[r].out = "none" /\ req'[r].at = req[r].at
      BY <1>a, <2>0, <2>2, DoneFields DEF Outcome
    <3>2. /\ Shape(req'[r])
          /\ ~Slotted(req'[r]) /\ Slotted(req[r])
          /\ (Inside(req'[r]) <=> Inside(req[r]))
          /\ (Failed(req'[r]) <=> Failed(req[r]))
          /\ \A a \in Agent : ServedBy(req'[r], a) <=> ServedBy(req[r], a)
      BY <1>b, <2>0, <2>2, <3>1 DEF At, Kind, Shape, Kept, Failure, Slotted, Inside, Failed, ServedBy
    <3>3. UNCHANGED inflight
      BY <2>0, <2>2
    <3>. QED
      BY <1>a, <1>c, <1>d, <2>0, <2>2, <3>1, <3>2, <3>3, SMTT(20) DEF Moves, Kept, Bit, Fail, Release
  <2>. QED
    BY <1>19, <2>1, <2>2 DEF ProxyDialed
<1>20. CASE ProxyClosed(r)
  <2>1. Kept(r) /\ req'[r].pc = "done" /\ req'[r].out = "served" /\ req'[r].at = req[r].at
    BY <1>a, <1>20, DoneFields DEF Outcome, ProxyClosed, counts
  <2>2. /\ Shape(req'[r])
        /\ ~Slotted(req'[r]) /\ Slotted(req[r])
        /\ (Inside(req'[r]) <=> Inside(req[r]))
        /\ (Failed(req'[r]) <=> Failed(req[r]))
        /\ \A a \in Agent : ServedBy(req'[r], a) <=> ServedBy(req[r], a)
    BY <1>b, <1>20, <2>1 DEF At, Kind, Shape, Kept, Failure, Slotted, Inside, Failed, ServedBy, ProxyClosed, counts
  <2>3. UNCHANGED inflight
    BY <1>20 DEF ProxyClosed, counts
  <2>. QED
    BY <1>a, <1>c, <1>d, <1>20, <2>1, <2>2, <2>3, SMTT(20) DEF Moves, Kept, Bit, Fail, Release, ProxyClosed, counts
<1>. QED
  BY <1>1, <1>2, <1>3, <1>4, <1>5, <1>6, <1>7, <1>8, <1>9, <1>10, <1>11, <1>12, <1>13, <1>14, <1>15, <1>16, <1>17, <1>18, <1>19, <1>20, Zenon DEF Serve

(* The model index, its refreshers and the bound on its age keep their types. *)
IndexOK ==
    /\ index \in [fresh : BOOLEAN, owner : Provider \cup {None}]
    /\ refreshing \in BOOLEAN
    /\ fan \in [Thread -> {"off", "wait", "fetch"}]
    /\ ages \in 0..MaxAges

(* The model index, the fan-out threads and the clock keep their types.      *)
LEMMA IndexStep ==
    ASSUME IndexOK, Next
    PROVE  IndexOK'
<1>. USE GatewayAssumption DEF IndexOK, Thread
<1>1. CASE Stale
  <2>1. ages' \in 0..MaxAges
    BY <1>1 DEF Stale
  <2>2. index' \in [fresh : BOOLEAN, owner : Provider \cup {None}]
    BY <1>1, Zenon DEF Stale
  <2>. QED
    BY <1>1, <2>1, <2>2 DEF Stale
<1>2. CASE UNCHANGED ages /\ List
  BY <1>2 DEF List
<1>3. ASSUME NEW t \in Thread, UNCHANGED ages, Refresh(t) PROVE IndexOK'
  <2>1. CASE Locked(t)
    BY <1>3, <2>1, Zenon DEF Locked, Over
  <2>2. CASE Fetched(t)
    BY <1>3, <2>2 DEF Fetched, Over
  <2>3. CASE FetchFails(t)
    BY <1>3, <2>3 DEF FetchFails, Over
  <2>. QED
    BY <1>3, <2>1, <2>2, <2>3 DEF Refresh
<1>4. ASSUME NEW r \in Req, UNCHANGED ages, Serve(r) PROVE IndexOK'
  <2>1. CASE UNCHANGED <<index, refreshing, fan>>
    BY <1>4, <2>1
  <2>2. CASE Lookup(r)
    BY <1>4, <2>2, Zenon DEF Lookup, Kick
  <2>. QED
    BY <1>4, <2>1, <2>2, Zenon DEF Serve, Given, Await, ClientBegin, Candidates, Exhausted, Forward, Answer,
        Dial, Dialed, ChatOpen, ChatEnds, StreamSlot, HandOff, Closed, ClosedHost, ClientEnd,
        ProxySlot, ProxyDialed, ProxyClosed
<1>. QED
  BY <1>1, <1>2, <1>3, <1>4, Zenon DEF Next

(* Only a request moves the counters.                                        *)
LEMMA Otherwise ==
    ASSUME Next
    PROVE  UNCHANGED <<req, counts>> \/ \E r \in Req : Serve(r)
BY DEF Next, Stale, List, Refresh, Locked, Fetched, FetchFails

(* No request has come and every counter is zero.                            *)
LEMMA GInvInit == Init => GInv
<1>. SUFFICES ASSUME Init PROVE GInv
  OBVIOUS
<1>1. Cardinality(Req) \in Nat
  BY GatewayAssumption, FS_CardinalityType
<1>2. req \in [Req -> Request] /\ \A r \in Req : req[r].pc = "new" /\ req[r].out = None
  <2>1. req \in [Req -> {[kind |-> k, pc |-> "new", prov |-> None, left |-> <<>>,
                          at |-> None, late |-> FALSE, out |-> None] : k \in Kind}]
    BY Zenon DEF Init
  <2>2. \A k \in Kind : [kind |-> k, pc |-> "new", prov |-> None, left |-> <<>>,
                          at |-> None, late |-> FALSE, out |-> None] \in Request
    BY CandidateLists DEF Request
  <2>3. \A r \in Req : req[r] \in Request /\ req[r].pc = "new" /\ req[r].out = None
    BY <2>1, <2>2
  <2>. QED
    BY <2>1, <2>3
<1>3. \A r \in Req : Shape(req[r])
  BY <1>2 DEF Shape
<1>4. /\ {r \in Req : Slotted(req[r])} = {}
      /\ \A a \in Agent : {r \in Req : ServedBy(req[r], a)} = {}
      /\ {r \in Req : Inside(req[r])} = {}
      /\ {r \in Req : Failed(req[r])} = {}
  BY <1>2, GatewayAssumption DEF Slotted, ServedBy, Inside, Failed, Failure, Outcome
<1>5. active = 0 /\ inflight = [a \in Agent |-> 0] /\ clients = 0 /\ errors = 0
  BY DEF Init
<1>6. TypeOK
  <2>1. /\ active \in 0..Limit /\ inflight \in [Agent -> 0..Cardinality(Req)]
        /\ clients \in 0..Cardinality(Req) /\ errors \in 0..Cardinality(Req)
    BY <1>1, <1>5, GatewayAssumption
  <2>2. index \in [fresh : BOOLEAN, owner : Provider \cup {None}] /\ refreshing \in BOOLEAN
    BY Zenon DEF Init
  <2>3. fan \in [Thread -> {"off", "wait", "fetch"}] /\ ages \in 0..MaxAges
    BY GatewayAssumption DEF Init
  <2>. QED
    BY <1>2, <2>1, <2>2, <2>3 DEF TypeOK
<1>. QED
  BY <1>3, <1>4, <1>5, <1>6, FS_EmptySet DEF GInv, Conserved

(* Every step of a request, of the index and of a refresh keeps the balance  *)
(* of the counters.                                                          *)
LEMMA GInvStep == GInv /\ [Next]_vars => GInv'
<1>. SUFFICES ASSUME GInv, [Next]_vars PROVE GInv'
  OBVIOUS
<1>1. CASE UNCHANGED vars
  BY <1>1 DEF vars, counts, GInv, Conserved, TypeOK
<1>2. CASE Next
  <2>1. IndexOK'
    BY <1>2, IndexStep DEF GInv, Conserved, TypeOK, IndexOK
  <2>2. CASE UNCHANGED <<req, counts>>
    BY <2>1, <2>2 DEF counts, GInv, Conserved, TypeOK, IndexOK
  <2>3. ASSUME NEW r \in Req, Serve(r) PROVE GInv'
    <3>1. Moves(r)
      BY <2>3, ServeStep
    <3>2. TypeOK'
      BY <2>1, <3>1, Balance, Zenon DEF TypeOK, IndexOK
    <3>3. Conserved'
      BY <3>1, <3>2, Balance, Zenon DEF Conserved
    <3>. QED
      BY <3>1, <3>3, Balance, Zenon DEF GInv
  <2>. QED
    BY <1>2, <2>2, <2>3, Otherwise
<1>. QED
  BY <1>1, <1>2

(* The pool, the in-flight counts, the client's count and the error counter  *)
(* of gateway.py, gateway_usage.py and stream_pool.py are at all times what  *)
(* the requests under way hold or were, whatever agents answer and however   *)
(* many requests and agents there are: no way out of a request leaks a slot  *)
(* or gives one back twice, and the pool is never overbooked.                *)
THEOREM Conservation == Spec => []Conserved
<1>1. GInv => Conserved
  BY DEF GInv
<1>. QED
  BY <1>1, GInvInit, GInvStep, PTL DEF Spec
=============================================================================
