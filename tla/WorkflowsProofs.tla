-------------------------- MODULE WorkflowsProofs --------------------------
(***************************************************************************)
(* The audit trail of workflow executions, whatever rules are defined,     *)
(* edited and run by hand and however many requests and nested events are  *)
(* under way.  The invariant relates each dispatch on a stack to the row   *)
(* of the execution it has in hand, and the lead a session believes in to  *)
(* the table.                                                              *)
(***************************************************************************)
EXTENDS Workflows, FiniteSetTheorems, TLAPS

(* The actions that the snapshot of an execution x of rule k[2] lists. *)
ActionsOf(k, x) == Definition[k[2]][x.snapshot.actions].actions

(* Successes, at most one failure, then the actions not run, each step the  *)
(* action of the snapshot, and the counters say as much.                   *)
TrailOf(k, x) ==
  LET n    == Len(ActionsOf(k, x))
      done == x.success + x.failed IN
  /\ x.snapshot.rule = k[2] /\ x.snapshot.actions \in 1 .. Len(Definition[k[2]])
  /\ Len(x.steps) <= n
  /\ x.failed \in {0, 1}
  /\ done <= Len(x.steps) /\ (x.failed = 0 => Len(x.steps) = done)
  /\ \A m \in DOMAIN x.steps :
       /\ x.steps[m].action = ActionsOf(k, x)[m]
       /\ x.steps[m].status = IF m <= x.success THEN "SUCCESS"
                              ELSE IF m = x.success + 1 THEN "FAILED" ELSE "SKIPPED"
  /\ x.status # "SKIPPED" => x.skipped = IF Len(x.steps) > done THEN n - done ELSE 0
  /\ x.status \in {"SUCCESS", "FAILED"} =>
       Len(x.steps) = n /\ (x.status = "FAILED" <=> x.failed = 1)

Loading  == {"select", "conditions", "actions"}
Working  == {"reject", "act", "refresh", "ok", "failed", "skip", "close"}

RowsLoaded(f) ==
  /\ \A n \in DOMAIN f.rules :
       LET x == f.rules[n] IN
         /\ x.row \in 1 .. rule[x.rule]
         /\ f.pc \notin {"select", "conditions"} => x.conditions \in 1 .. rule[x.rule]
         /\ f.pc \notin Loading => x.actions \in 1 .. rule[x.rule]
  /\ \A m, n \in DOMAIN f.rules : f.rules[m].rule = f.rules[n].rule => m = n

Fresh(f) ==
  /\ f.pc \in Loading \cup {"next"} => f.k = 1
  /\ f.pc \in Loading => f.i = 1 /\ \A k \in DOMAIN run : k[1] # f.event
  /\ \A m \in DOMAIN f.rules :
       m > f.i \/ (m = f.i /\ f.pc = "next") => <<f.event, f.rules[m].rule>> \notin DOMAIN run

(* x is the row of the execution that dispatch f has in hand. *)
Hand(f, x) ==
  LET n == Len(ActionsInHand(f)) IN
  /\ x.status = "RUNNING" /\ x.snapshot = Loaded(f)
  /\ f.pc = "reject" => x.steps = <<>>
  /\ f.pc \in {"act", "refresh", "ok", "failed", "skip"} => f.k \in 1 .. n /\ Len(x.steps) = f.k - 1
  /\ f.pc \in {"act", "refresh", "ok", "failed"} => x.failed = 0
  /\ f.pc = "skip" => x.failed = 1
  /\ f.pc = "close" => Len(x.steps) = n

InHand(f) ==
  f.pc \in Working =>
    f.i \in DOMAIN f.rules /\ Key(f) \in DOMAIN run /\ Hand(f, run[Key(f)])

Coherent(l, copy) ==
  copy.version <= lead[l].version /\ (copy.version = lead[l].version => copy = lead[l])

HasFailed(e) == \E k \in DOMAIN run : k[1] = e /\ run[k].status = "FAILED"

(* The copy may be one that the table never took over. *)
Spoilt(f) ==
  \/ f.pc \in {"failed", "skip"}
  \/ f.pc = "close" /\ run[Key(f)].failed = 1
  \/ HasFailed(f.event)

Believes(f) == f.copy = None \/ Coherent(f.lead, f.copy) \/ Spoilt(f)

FrameOK(f) == f.event \in 1 .. events /\ RowsLoaded(f) /\ Fresh(f) /\ InHand(f) /\ Believes(f)

Frames ==
  \A f \in Frame : (\E t \in Threads : \E n \in DOMAIN stack[t] : stack[t][n] = f) => FrameOK(f)

Distinct ==
  \A t, u \in Threads : \A n \in DOMAIN stack[t], m \in DOMAIN stack[u] :
    stack[t][n].event = stack[u][m].event => t = u /\ n = m

Request == [pc : {"new", "done"}]
           \cup [pc : {"write"}, lead : Leads, to : LeadStatus, copy : LeadRow]

Requests ==
  /\ request \in [Threads -> Request]
  /\ \A q \in Request : q.pc = "write" /\ (\E t \in Threads : request[t] = q) =>
       Coherent(q.lead, q.copy) /\ q.to \in ValidTransitions(q.copy.status)

Run == [status : RunStatus, snapshot : RuleLoaded, steps : Seq(StepRow),
        success : Nat, failed : Nat, skipped : Nat]

Types ==
  /\ lead \in [Leads -> LeadRow]
  /\ rule \in [Rules -> Nat] /\ \A r \in Rules : rule[r] <= Len(Definition[r])
  /\ DOMAIN run \subseteq (1 .. events) \X Rules
  /\ \A k \in DOMAIN run : run[k] \in Run
  /\ stack \in [Threads -> Seq(Frame)]
  /\ events \in Nat /\ crashes \in 0 .. MaxCrashes

Trails == \A k \in DOMAIN run : TrailOf(k, run[k])

IInv == Types /\ Trails /\ Frames /\ Distinct /\ Requests /\ OneClaimPerEvent

-----------------------------------------------------------------------------
(* Stacks. *)
LEMMA Replaced ==
  ASSUME NEW S, NEW s \in Seq(S), s # <<>>, NEW g \in S
  PROVE  /\ <<g>> \o Tail(s) \in Seq(S) /\ Len(<<g>> \o Tail(s)) = Len(s)
         /\ (<<g>> \o Tail(s))[1] = g
         /\ \A n \in 2 .. Len(s) : (<<g>> \o Tail(s))[n] = s[n]
  OBVIOUS

LEMMA Pushed ==
  ASSUME NEW S, NEW s \in Seq(S), s # <<>>, NEW g \in S, NEW d \in S
  PROVE  /\ <<d, g>> \o Tail(s) \in Seq(S) /\ Len(<<d, g>> \o Tail(s)) = Len(s) + 1
         /\ (<<d, g>> \o Tail(s))[1] = d /\ (<<d, g>> \o Tail(s))[2] = g
         /\ \A n \in 3 .. Len(s) + 1 : (<<d, g>> \o Tail(s))[n] = s[n - 1]
  OBVIOUS

LEMMA Popped ==
  ASSUME NEW S, NEW s \in Seq(S), s # <<>>
  PROVE  /\ Tail(s) \in Seq(S) /\ Len(Tail(s)) = Len(s) - 1
         /\ \A n \in 1 .. Len(s) - 1 : Tail(s)[n] = s[n + 1]
  OBVIOUS

(* A rule's version is a record of the store. *)
LEMMA Versions ==
  ASSUME NEW r \in Rules, NEW n \in 1 .. Len(Definition[r])
  PROVE  /\ Len(Definition[r]) \in Nat \ {0}
         /\ Definition[r][n] \in RuleVersion
         /\ DOMAIN Definition[r][n].actions = 1 .. Len(Definition[r][n].actions)
         /\ Len(Definition[r][n].actions) \in Nat
         /\ Definition[r][n].actions = <<>> <=> Len(Definition[r][n].actions) = 0
<1>1. Definition[r] \in Seq(RuleVersion) \ {<<>>}
  BY DefinitionAssumption DEF Rules
<1>2. Definition[r][n] \in RuleVersion
  BY <1>1
<1>3. PICK A : Definition[r][n].actions \in Seq(A)
  BY <1>2 DEF RuleVersion
<1> QED BY <1>1, <1>2, <1>3

(* Every nonempty set of numbers has a least one: the finite sets 1 .. n    *)
(* with n in S are well-founded under inclusion.                            *)
LEMMA LeastNumber ==
  ASSUME NEW S \in SUBSET Nat, S # {}
  PROVE  \E x \in S : \A y \in S : x <= y
<1> DEFINE Initial == {1 .. n : n \in S}
           R == StrictSubsetOrdering(Nat)
<1>1. Initial \subseteq FiniteSubsetsOf(Nat) /\ Initial # {}
  <2>1. ASSUME NEW n \in S PROVE IsFiniteSet(1 .. n) /\ 1 .. n \subseteq Nat
    BY FS_Interval
  <2> QED BY <2>1 DEF FiniteSubsetsOf
<1>2. PICK T \in Initial : \A U \in Initial : ~ (<<U, T>> \in R)
  <2>1. IsWellFoundedOn(R, FiniteSubsetsOf(Nat))
    BY FS_StrictSubsetOrderingWellFounded
  <2> HIDE DEF Initial, R
  <2> QED BY <1>1, <2>1, WFMin
<1>3. PICK x \in S : T = 1 .. x
  OBVIOUS
<1>4. ASSUME NEW y \in S, y < x PROVE FALSE
  <2>1. x \in Nat /\ y \in Nat
    OBVIOUS
  <2>2. 1 .. y \subseteq T /\ x \in T /\ x \notin 1 .. y
    BY <1>3, <1>4, <2>1
  <2>3. T \subseteq Nat /\ 1 .. y \subseteq Nat
    BY <1>3, <2>1
  <2>4. <<1 .. y, T>> \in R
    BY <2>2, <2>3 DEF StrictSubsetOrdering
  <2> QED BY <1>2, <2>4
<1> QED BY <1>4

(* Every set of rules can be listed in order: take the last one away from a *)
(* smallest set that could not.                                             *)
LEMMA ListingIs ==
  ASSUME NEW S \in SUBSET Rules
  PROVE  Cardinality(S) \in Nat /\ Listing(S) \in [1 .. Cardinality(S) -> S] /\ InOrder(Listing(S))
<1> DEFINE Listed(T) == \E s \in [1 .. Cardinality(T) -> T] : InOrder(s)
           Sizes     == {Cardinality(T) : T \in {U \in SUBSET Rules : ~ Listed(U)}}
<1>1. Rules \subseteq Nat /\ IsFiniteSet(Rules)
  BY DefinitionAssumption, FS_Interval DEF Rules
<1>2. \A T \in SUBSET Rules : IsFiniteSet(T) /\ Cardinality(T) \in Nat
  BY <1>1, FS_Subset, FS_CardinalityType
<1>3. ASSUME NEW T \in SUBSET Rules, ~ Listed(T) PROVE FALSE
  <2>1. Sizes \in SUBSET Nat /\ Sizes # {}
    BY <1>2, <1>3
  <2>2. PICK c \in Sizes : \A d \in Sizes : c <= d
    <3> HIDE DEF Sizes
    <3> QED BY <2>1, LeastNumber
  <2>3. PICK U \in SUBSET Rules : ~ Listed(U) /\ c = Cardinality(U)
    BY <2>2
  <2>4. U # {}
    <3>1. CASE U = {}
      <4>1. Cardinality(U) = 0
        BY <3>1, FS_EmptySet
      <4>2. [n \in 1 .. 0 |-> n] \in [1 .. Cardinality(U) -> U] /\ InOrder([n \in 1 .. 0 |-> n])
        BY <4>1 DEF InOrder
      <4> QED BY <2>3, <4>2
    <3> QED BY <3>1
  <2>5. PICK u \in U : \A q \in U : q <= u
    <3> DEFINE Bounds == {b \in Nat : \A q \in U : q <= b}
    <3>1. Len(Definition) \in Bounds
      BY DefinitionAssumption DEF Rules
    <3>2. PICK b \in Bounds : \A d \in Bounds : b <= d
      <4>1. Bounds \in SUBSET Nat /\ Bounds # {}
        BY <3>1
      <4> HIDE DEF Bounds
      <4> QED BY <4>1, LeastNumber
    <3>3. CASE b \in U
      BY <3>2, <3>3
    <3>4. CASE b \notin U
      <4>1. PICK q \in U : TRUE
        BY <2>4
      <4>2. b - 1 \in Bounds
        BY <1>1, <3>2, <3>4, <4>1
      <4> QED BY <3>2, <4>2
    <3> QED BY <3>3, <3>4
  <2>6. Cardinality(U \ {u}) = c - 1 /\ c \in Nat /\ U \ {u} \in SUBSET Rules
    BY <1>2, <2>3, <2>5, FS_RemoveElement
  <2>7. PICK s \in [1 .. c - 1 -> U \ {u}] : InOrder(s)
    <3>1. Listed(U \ {u})
      <4>1. Cardinality(U \ {u}) < c
        BY <2>6
      <4>2. ~ Listed(U \ {u}) => Cardinality(U \ {u}) \in Sizes
        BY <2>6
      <4>3. Cardinality(U \ {u}) \in Nat
        BY <1>2, <2>6
      <4> HIDE DEF Sizes, Listed
      <4> QED BY <2>2, <2>6, <4>1, <4>2, <4>3
    <3> QED BY <2>6, <3>1
  <2> DEFINE r == [n \in 1 .. c |-> IF n = c THEN u ELSE s[n]]
  <2>8. r \in [1 .. c -> U]
    BY <2>5, <2>6
  <2>9. InOrder(r)
    <3> SUFFICES ASSUME NEW m \in 1 .. c, NEW n \in 1 .. c, m < n PROVE r[m] < r[n]
      BY DEF InOrder
    <3>1. m \in 1 .. c - 1 /\ s[m] \in U \ {u} /\ U \subseteq Nat
      BY <1>1, <2>6
    <3>2. CASE n = c
      <4>1. r[m] = s[m] /\ r[n] = u
        BY <2>6, <3>1, <3>2
      <4>2. s[m] <= u /\ s[m] # u /\ s[m] \in Nat /\ u \in Nat
        BY <2>5, <3>1
      <4> HIDE DEF r
      <4> QED BY <4>1, <4>2
    <3>3. CASE n # c
      BY <2>6, <2>7, <3>1, <3>3 DEF InOrder
    <3> QED BY <3>2, <3>3
  <2> QED BY <2>3, <2>8, <2>9
<1> QED BY <1>2, <1>3 DEF Listing

-----------------------------------------------------------------------------
(* What a step of the dispatch of event e leaves of the other dispatches. *)
Elsewhere(e) ==
  /\ \A k \in DOMAIN run : k[1] # e => k \in DOMAIN run' /\ run'[k] = run[k]
  /\ \A k \in DOMAIN run' : k[1] # e => k \in DOMAIN run

LeadsMove ==
  \A l \in Leads : \/ lead'[l] = lead[l]
                   \/ lead'[l] \in LeadRow /\ lead'[l].version = lead[l].version + 1

RulesGrow == \A r \in Rules : rule[r] <= rule'[r] /\ rule'[r] \in Nat

Moves(e) == Elsewhere(e) /\ LeadsMove /\ RulesGrow /\ events' \in Nat /\ events <= events'

(* A copy that a later version of the lead has overtaken is no threat. *)
LEMMA CoherentStays ==
  ASSUME Types, NEW l \in Leads, NEW copy \in LeadRow, Coherent(l, copy), LeadsMove
  PROVE  Coherent(l, copy)'
<1>1. lead[l] \in LeadRow
  BY DEF Types
<1>2. CASE lead'[l] = lead[l]
  BY <1>2 DEF Coherent
<1>3. CASE lead'[l] \in LeadRow /\ lead'[l].version = lead[l].version + 1
  BY <1>1, <1>3 DEF Coherent, LeadRow
<1> QED BY <1>2, <1>3 DEF LeadsMove

LEMMA RowsStay ==
  ASSUME Types, NEW f \in Frame, RowsLoaded(f), RulesGrow
  PROVE  RowsLoaded(f)'
<1>1. ASSUME NEW n \in DOMAIN f.rules
      PROVE  /\ f.rules[n] \in RuleLoaded
             /\ rule[f.rules[n].rule] <= rule'[f.rules[n].rule]
             /\ rule[f.rules[n].rule] \in Nat /\ rule'[f.rules[n].rule] \in Nat
  <2>1. f.rules[n] \in RuleLoaded
    BY DEF Frame
  <2> QED BY <2>1 DEF RuleLoaded, RulesGrow, Types
<1>2. ASSUME NEW n \in DOMAIN f.rules
      PROVE  /\ f.rules[n].row \in 1 .. rule'[f.rules[n].rule]
             /\ f.pc \notin {"select", "conditions"} =>
                  f.rules[n].conditions \in 1 .. rule'[f.rules[n].rule]
             /\ f.pc \notin Loading => f.rules[n].actions \in 1 .. rule'[f.rules[n].rule]
  BY <1>1 DEF RowsLoaded, RuleLoaded
<1> QED BY <1>2 DEF RowsLoaded

LEMMA FrameStays ==
  ASSUME Types, NEW f \in Frame, FrameOK(f), NEW e, f.event # e, Moves(e)
  PROVE  FrameOK(f)'
<1>1. RowsLoaded(f)'
  BY RowsStay DEF FrameOK, Moves
<1>2. \A r : /\ <<f.event, r>> \in DOMAIN run' <=> <<f.event, r>> \in DOMAIN run
             /\ <<f.event, r>> \in DOMAIN run => run'[<<f.event, r>>] = run[<<f.event, r>>]
  BY DEF Moves, Elsewhere
<1>3. Fresh(f)'
  BY <1>2 DEF Moves, Elsewhere, FrameOK, Fresh
<1>4. InHand(f)'
  BY <1>2 DEF FrameOK, InHand, Key
<1>5. Believes(f)'
  <2>1. CASE f.copy = None
    BY <2>1 DEF Believes
  <2>2. CASE f.copy # None /\ Coherent(f.lead, f.copy)
    <3>1. f.lead \in Leads /\ f.copy \in LeadRow
      BY <2>2 DEF Frame
    <3> QED BY <2>2, <3>1, CoherentStays DEF Believes, Moves
  <2>3. CASE Spoilt(f)
    <3>1. f.pc = "close" => Key(f) \in DOMAIN run
      BY DEF FrameOK, InHand, Working
    <3>2. HasFailed(f.event) => HasFailed(f.event)'
      BY DEF Moves, Elsewhere, HasFailed
    <3> QED BY <1>2, <2>3, <3>1, <3>2 DEF Believes, Spoilt, HasFailed, Key
  <2> QED BY <2>1, <2>2, <2>3 DEF FrameOK, Believes
<1>6. f.event \in 1 .. events'
  BY DEF FrameOK, Moves, Types
<1> QED BY <1>1, <1>3, <1>4, <1>5, <1>6 DEF FrameOK

Stacks == stack \in [Threads -> Seq(Frame)] /\ Frames /\ Distinct

(* The innermost dispatch of t goes on. *)
LEMMA Goes ==
  ASSUME Types, Frames, Distinct, NEW t \in Threads, Busy(t), NEW g \in Frame,
         g.event = Top(t).event, Becomes(t, g), Moves(Top(t).event), FrameOK(g)'
  PROVE  Stacks'
<1>1. stack[t] \in Seq(Frame) /\ stack[t] # <<>> /\ Top(t) = stack[t][1]
  BY DEF Types, Busy, Top
<1>2. stack' = [stack EXCEPT ![t] = <<g>> \o Tail(stack[t])]
  BY DEF Becomes
<1>3. <<g>> \o Tail(stack[t]) \in Seq(Frame)
  BY <1>1, Replaced
<1>4. stack' \in [Threads -> Seq(Frame)]
  BY <1>2, <1>3 DEF Types
<1>5. ASSUME NEW u \in Threads
      PROVE  /\ DOMAIN stack'[u] = DOMAIN stack[u]
             /\ \A n \in DOMAIN stack[u] :
                  IF u = t /\ n = 1 THEN stack'[u][n] = g ELSE stack'[u][n] = stack[u][n]
  <2>1. CASE u # t
    BY <1>2, <2>1 DEF Types
  <2>2. CASE u = t
    <3>1. stack'[t] = <<g>> \o Tail(stack[t])
      BY <1>2 DEF Types
    <3>2. /\ Len(stack'[t]) = Len(stack[t]) /\ stack'[t][1] = g
          /\ \A n \in 2 .. Len(stack[t]) : stack'[t][n] = stack[t][n]
      BY <1>1, <3>1, Replaced
    <3>3. stack'[t] \in Seq(Frame)
      BY <1>4
    <3> QED BY <1>1, <2>2, <3>2, <3>3
  <2> QED BY <2>1, <2>2
<1>6. 1 \in DOMAIN stack[t]
  BY <1>1
<1>7. ASSUME NEW u \in Threads, NEW n \in DOMAIN stack[u]
      PROVE  stack'[u][n].event = stack[u][n].event
  BY <1>1, <1>5
<1>8. Frames'
  <2> SUFFICES ASSUME NEW h \in Frame, NEW u \in Threads, NEW n \in DOMAIN stack'[u],
                      stack'[u][n] = h
               PROVE  FrameOK(h)'
    BY DEF Frames
  <2>1. n \in DOMAIN stack[u]
    BY <1>5
  <2>2. CASE u = t /\ n = 1
    BY <1>5, <2>1, <2>2
  <2>3. CASE ~(u = t /\ n = 1)
    <3>1. h = stack[u][n]
      BY <1>5, <2>1, <2>3
    <3>2. PICK e : e = Top(t).event
      OBVIOUS
    <3>3. h.event # e /\ FrameOK(h) /\ Moves(e)
      BY <1>1, <1>6, <2>1, <2>3, <3>1, <3>2 DEF Distinct, Frames
    <3> QED BY <3>3, FrameStays
  <2> QED BY <2>2, <2>3
<1>9. Distinct'
  BY <1>5, <1>7 DEF Distinct
<1> QED BY <1>4, <1>8, <1>9 DEF Stacks

(* The innermost dispatch of t returns or is abandoned. *)
LEMMA Returns ==
  ASSUME Types, Frames, Distinct, NEW t \in Threads, Busy(t),
         stack' = [stack EXCEPT ![t] = Tail(@)],
         UNCHANGED <<lead, rule, run, events>>
  PROVE  Stacks'
<1>1. stack[t] \in Seq(Frame) /\ stack[t] # <<>>
  BY DEF Types, Busy
<1>2. stack'[t] = Tail(stack[t])
  BY DEF Types
<1>3. stack' \in [Threads -> Seq(Frame)]
  <2>1. Tail(stack[t]) \in Seq(Frame)
    BY <1>1, Popped
  <2> QED BY <2>1 DEF Types
<1>4. /\ Len(stack'[t]) = Len(stack[t]) - 1
      /\ \A n \in 1 .. Len(stack[t]) - 1 : stack'[t][n] = stack[t][n + 1]
  BY <1>1, <1>2, Popped
<1>5. ASSUME NEW u \in Threads, NEW n \in DOMAIN stack'[u]
      PROVE  LET m == IF u = t THEN n + 1 ELSE n
             IN m \in DOMAIN stack[u] /\ stack'[u][n] = stack[u][m]
  <2>1. CASE u # t
    BY <2>1 DEF Types
  <2>2. CASE u = t
    <3>1. n \in 1 .. Len(stack[t]) - 1 /\ Len(stack[t]) \in Nat
      BY <1>1, <1>3, <1>4, <2>2
    <3> QED BY <1>1, <1>4, <2>2, <3>1
  <2> QED BY <2>1, <2>2
<1>6. Frames'
  <2> SUFFICES ASSUME NEW h \in Frame, NEW u \in Threads, NEW n \in DOMAIN stack'[u],
                      stack'[u][n] = h
               PROVE  FrameOK(h)'
    BY DEF Frames
  <2>1. PICK m \in DOMAIN stack[u] : stack'[u][n] = stack[u][m]
    BY <1>5
  <2>2. FrameOK(h)
    BY <2>1 DEF Frames
  <2> QED BY <2>2 DEF FrameOK, RowsLoaded, Fresh, InHand, Believes, Coherent, Spoilt, HasFailed, Key
<1>7. Distinct'
  <2> SUFFICES ASSUME NEW u \in Threads, NEW v \in Threads,
                      NEW n \in DOMAIN stack'[u], NEW m \in DOMAIN stack'[v],
                      stack'[u][n].event = stack'[v][m].event
               PROVE  u = v /\ n = m
    BY DEF Distinct
  <2>1. n \in Nat /\ m \in Nat
    BY <1>3
  <2> QED BY <1>5, <2>1 DEF Distinct
<1> QED BY <1>3, <1>6, <1>7 DEF Stacks

LEMMA NewDispatch ==
  ASSUME Types, NEW name \in Triggers \cup {Manual}, NEW l \in Leads, NEW d,
         d = Dispatch(name, l), UNCHANGED run, events' = events + 1
  PROVE  /\ d \in Frame /\ d.event = events + 1 /\ FrameOK(d)'
         /\ d.rules = <<>> /\ d.i = 1 /\ d.k = 1 /\ d.copy = None /\ d.pc = "select"
         /\ \A k \in DOMAIN run : k[1] # d.event
<1>1. /\ d.event = events + 1 /\ d.rules = <<>> /\ d.i = 1 /\ d.k = 1
      /\ d.copy = None /\ d.pc = "select"
  BY DEF Dispatch
<1>2. d \in Frame
  <2>1. <<>> \in Seq(RuleLoaded) /\ events + 1 \in Nat
    BY DEF Types
  <2> QED BY <2>1 DEF Dispatch, Frame
<1>3. \A k \in DOMAIN run : k[1] \in 1 .. events
  BY DEF Types
<1>4. \A k \in DOMAIN run : k[1] # d.event
  BY <1>1, <1>3 DEF Types
<1>5. RowsLoaded(d)' /\ Fresh(d)' /\ InHand(d)' /\ Believes(d)'
  BY <1>1, <1>4 DEF RowsLoaded, Fresh, InHand, Believes, Working
<1>6. d.event \in 1 .. events'
  BY <1>1 DEF Types
<1> QED BY <1>1, <1>2, <1>4, <1>5, <1>6 DEF FrameOK

(* The innermost dispatch of t goes on inside publish(). *)
LEMMA Publishes ==
  ASSUME Types, Frames, Distinct, NEW t \in Threads, Busy(t), NEW g \in Frame,
         NEW name \in Triggers, NEW l \in Leads,
         g.event = Top(t).event, Publish(t, g, name, l), UNCHANGED <<rule, run>>,
         LeadsMove, FrameOK(g)'
  PROVE  Stacks'
<1>1. stack[t] \in Seq(Frame) /\ stack[t] # <<>> /\ Top(t) = stack[t][1]
  BY DEF Types, Busy, Top
<1>2. PICK d : d = Dispatch(name, l)
  OBVIOUS
<1>3. /\ stack' = [stack EXCEPT ![t] = <<d, g>> \o Tail(stack[t])]
      /\ events' = events + 1
  BY <1>2 DEF Publish
<1>4. d \in Frame /\ d.event = events + 1 /\ FrameOK(d)'
  BY <1>2, <1>3, NewDispatch
<1>5. <<d, g>> \o Tail(stack[t]) \in Seq(Frame)
  BY <1>1, <1>4, Pushed
<1>6. stack' \in [Threads -> Seq(Frame)]
  BY <1>3, <1>5 DEF Types
<1>7. /\ stack'[t] \in Seq(Frame) /\ Len(stack'[t]) = Len(stack[t]) + 1
      /\ stack'[t][1] = d /\ stack'[t][2] = g
      /\ \A n \in 3 .. Len(stack[t]) + 1 : stack'[t][n] = stack[t][n - 1]
  <2>1. stack'[t] = <<d, g>> \o Tail(stack[t])
    BY <1>3 DEF Types
  <2> QED BY <1>1, <1>4, <2>1, Pushed
<1>8. ASSUME NEW u \in Threads, NEW n \in DOMAIN stack'[u], ~ (u = t /\ n = 1)
      PROVE  LET m == IF u = t THEN n - 1 ELSE n
             IN /\ m \in DOMAIN stack[u] /\ n \in Nat /\ m \in Nat
                /\ IF u = t /\ m = 1 THEN stack'[u][n] = g
                                     ELSE stack'[u][n] = stack[u][m]
  <2>1. CASE u # t
    BY <1>3, <1>6, <2>1 DEF Types
  <2>2. CASE u = t
    <3>1. n \in 2 .. Len(stack[t]) + 1 /\ Len(stack[t]) \in Nat
      BY <1>1, <1>7, <1>8, <2>2
    <3> QED BY <1>1, <1>7, <2>2, <3>1
  <2> QED BY <2>1, <2>2
<1>9. ASSUME NEW u \in Threads, NEW n \in DOMAIN stack'[u], ~ (u = t /\ n = 1)
      PROVE  LET m == IF u = t THEN n - 1 ELSE n
             IN /\ m \in DOMAIN stack[u] /\ n \in Nat
                /\ stack'[u][n].event = stack[u][m].event
                /\ stack[u][m].event \in 1 .. events
  <2>1. PICK m : m = IF u = t THEN n - 1 ELSE n
    OBVIOUS
  <2>2. /\ m \in DOMAIN stack[u] /\ n \in Nat
        /\ IF u = t /\ m = 1 THEN stack'[u][n] = g ELSE stack'[u][n] = stack[u][m]
    BY <1>8, <1>9, <2>1
  <2>3. PICK h \in Frame : h = stack[u][m]
    BY <2>2 DEF Types
  <2>4. h.event \in 1 .. events
    BY <2>2, <2>3 DEF Frames, FrameOK
  <2> QED BY <1>1, <2>1, <2>2, <2>3, <2>4
<1>10. Frames'
  <2> SUFFICES ASSUME NEW h \in Frame, NEW u \in Threads, NEW n \in DOMAIN stack'[u],
                      stack'[u][n] = h
               PROVE  FrameOK(h)'
    BY DEF Frames
  <2>1. CASE u = t /\ n = 1
    BY <1>4, <1>7, <2>1
  <2>2. CASE ~ (u = t /\ n = 1)
    <3>1. PICK m \in DOMAIN stack[u] :
            IF u = t /\ m = 1 THEN stack'[u][n] = g ELSE stack'[u][n] = stack[u][m]
      BY <1>8, <2>2
    <3>2. CASE u = t /\ m = 1
      BY <3>1, <3>2
    <3>3. CASE ~ (u = t /\ m = 1)
      <4>1. PICK e : e = Top(t).event
        OBVIOUS
      <4>2. h = stack[u][m] /\ h.event # e /\ FrameOK(h)
        BY <1>1, <3>1, <3>3, <4>1 DEF Distinct, Frames
      <4>3. Moves(e)
        BY <1>3 DEF Moves, Elsewhere, RulesGrow, Types
      <4> QED BY <4>2, <4>3, FrameStays
    <3> QED BY <3>2, <3>3
  <2> QED BY <2>1, <2>2
<1>11. Distinct'
  <2> SUFFICES ASSUME NEW u \in Threads, NEW v \in Threads,
                      NEW n \in DOMAIN stack'[u], NEW m \in DOMAIN stack'[v],
                      stack'[u][n].event = stack'[v][m].event
               PROVE  u = v /\ n = m
    BY DEF Distinct
  <2>1. CASE (u = t /\ n = 1) \/ (v = t /\ m = 1)
    <3>1. stack'[t][1].event = events + 1 /\ events \in Nat
      BY <1>4, <1>7 DEF Types
    <3> QED BY <1>9, <2>1, <3>1
  <2>2. CASE ~ (u = t /\ n = 1) /\ ~ (v = t /\ m = 1)
    <3>1. PICK i : i = IF u = t THEN n - 1 ELSE n
      OBVIOUS
    <3>2. PICK j : j = IF v = t THEN m - 1 ELSE m
      OBVIOUS
    <3>3. /\ i \in DOMAIN stack[u] /\ j \in DOMAIN stack[v] /\ n \in Nat /\ m \in Nat
          /\ stack[u][i].event = stack[v][j].event
      BY <1>9, <2>2, <3>1, <3>2
    <3>4. u = v /\ i = j
      BY <3>3 DEF Distinct
    <3> QED BY <3>1, <3>2, <3>3, <3>4
  <2> QED BY <2>1, <2>2
<1> QED BY <1>6, <1>10, <1>11 DEF Stacks

(* A request publishes: it has no dispatch under way. *)
LEMMA Starts ==
  ASSUME Types, Frames, Distinct, NEW t \in Threads, NEW d \in Frame,
         d.event = events + 1, stack' = [stack EXCEPT ![t] = <<d>>],
         events' = events + 1, UNCHANGED <<rule, run>>, LeadsMove, FrameOK(d)'
  PROVE  Stacks'
<1>1. stack' \in [Threads -> Seq(Frame)]
  BY DEF Types
<1>2. stack'[t] = <<d>> /\ DOMAIN stack'[t] = {1} /\ stack'[t][1] = d
  BY DEF Types
<1>3. \A u \in Threads : u # t => stack'[u] = stack[u]
  BY DEF Types
<1>4. ASSUME NEW u \in Threads, u # t, NEW n \in DOMAIN stack[u]
      PROVE  stack[u][n].event \in 1 .. events
  <2>1. PICK h \in Frame : h = stack[u][n]
    BY DEF Types
  <2> QED BY <2>1 DEF Frames, FrameOK
<1>5. Frames'
  <2> SUFFICES ASSUME NEW h \in Frame, NEW u \in Threads, NEW n \in DOMAIN stack'[u],
                      stack'[u][n] = h
               PROVE  FrameOK(h)'
    BY DEF Frames
  <2>1. CASE u = t
    BY <1>2, <2>1
  <2>2. CASE u # t
    <3>1. FrameOK(h)
      BY <1>3, <2>2 DEF Frames
    <3>2. PICK e : e = events + 1
      OBVIOUS
    <3>3. h.event # e
      BY <3>1, <3>2 DEF FrameOK, Types
    <3>4. Moves(e)
      BY DEF Moves, Elsewhere, RulesGrow, Types
    <3> QED BY <3>1, <3>3, <3>4, FrameStays
  <2> QED BY <2>1, <2>2
<1>6. Distinct'
  <2> SUFFICES ASSUME NEW u \in Threads, NEW v \in Threads,
                      NEW n \in DOMAIN stack'[u], NEW m \in DOMAIN stack'[v],
                      stack'[u][n].event = stack'[v][m].event
               PROVE  u = v /\ n = m
    BY DEF Distinct
  <2>1. CASE u = t /\ v = t
    BY <1>2, <2>1
  <2>2. CASE u # t /\ v # t
    BY <1>3, <2>2 DEF Distinct
  <2>3. CASE (u = t /\ v # t) \/ (u # t /\ v = t)
    BY <1>2, <1>3, <1>4, <2>3 DEF Types
  <2> QED BY <2>1, <2>2, <2>3
<1> QED BY <1>1, <1>5, <1>6 DEF Stacks

-----------------------------------------------------------------------------
(* Steps that write no execution. *)
LEMMA TopIs ==
  ASSUME IInv, NEW t \in Threads, Busy(t)
  PROVE  \E f \in Frame : f = Top(t) /\ FrameOK(f)
<1>1. stack[t] \in Seq(Frame) /\ stack[t] # <<>> /\ Top(t) = stack[t][1]
  BY DEF IInv, Types, Busy, Top
<1>2. stack[t][1] \in Frame /\ 1 \in DOMAIN stack[t]
  BY <1>1
<1> QED BY <1>1, <1>2 DEF IInv, Frames

LEMMA StackOnly ==
  ASSUME IInv, Stacks', UNCHANGED <<lead, rule, run, request, crashes>>,
         events' \in Nat, events <= events'
  PROVE  IInv'
<1>1. Types'
  <2>1. DOMAIN run \subseteq (1 .. events') \X Rules
    BY DEF IInv, Types
  <2> QED BY <2>1 DEF IInv, Types, Stacks
<1>2. Trails'
  BY DEF IInv, Trails
<1>3. Requests'
  BY DEF IInv, Requests, Coherent
<1>4. OneClaimPerEvent'
  BY DEF IInv, OneClaimPerEvent
<1> QED BY <1>1, <1>2, <1>3, <1>4 DEF IInv, Stacks

AsBefore(g, f) ==
  g.event = f.event /\ g.name = f.name /\ g.lead = f.lead /\ g.rules = f.rules

LEMMA QuietStep ==
  ASSUME IInv, NEW t \in Threads, Busy(t), NEW f \in Frame, f = Top(t),
         NEW g \in Frame, g.event = f.event, Becomes(t, g), FrameOK(g)',
         UNCHANGED <<lead, rule, run, request, events, crashes>>
  PROVE  IInv'
<1>1. PICK e : e = f.event
  OBVIOUS
<1>2. Moves(e)
  BY DEF Moves, Elsewhere, LeadsMove, RulesGrow, IInv, Types
<1>3. Stacks'
  BY <1>1, <1>2, Goes DEF IInv
<1>4. events' \in Nat /\ events <= events'
  BY DEF IInv, Types
<1> QED BY <1>3, <1>4, StackOnly

(* An action of the rule in hand that changes no lead. *)
LEMMA Acts ==
  ASSUME IInv, NEW t \in Threads, Busy(t), NEW f \in Frame, f = Top(t), FrameOK(f),
         f.pc = "act", NEW g \in Frame, AsBefore(g, f), g.i = f.i, g.k = f.k,
         g.pc \in {"act", "ok", "failed"},
         \/ g.copy \in {None, f.copy}
         \/ g.copy \in LeadRow /\ Coherent(f.lead, g.copy),
         Becomes(t, g), UNCHANGED <<lead, rule, run, request, events, crashes>>
  PROVE  IInv'
<1>1. RowsLoaded(g)'
  BY DEF FrameOK, RowsLoaded, AsBefore, Loading
<1>2. Fresh(g)'
  BY DEF FrameOK, Fresh, AsBefore, Loading
<1>3. InHand(g)'
  BY DEF FrameOK, InHand, Hand, AsBefore, Working, Key, Loaded, ActionsInHand
<1>4. Believes(g)'
  BY DEF FrameOK, Believes, Spoilt, HasFailed, AsBefore, Coherent
<1>5. FrameOK(g)'
  BY <1>1, <1>2, <1>3, <1>4 DEF FrameOK, AsBefore
<1> QED BY <1>5, QuietStep DEF AsBefore

LEMMA FrameFields ==
  ASSUME NEW f \in Frame, NEW p, NEW c
  PROVE  /\ p \in {"select", "conditions", "actions", "next", "reject", "act",
                   "refresh", "ok", "failed", "skip", "close"} =>
              /\ [f EXCEPT !.pc = p] \in Frame
              /\ c \in LeadRow \cup {None} => [f EXCEPT !.pc = p, !.copy = c] \in Frame
         /\ c \in LeadRow \cup {None} => [f EXCEPT !.copy = c] \in Frame
         /\ AsBefore([f EXCEPT !.pc = p], f) /\ AsBefore([f EXCEPT !.copy = c], f)
         /\ AsBefore([f EXCEPT !.pc = p, !.copy = c], f)
  BY DEF Frame, AsBefore

LEMMA ActsQuietly ==
  ASSUME IInv, NEW t \in Threads,
         \/ LoadLead(t) \/ NothingToUpdate(t) \/ NotATransition(t)
         \/ ActQuietly(t) \/ Raise(t)
  PROVE  IInv'
<1>1. Busy(t) /\ Top(t).pc = "act" /\ UNCHANGED <<lead, rule, run, request, events, crashes>>
  BY DEF LoadLead, NothingToUpdate, NotATransition, ActQuietly, Raise, Acting, At
<1>2. PICK f \in Frame : f = Top(t) /\ FrameOK(f)
  BY <1>1, TopIs
<1>3. lead[f.lead] \in LeadRow /\ Coherent(f.lead, lead[f.lead])
  BY DEF IInv, Types, Frame, Coherent, LeadRow
<1>4. CASE LoadLead(t)
  <2>1. PICK c : c = lead[f.lead]
    OBVIOUS
  <2> DEFINE g == [f EXCEPT !.copy = c]
  <2>2. g \in Frame /\ AsBefore(g, f)
    BY <1>3, <2>1, FrameFields
  <2>3. g.copy = c /\ g.i = f.i /\ g.k = f.k /\ g.pc = f.pc /\ Becomes(t, g)
    BY <1>2, <1>4, <2>1 DEF Frame, LoadLead
  <2> HIDE DEF g
  <2> QED BY <1>1, <1>2, <1>3, <2>1, <2>2, <2>3, Acts
<1>5. CASE NothingToUpdate(t) \/ NotATransition(t)
  <2>1. PICK p \in {"ok", "failed"}, c \in {None, f.copy} :
          Becomes(t, [f EXCEPT !.pc = p, !.copy = c])
    BY <1>2, <1>5 DEF NothingToUpdate, NotATransition, Kept
  <2> DEFINE g == [f EXCEPT !.pc = p, !.copy = c]
  <2>2. g \in Frame /\ AsBefore(g, f)
    <3>1. c \in LeadRow \cup {None}
      BY DEF Frame
    <3> QED BY <3>1, FrameFields
  <2>3. g.copy = c /\ g.i = f.i /\ g.k = f.k /\ g.pc = p /\ Becomes(t, g)
    BY <2>1 DEF Frame
  <2> HIDE DEF g
  <2> QED BY <1>1, <1>2, <2>2, <2>3, Acts
<1>6. CASE ActQuietly(t) \/ Raise(t)
  <2>1. PICK p \in {"ok", "failed"} : Becomes(t, [f EXCEPT !.pc = p])
    BY <1>2, <1>6 DEF ActQuietly, Raise
  <2> DEFINE g == [f EXCEPT !.pc = p]
  <2>2. g \in Frame /\ AsBefore(g, f)
    BY FrameFields
  <2>3. g.copy = f.copy /\ g.i = f.i /\ g.k = f.k /\ g.pc = p /\ Becomes(t, g)
    BY <2>1 DEF Frame
  <2> HIDE DEF g
  <2> QED BY <1>1, <1>2, <2>2, <2>3, Acts
<1> QED BY <1>4, <1>5, <1>6

(* The loop goes on to the next rule. *)
LEMMA NextRuleIs ==
  ASSUME NEW f \in Frame
  PROVE  /\ NextRule(f) \in Frame /\ AsBefore(NextRule(f), f)
         /\ NextRule(f).i = f.i + 1 /\ NextRule(f).k = 1
         /\ NextRule(f).pc = "next" /\ NextRule(f).copy = f.copy
<1>1. PICK i \in Nat \ {0}, k \in Nat : i = f.i + 1 /\ k = 1
  BY DEF Frame
<1>2. NextRule(f) = [f EXCEPT !.i = i, !.k = k, !.pc = "next"]
  BY <1>1 DEF NextRule
<1> QED BY <1>1, <1>2 DEF Frame, AsBefore

LEMMA PassOverKeeps ==
  ASSUME IInv, NEW t \in Threads, PassOver(t)
  PROVE  IInv'
<1>1. /\ Busy(t) /\ Top(t).pc = "next" /\ Becomes(t, NextRule(Top(t)))
      /\ UNCHANGED <<lead, rule, run, request, events, crashes>>
  BY DEF PassOver, HasRule, At
<1>2. PICK f \in Frame : f = Top(t) /\ FrameOK(f)
  BY <1>1, TopIs
<1>3. PICK g \in Frame : g = NextRule(f)
  BY NextRuleIs
<1>4. /\ AsBefore(g, f) /\ g.i = f.i + 1 /\ g.k = 1 /\ g.pc = "next" /\ g.copy = f.copy
      /\ f.pc = "next" /\ f.i \in Nat /\ f.rules \in Seq(RuleLoaded)
  BY <1>1, <1>2, <1>3, NextRuleIs DEF Frame
<1>5. RowsLoaded(g)'
  BY <1>1, <1>2, <1>4 DEF FrameOK, RowsLoaded, AsBefore, Loading
<1>6. Fresh(g)'
  <2>1. ASSUME NEW m \in DOMAIN g.rules, m > g.i \/ m = g.i
        PROVE  <<g.event, g.rules[m].rule>> \notin DOMAIN run
    <3>1. m \in Nat /\ m \in DOMAIN f.rules
      BY <1>4 DEF AsBefore
    <3>2. m > f.i
      BY <1>4, <2>1, <3>1
    <3> QED BY <1>2, <1>4, <3>1, <3>2 DEF FrameOK, Fresh, AsBefore
  <2> QED BY <1>1, <1>4, <2>1 DEF Fresh, Loading
<1>7. InHand(g)' /\ Believes(g)'
  BY <1>1, <1>2, <1>4 DEF FrameOK, InHand, Believes, Spoilt, HasFailed, Coherent, AsBefore, Working
<1>8. FrameOK(g)'
  BY <1>1, <1>2, <1>4, <1>5, <1>6, <1>7 DEF FrameOK, AsBefore
<1> QED BY <1>1, <1>2, <1>3, <1>4, <1>8, QuietStep DEF AsBefore

LEMMA MatchingIs ==
  ASSUME IInv, NEW name
  PROVE  /\ Matching(name) \in Seq(RuleLoaded)
         /\ \A n \in DOMAIN Matching(name) :
              LET x == Matching(name)[n] IN x.row \in 1 .. rule[x.rule]
         /\ \A m, n \in DOMAIN Matching(name) :
              Matching(name)[m].rule = Matching(name)[n].rule => m = n
<1> DEFINE S == {r \in Rules : Enabled(r) /\ Current(r).trigger = name}
<1>1. PICK s : s = Listing(S)
  OBVIOUS
<1>2. Cardinality(S) \in Nat /\ s \in [1 .. Cardinality(S) -> S] /\ InOrder(s)
  BY <1>1, ListingIs
<1>3. Matching(name) = [n \in 1 .. Cardinality(S) |-> RowOf(s[n])]
  BY <1>1 DEF Matching
<1>4. ASSUME NEW n \in 1 .. Cardinality(S)
      PROVE  /\ s[n] \in Nat /\ RowOf(s[n]) \in RuleLoaded
             /\ RowOf(s[n]).rule = s[n] /\ RowOf(s[n]).row \in 1 .. rule[s[n]]
  <2>1. s[n] \in Rules /\ rule[s[n]] > 0
    BY <1>2 DEF Enabled
  <2>2. s[n] \in Nat /\ rule[s[n]] \in Nat
    BY <2>1, DefinitionAssumption DEF IInv, Types, Rules
  <2> QED BY <2>1, <2>2 DEF RowOf, RuleLoaded
<1> HIDE DEF S
<1>5. \A m, n \in 1 .. Cardinality(S) : s[m] = s[n] => m = n
  <2> SUFFICES ASSUME NEW m \in 1 .. Cardinality(S), NEW n \in 1 .. Cardinality(S), s[m] = s[n]
               PROVE  m = n
    OBVIOUS
  <2>1. ~ (m < n) /\ ~ (n < m)
    BY <1>2, <1>4 DEF InOrder
  <2> QED BY <1>2, <2>1
<1> QED BY <1>2, <1>3, <1>4, <1>5

LEMMA SelectKeeps ==
  ASSUME IInv, NEW t \in Threads, Select(t)
  PROVE  IInv'
<1>1. /\ Busy(t) /\ Top(t).pc = "select"
      /\ UNCHANGED <<lead, rule, run, request, events, crashes>>
  BY DEF Select, At
<1>2. PICK f \in Frame : f = Top(t) /\ FrameOK(f)
  BY <1>1, TopIs
<1>3. PICK x : x = IF f.name \in Triggers THEN Matching(f.name) ELSE <<>>
  OBVIOUS
<1>4. /\ x \in Seq(RuleLoaded)
      /\ \A n \in DOMAIN x : x[n].row \in 1 .. rule[x[n].rule]
      /\ \A m, n \in DOMAIN x : x[m].rule = x[n].rule => m = n
  <2>1. CASE f.name \in Triggers
    BY <1>3, <2>1, MatchingIs
  <2>2. CASE f.name \notin Triggers
    BY <1>3, <2>2
  <2> QED BY <2>1, <2>2
<1>5. PICK p \in {"next", "conditions"} :
        p = (IF x = <<>> THEN "next" ELSE "conditions")
  OBVIOUS
<1> DEFINE h == [f EXCEPT !.rules = x, !.pc = p]
<1>6. Becomes(t, h)
  BY <1>2, <1>3, <1>5 DEF Select
<1>7. /\ h \in Frame /\ h.event = f.event /\ h.rules = x /\ h.pc = p
      /\ h.i = f.i /\ h.k = f.k /\ h.copy = f.copy /\ h.lead = f.lead
  BY <1>4 DEF Frame
<1>8. PICK g \in Frame : g = h
  BY <1>7
<1> HIDE DEF h
<1>9. f.pc = "select" /\ f.i = 1 /\ f.k = 1 /\ \A k \in DOMAIN run : k[1] # f.event
  BY <1>1, <1>2 DEF FrameOK, Fresh, Loading
<1>10. RowsLoaded(g)'
  BY <1>1, <1>4, <1>5, <1>7, <1>8 DEF RowsLoaded, Loading
<1>11. Fresh(g)'
  BY <1>1, <1>7, <1>8, <1>9 DEF Fresh
<1>12. InHand(g)' /\ Believes(g)'
  BY <1>1, <1>2, <1>5, <1>7, <1>8, <1>9
     DEF FrameOK, InHand, Working, Believes, Coherent, Spoilt, HasFailed
<1>13. FrameOK(g)'
  BY <1>1, <1>2, <1>7, <1>8, <1>10, <1>11, <1>12 DEF FrameOK
<1> QED BY <1>1, <1>2, <1>6, <1>7, <1>8, <1>13, QuietStep

LEMMA SelectConditionsKeeps ==
  ASSUME IInv, NEW t \in Threads, SelectConditions(t)
  PROVE  IInv'
<1>1. /\ Busy(t) /\ Top(t).pc = "conditions"
      /\ UNCHANGED <<lead, rule, run, request, events, crashes>>
  BY DEF SelectConditions, At
<1>2. PICK f \in Frame : f = Top(t) /\ FrameOK(f)
  BY <1>1, TopIs
<1>3. PICK x : x = [n \in DOMAIN f.rules |->
                      [f.rules[n] EXCEPT !.conditions = rule[f.rules[n].rule]]]
  OBVIOUS
<1>4. f.rules \in Seq(RuleLoaded) /\ DOMAIN x = DOMAIN f.rules
  BY <1>3 DEF Frame
<1>5. ASSUME NEW n \in DOMAIN x
      PROVE  /\ x[n] \in RuleLoaded /\ x[n].rule = f.rules[n].rule
             /\ x[n].row = f.rules[n].row /\ x[n].row \in 1 .. rule[x[n].rule]
             /\ x[n].conditions \in 1 .. rule[x[n].rule]
  <2>1. f.rules[n] \in RuleLoaded /\ f.rules[n].row \in 1 .. rule[f.rules[n].rule]
    BY <1>2, <1>4, <1>5 DEF FrameOK, RowsLoaded
  <2>2. rule[f.rules[n].rule] \in Nat
    BY <2>1 DEF IInv, Types, RuleLoaded
  <2>3. x[n] = [f.rules[n] EXCEPT !.conditions = rule[f.rules[n].rule]]
    BY <1>3, <1>4
  <2> QED BY <2>1, <2>2, <2>3 DEF RuleLoaded
<1>6. x \in Seq(RuleLoaded)
  <2>1. PICK n \in Nat : DOMAIN f.rules = 1 .. n
    BY <1>4
  <2>2. x \in [1 .. n -> RuleLoaded]
    BY <1>3, <1>5, <2>1
  <2> QED BY <2>1, <2>2
<1> DEFINE h == [f EXCEPT !.pc = "actions", !.rules = x]
<1>7. Becomes(t, h)
  BY <1>2, <1>3 DEF SelectConditions
<1>8. /\ h \in Frame /\ h.event = f.event /\ h.rules = x /\ h.pc = "actions"
      /\ h.i = f.i /\ h.k = f.k /\ h.copy = f.copy /\ h.lead = f.lead
  BY <1>6 DEF Frame
<1>9. PICK g \in Frame : g = h
  BY <1>8
<1> HIDE DEF h
<1>10. f.pc = "conditions" /\ f.i = 1 /\ f.k = 1 /\ \A k \in DOMAIN run : k[1] # f.event
  BY <1>1, <1>2 DEF FrameOK, Fresh, Loading
<1>11. RowsLoaded(g)'
  BY <1>1, <1>2, <1>4, <1>5, <1>8, <1>9 DEF FrameOK, RowsLoaded, Loading
<1>12. Fresh(g)' /\ InHand(g)' /\ Believes(g)'
  BY <1>1, <1>2, <1>8, <1>9, <1>10
     DEF FrameOK, Fresh, InHand, Working, Believes, Coherent, Spoilt, HasFailed
<1>13. FrameOK(g)'
  BY <1>1, <1>2, <1>8, <1>9, <1>11, <1>12 DEF FrameOK
<1> QED BY <1>1, <1>2, <1>7, <1>8, <1>9, <1>13, QuietStep

LEMMA SelectActionsKeeps ==
  ASSUME IInv, NEW t \in Threads, SelectActions(t)
  PROVE  IInv'
<1>1. /\ Busy(t) /\ Top(t).pc = "actions"
      /\ UNCHANGED <<lead, rule, run, request, events, crashes>>
  BY DEF SelectActions, At
<1>2. PICK f \in Frame : f = Top(t) /\ FrameOK(f)
  BY <1>1, TopIs
<1>3. PICK x : x = [n \in DOMAIN f.rules |->
                      [f.rules[n] EXCEPT !.actions = rule[f.rules[n].rule]]]
  OBVIOUS
<1>4. f.rules \in Seq(RuleLoaded) /\ DOMAIN x = DOMAIN f.rules
  BY <1>3 DEF Frame
<1>5. ASSUME NEW n \in DOMAIN x
      PROVE  /\ x[n] \in RuleLoaded /\ x[n].rule = f.rules[n].rule
             /\ x[n].row \in 1 .. rule[x[n].rule]
             /\ x[n].conditions \in 1 .. rule[x[n].rule]
             /\ x[n].actions \in 1 .. rule[x[n].rule]
  <2>1. /\ f.rules[n] \in RuleLoaded /\ f.rules[n].row \in 1 .. rule[f.rules[n].rule]
        /\ f.rules[n].conditions \in 1 .. rule[f.rules[n].rule]
    BY <1>1, <1>2, <1>4, <1>5 DEF FrameOK, RowsLoaded
  <2>2. rule[f.rules[n].rule] \in Nat
    BY <2>1 DEF IInv, Types, RuleLoaded
  <2>3. x[n] = [f.rules[n] EXCEPT !.actions = rule[f.rules[n].rule]]
    BY <1>3, <1>4
  <2> QED BY <2>1, <2>2, <2>3 DEF RuleLoaded
<1>6. x \in Seq(RuleLoaded)
  <2>1. PICK n \in Nat : DOMAIN f.rules = 1 .. n
    BY <1>4
  <2>2. x \in [1 .. n -> RuleLoaded]
    BY <1>3, <1>5, <2>1
  <2> QED BY <2>1, <2>2
<1>7. PICK seen \in LeadRow \cup {None} :
        seen = IF IsLeadEvent(f.name) THEN lead[f.lead] ELSE None
  BY DEF IInv, Types, Frame
<1>8. PICK s \in LeadStatus \cup {None} : s = IF seen = None THEN None ELSE seen.status
  BY DEF LeadRow
<1> DEFINE h == [f EXCEPT !.pc = "next", !.copy = seen, !.after = s, !.rules = x]
<1>9. Becomes(t, h)
  BY <1>2, <1>3, <1>7, <1>8 DEF SelectActions
<1>10. /\ h \in Frame /\ h.event = f.event /\ h.rules = x /\ h.pc = "next"
       /\ h.i = f.i /\ h.k = f.k /\ h.copy = seen /\ h.lead = f.lead
  BY <1>6 DEF Frame
<1>11. PICK g \in Frame : g = h
  BY <1>10
<1> HIDE DEF h
<1>12. f.pc = "actions" /\ f.i = 1 /\ f.k = 1 /\ \A k \in DOMAIN run : k[1] # f.event
  BY <1>1, <1>2 DEF FrameOK, Fresh, Loading
<1>13. RowsLoaded(g)'
  BY <1>1, <1>2, <1>4, <1>5, <1>10, <1>11 DEF FrameOK, RowsLoaded, Loading
<1>14. Fresh(g)' /\ InHand(g)'
  BY <1>1, <1>2, <1>10, <1>11, <1>12 DEF FrameOK, Fresh, InHand, Working, Loading
<1>15. Believes(g)'
  <2>1. f.lead \in Leads /\ lead[f.lead] \in LeadRow
    BY DEF IInv, Types, Frame
  <2>2. seen = None \/ seen = lead[f.lead]
    BY <1>7
  <2> QED BY <1>1, <1>10, <1>11, <2>1, <2>2 DEF Believes, Coherent, LeadRow
<1>16. FrameOK(g)'
  BY <1>1, <1>2, <1>10, <1>11, <1>13, <1>14, <1>15 DEF FrameOK
<1> QED BY <1>1, <1>2, <1>9, <1>10, <1>11, <1>16, QuietStep

LEMMA ReturnKeeps ==
  ASSUME IInv, NEW t \in Threads, Return(t) \/ Starved(t) \/ Broken(t)
  PROVE  IInv'
<1>1. /\ Busy(t) /\ stack' = [stack EXCEPT ![t] = Tail(@)]
      /\ UNCHANGED <<lead, rule, run, request, events, crashes>>
  BY DEF Return, Starved, Dropped, Broken, At
<1>2. Stacks'
  BY <1>1, Returns DEF IInv
<1> QED BY <1>1, <1>2, StackOnly DEF IInv, Types

-----------------------------------------------------------------------------
(* Steps that write the execution in hand. *)
Writes(k, row) ==
  /\ DOMAIN run' = DOMAIN run \cup {k} /\ run'[k] = row
  /\ \A j \in DOMAIN run : j # k => run'[j] = run[j]

LEMMA RunStep ==
  ASSUME IInv, NEW t \in Threads, Busy(t), NEW f \in Frame, f = Top(t), FrameOK(f),
         NEW k, k = Key(f), k \in (1 .. events) \X Rules,
         (k \in DOMAIN run /\ run[k].status = "RUNNING") \/ ~ Duplicate(f),
         NEW row \in Run, TrailOf(k, row), Writes(k, row),
         NEW g \in Frame, g.event = f.event, Becomes(t, g), FrameOK(g)',
         UNCHANGED <<lead, rule, request, events, crashes>>
  PROVE  IInv'
<1>1. PICK e : e = f.event
  OBVIOUS
<1>2. k[1] = e /\ DOMAIN run' = DOMAIN run \cup {k} /\ run'[k] = row
      /\ \A j \in DOMAIN run : j # k => run'[j] = run[j]
  BY <1>1 DEF Key, Writes
<1>3. Moves(e)
  BY <1>2 DEF Moves, Elsewhere, LeadsMove, RulesGrow, IInv, Types
<1>4. Stacks'
  BY <1>1, <1>3, Goes DEF IInv
<1>5. Types'
  BY <1>2, <1>4 DEF IInv, Types, Stacks
<1>6. Trails'
  BY <1>2 DEF IInv, Trails
<1>7. Requests'
  BY DEF IInv, Requests, Coherent
<1>8. OneClaimPerEvent'
  <2> SUFFICES ASSUME NEW i \in DOMAIN run', NEW j \in DOMAIN run', i[1] = j[1],
                      {run'[i].status, run'[j].status} \subseteq {"RUNNING", "SUCCESS"}
               PROVE  i = j
    BY DEF OneClaimPerEvent
  <2>1. CASE i # k /\ j # k
    BY <1>2, <2>1 DEF IInv, OneClaimPerEvent
  <2>2. CASE k \in DOMAIN run /\ run[k].status = "RUNNING"
    BY <1>2, <2>2 DEF IInv, OneClaimPerEvent
  <2>3. CASE ~ Duplicate(f)
    <3>1. ASSUME NEW h \in DOMAIN run', h # k, h[1] = f.event,
                 run'[h].status \in {"RUNNING", "SUCCESS"}
          PROVE  FALSE
      <4>1. h \in DOMAIN run /\ run[h].status \in {"RUNNING", "SUCCESS"}
        BY <1>2, <3>1
      <4> QED BY <2>3, <3>1, <4>1 DEF Duplicate, Claims
    <3>2. /\ run'[i].status \in {"RUNNING", "SUCCESS"}
          /\ run'[j].status \in {"RUNNING", "SUCCESS"}
      OBVIOUS
    <3>3. CASE i # k /\ j = k
      BY <1>1, <1>2, <3>1, <3>2, <3>3
    <3>4. CASE i = k /\ j # k
      BY <1>1, <1>2, <3>1, <3>2, <3>4
    <3> QED BY <2>1, <3>3, <3>4
  <2> QED BY <2>1, <2>2, <2>3
<1> QED BY <1>4, <1>5, <1>6, <1>7, <1>8 DEF IInv, Stacks

(* What a dispatch with an execution in hand knows of it. *)
LEMMA HandIs ==
  ASSUME IInv, NEW f \in Frame, FrameOK(f), f.pc \in Working, NEW k, k = Key(f)
  PROVE  /\ k \in DOMAIN run /\ k \in (1 .. events) \X Rules /\ run[k] \in Run
         /\ Hand(f, run[k]) /\ TrailOf(k, run[k])
         /\ ActionsOf(k, run[k]) = ActionsInHand(f)
         /\ k[1] = f.event /\ k[2] = Loaded(f).rule
         /\ Len(ActionsInHand(f)) \in Nat
         /\ DOMAIN ActionsInHand(f) = 1 .. Len(ActionsInHand(f))
         /\ f.i \in Nat /\ f.k \in Nat
<1>1. k \in DOMAIN run /\ Hand(f, run[k])
  BY DEF FrameOK, InHand
<1>2. k \in (1 .. events) \X Rules /\ run[k] \in Run /\ TrailOf(k, run[k])
  BY <1>1 DEF IInv, Types, Trails
<1>3. k[1] = f.event /\ k[2] = Loaded(f).rule
  BY DEF Key
<1>4. ActionsOf(k, run[k]) = ActionsInHand(f)
  BY <1>1, <1>3 DEF Hand, ActionsOf, ActionsInHand
<1>5. k[2] \in Rules /\ Loaded(f).actions \in 1 .. Len(Definition[k[2]])
  BY <1>1, <1>2 DEF TrailOf, Hand
<1>6. /\ Len(ActionsInHand(f)) \in Nat
      /\ DOMAIN ActionsInHand(f) = 1 .. Len(ActionsInHand(f))
  BY <1>3, <1>5, Versions DEF ActionsInHand
<1> QED BY <1>1, <1>2, <1>3, <1>4, <1>6 DEF Frame

(* The dispatch stays with its execution or goes on to the next rule. *)
LEMMA HandStep ==
  ASSUME IInv, NEW t \in Threads, Busy(t), NEW f \in Frame, f = Top(t), FrameOK(f),
         f.pc \in Working, NEW k, k = Key(f), NEW row \in Run, TrailOf(k, row),
         Writes(k, row), NEW g \in Frame, AsBefore(g, f), g.copy = f.copy, Becomes(t, g),
         \/ g.pc = "next" /\ g.i = f.i + 1 /\ g.k = 1
         \/ g.pc \in Working /\ g.i = f.i /\ Hand(g, row),
         f.pc \in {"failed", "skip"} \/ (f.pc = "close" /\ run[k].failed = 1)
           => \/ g.pc \in {"failed", "skip"}
              \/ g.pc = "close" /\ row.failed = 1
              \/ row.status = "FAILED",
         UNCHANGED <<lead, rule, request, events, crashes>>
  PROVE  IInv'
<1>1. /\ k \in DOMAIN run /\ k \in (1 .. events) \X Rules /\ Hand(f, run[k])
      /\ f.i \in Nat /\ k[1] = f.event
      /\ DOMAIN run' = DOMAIN run /\ run'[k] = row
      /\ \A j \in DOMAIN run : j # k => run'[j] = run[j]
  BY HandIs DEF Writes
<1>2. RowsLoaded(g)'
  BY DEF FrameOK, RowsLoaded, AsBefore, Loading, Working
<1>3. Fresh(g)'
  <2>1. ASSUME NEW m \in DOMAIN g.rules, m > g.i \/ (m = g.i /\ g.pc = "next")
        PROVE  <<g.event, g.rules[m].rule>> \notin DOMAIN run
    <3>1. m \in Nat /\ m \in DOMAIN f.rules
      <4>1. f.rules \in Seq(RuleLoaded) /\ g.rules = f.rules
        BY DEF Frame, AsBefore
      <4> QED BY <4>1
    <3>2. m > f.i
      BY <1>1, <2>1, <3>1 DEF Working
    <3> QED BY <3>1, <3>2 DEF FrameOK, Fresh, AsBefore
  <2> QED BY <1>1, <2>1 DEF Fresh, Loading, Working
<1>4. InHand(g)'
  <2>1. CASE g.pc = "next"
    BY <2>1 DEF InHand, Working
  <2>2. CASE g.pc \in Working /\ g.i = f.i /\ Hand(g, row)
    <3>1. Key(g) = k /\ f.i \in DOMAIN f.rules
      BY <2>2 DEF Key, Loaded, AsBefore, FrameOK, InHand
    <3> QED BY <1>1, <2>2, <3>1 DEF InHand, AsBefore
  <2> QED BY <2>1, <2>2
<1>5. Believes(g)'
  <2>1. CASE f.copy = None \/ Coherent(f.lead, f.copy)
    BY <2>1 DEF Believes, Coherent, AsBefore
  <2>2. CASE HasFailed(f.event)
    <3>1. PICK j \in DOMAIN run : j[1] = f.event /\ run[j].status = "FAILED"
      BY <2>2 DEF HasFailed
    <3>2. j # k
      BY <1>1, <3>1 DEF Hand
    <3> QED BY <1>1, <3>1, <3>2 DEF Believes, Spoilt, HasFailed, AsBefore
  <2>3. CASE f.pc \in {"failed", "skip"} \/ (f.pc = "close" /\ run[k].failed = 1)
    <3>1. CASE g.pc \in {"failed", "skip"}
      BY <3>1 DEF Believes, Spoilt
    <3>2. CASE row.status = "FAILED"
      BY <1>1, <3>2 DEF Believes, Spoilt, HasFailed, AsBefore
    <3>3. CASE g.pc = "close" /\ row.failed = 1
      <4>1. g.i = f.i
        BY <3>3
      <4>2. Key(g) = k
        BY <4>1 DEF Key, Loaded, AsBefore
      <4>3. run'[Key(g)].failed = 1
        BY <1>1, <3>3, <4>2
      <4>4. Spoilt(g)'
        BY <3>3, <4>3 DEF Spoilt
      <4> QED BY <4>4 DEF Believes
    <3> QED BY <2>3, <3>1, <3>2, <3>3
  <2>4. \/ f.copy = None \/ Coherent(f.lead, f.copy)
        \/ HasFailed(f.event)
        \/ f.pc \in {"failed", "skip"}
        \/ f.pc = "close" /\ run[k].failed = 1
    BY DEF FrameOK, Believes, Spoilt
  <2> QED BY <2>1, <2>2, <2>3, <2>4
<1>6. FrameOK(g)'
  BY <1>2, <1>3, <1>4, <1>5 DEF FrameOK, AsBefore
<1> QED BY <1>1, <1>6, RunStep DEF AsBefore, Hand

LEMMA Appended ==
  ASSUME NEW S, NEW s \in Seq(S), NEW e \in S
  PROVE  /\ Append(s, e) \in Seq(S) /\ Len(Append(s, e)) = Len(s) + 1 /\ Len(s) \in Nat
         /\ DOMAIN Append(s, e) = 1 .. Len(s) + 1 /\ DOMAIN s = 1 .. Len(s)
         /\ Append(s, e)[Len(s) + 1] = e
         /\ \A m \in 1 .. Len(s) : Append(s, e)[m] = s[m]
  OBVIOUS

(* One more step keeps the trail. *)
LEMMA TrailGrows ==
  ASSUME NEW k, NEW x \in Run, TrailOf(k, x), x.status = "RUNNING",
         NEW n \in Nat, n = Len(ActionsOf(k, x)), Len(x.steps) < n,
         NEW s \in StepRow, s.action = ActionsOf(k, x)[Len(x.steps) + 1],
         NEW row \in Run, row.status = "RUNNING", row.snapshot = x.snapshot,
         row.steps = Append(x.steps, s),
         \/ /\ s.status = "SUCCESS" /\ x.failed = 0
            /\ row.success = x.success + 1 /\ row.failed = 0 /\ row.skipped = x.skipped
         \/ /\ s.status = "FAILED" /\ x.failed = 0
            /\ row.success = x.success /\ row.failed = 1 /\ row.skipped = x.skipped
         \/ /\ s.status = "SKIPPED" /\ x.failed = 1
            /\ row.success = x.success /\ row.failed = 1
            /\ row.skipped = n - (x.success + x.failed)
  PROVE  TrailOf(k, row)
<1>1. x.steps \in Seq(StepRow) /\ x.success \in Nat /\ row.success \in Nat
  BY DEF Run
<1> DEFINE c == Len(x.steps)
<1>2. /\ c \in Nat /\ DOMAIN x.steps = 1 .. c
      /\ Len(row.steps) = c + 1 /\ DOMAIN row.steps = 1 .. c + 1
      /\ row.steps[c + 1] = s /\ \A m \in 1 .. c : row.steps[m] = x.steps[m]
  BY <1>1, Appended
<1> HIDE DEF c
<1>3. ActionsOf(k, row) = ActionsOf(k, x)
  BY DEF ActionsOf
<1>4. /\ x.success + x.failed <= c /\ x.failed \in {0, 1}
      /\ x.failed = 0 => c = x.success /\ x.skipped = 0
      /\ \A m \in 1 .. c :
           /\ x.steps[m].action = ActionsOf(k, x)[m]
           /\ x.steps[m].status = IF m <= x.success THEN "SUCCESS"
                                  ELSE IF m = x.success + 1 THEN "FAILED" ELSE "SKIPPED"
      /\ x.snapshot.rule = k[2] /\ x.snapshot.actions \in 1 .. Len(Definition[k[2]])
  BY <1>1, <1>2 DEF TrailOf, c
<1>5. c + 1 <= n /\ s.action = ActionsOf(k, x)[c + 1]
  BY <1>2 DEF c
<1>6. /\ row.failed \in {0, 1} /\ row.success + row.failed <= c + 1
      /\ row.failed = 0 => c + 1 = row.success + row.failed
      /\ row.skipped = IF c + 1 > row.success + row.failed
                       THEN n - (row.success + row.failed) ELSE 0
  <2>1. CASE s.status = "SUCCESS"
    BY <1>1, <1>2, <1>4, <2>1
  <2>2. CASE s.status = "FAILED"
    BY <1>1, <1>2, <1>4, <2>2
  <2>3. CASE s.status = "SKIPPED"
    BY <1>1, <1>2, <1>4, <2>3
  <2> QED BY <2>1, <2>2, <2>3
<1>7. ASSUME NEW m \in 1 .. c + 1
      PROVE  /\ row.steps[m].action = ActionsOf(k, row)[m]
             /\ row.steps[m].status = IF m <= row.success THEN "SUCCESS"
                                      ELSE IF m = row.success + 1 THEN "FAILED" ELSE "SKIPPED"
  <2>1. CASE m = c + 1
    <3>1. row.steps[m] = s /\ s.action = ActionsOf(k, row)[m]
      BY <1>2, <1>3, <1>5, <2>1
    <3>2. s.status = IF m <= row.success THEN "SUCCESS"
                     ELSE IF m = row.success + 1 THEN "FAILED" ELSE "SKIPPED"
      BY <1>1, <1>2, <1>4, <2>1
    <3> QED BY <3>1, <3>2
  <2>2. CASE m \in 1 .. c
    BY <1>1, <1>2, <1>3, <1>4, <2>2
  <2> QED BY <1>2, <2>1, <2>2
<1>8. n = Len(ActionsOf(k, row))
  BY <1>3
<1> QED BY <1>2, <1>3, <1>4, <1>5, <1>6, <1>7, <1>8 DEF TrailOf

LEMMA StepIs ==
  ASSUME IInv, NEW f \in Frame, FrameOK(f), f.pc \in {"ok", "failed", "skip"},
         NEW status \in {"SUCCESS", "FAILED", "SKIPPED"}
  PROVE  /\ Step(f, status) \in StepRow
         /\ Step(f, status).action = ActionsInHand(f)[f.k]
         /\ Step(f, status).status = status
<1>1. PICK k : k = Key(f)
  OBVIOUS
<1>2. f.pc \in Working
  BY DEF Working
<1>3. /\ k[2] = Loaded(f).rule /\ Hand(f, run[k]) /\ TrailOf(k, run[k])
      /\ k \in (1 .. events) \X Rules
      /\ DOMAIN ActionsInHand(f) = 1 .. Len(ActionsInHand(f))
  BY <1>1, <1>2, HandIs
<1>4. PICK r \in Rules : \E n \in 1 .. Len(Definition[r]) :
        ActionsInHand(f) = Definition[r][n].actions
  BY <1>3 DEF ActionsInHand, Hand, TrailOf
<1>5. PICK n \in 1 .. Len(Definition[r]) : ActionsInHand(f) = Definition[r][n].actions
  BY <1>4
<1>6. f.k \in DOMAIN Definition[r][n].actions
  BY <1>3, <1>5 DEF Hand
<1>7. Definition[r][n] \in RuleVersion
  BY Versions
<1>8. Definition[r][n].actions \in Seq(ActionRow)
  BY <1>7 DEF RuleVersion
<1>9. Definition[r][n].actions[f.k] \in ActionRow
  BY <1>6, <1>8
<1>10. Step(f, status) = [action |-> Definition[r][n].actions[f.k], status |-> status]
  BY <1>5 DEF Step, Action
<1> QED BY <1>5, <1>9, <1>10 DEF StepRow

(* The row x of dispatch f with one more step. *)
Stepped(f, status, x, row) ==
  /\ row.status = x.status /\ row.snapshot = x.snapshot
  /\ row.steps = Append(x.steps, Step(f, status))
  /\ \/ /\ f.pc = "ok" /\ status = "SUCCESS"
        /\ row.success = x.success + 1 /\ row.failed = x.failed /\ row.skipped = x.skipped
     \/ /\ f.pc = "failed" /\ status = "FAILED"
        /\ row.success = x.success /\ row.failed = x.failed + 1 /\ row.skipped = x.skipped
     \/ /\ f.pc = "skip" /\ status = "SKIPPED"
        /\ row.success = x.success /\ row.failed = x.failed
        /\ row.skipped = Len(ActionsInHand(f)) - (x.success + x.failed)

(* What f becomes: g closes the execution after the last action. *)
MovesOn(f, g) ==
  /\ AsBefore(g, f) /\ g.copy = f.copy /\ g.i = f.i
  /\ \/ AtLast(f) /\ g.pc = "close"
     \/ /\ ~ AtLast(f) /\ g.k = f.k + 1
        /\ g.pc = IF f.pc = "ok" THEN "act" ELSE "skip"

(* An action's step is written: the loop closes the execution after the     *)
(* last one, or goes on with q to the next.                                *)
LEMMA StepKeeps ==
  ASSUME IInv, NEW t \in Threads, Busy(t), NEW f \in Frame, f = Top(t), FrameOK(f),
         f.pc \in {"ok", "failed", "skip"}, NEW k, k = Key(f), NEW status,
         NEW x \in Run, x = run[k], NEW row \in Run, Stepped(f, status, x, row),
         Writes(k, row), NEW g \in Frame, MovesOn(f, g), Becomes(t, g),
         UNCHANGED <<lead, rule, request, events, crashes>>
  PROVE  IInv'
<1>1. /\ f.pc \in Working /\ status \in {"SUCCESS", "FAILED", "SKIPPED"}
      /\ row.status = x.status /\ row.snapshot = x.snapshot
      /\ row.steps = Append(x.steps, Step(f, status))
      /\ AsBefore(g, f) /\ g.copy = f.copy /\ g.i = f.i
  BY DEF Working, Stepped, MovesOn
<1>2. /\ Step(f, status) \in StepRow /\ Step(f, status).status = status
      /\ Step(f, status).action = ActionsInHand(f)[f.k]
  BY <1>1, StepIs
<1>3. PICK n \in Nat : n = Len(ActionsInHand(f))
  BY <1>1, HandIs
<1>4. /\ Hand(f, x) /\ TrailOf(k, x)
      /\ ActionsOf(k, x) = ActionsInHand(f) /\ f.k \in Nat
  BY <1>1, HandIs
<1>5. /\ x.status = "RUNNING" /\ x.snapshot = Loaded(f) /\ f.k \in 1 .. n
      /\ Len(x.steps) = f.k - 1 /\ x.steps \in Seq(StepRow) /\ x.success \in Nat
      /\ x.failed = IF f.pc = "skip" THEN 1 ELSE 0
  BY <1>1, <1>3, <1>4 DEF Hand, Run
<1>6. TrailOf(k, row)
  <2>1. PICK s \in StepRow : s = Step(f, status)
    BY <1>2
  <2>2. s.status = status /\ s.action = ActionsOf(k, x)[Len(x.steps) + 1]
    BY <1>2, <1>4, <1>5, <2>1
  <2>3. /\ n = Len(ActionsOf(k, x)) /\ Len(x.steps) < n
        /\ row.status = "RUNNING" /\ row.snapshot = x.snapshot
        /\ row.steps = Append(x.steps, s)
    BY <1>1, <1>3, <1>4, <1>5, <2>1
  <2>4. \/ /\ s.status = "SUCCESS" /\ x.failed = 0
           /\ row.success = x.success + 1 /\ row.failed = 0 /\ row.skipped = x.skipped
        \/ /\ s.status = "FAILED" /\ x.failed = 0
           /\ row.success = x.success /\ row.failed = 1 /\ row.skipped = x.skipped
        \/ /\ s.status = "SKIPPED" /\ x.failed = 1
           /\ row.success = x.success /\ row.failed = 1
           /\ row.skipped = n - (x.success + x.failed)
    BY <1>3, <1>4, <1>5, <2>2 DEF Stepped
  <2>5. TrailOf(k, x) /\ x.status = "RUNNING"
    BY <1>4, <1>5
  <2> QED BY <2>2, <2>3, <2>4, <2>5, TrailGrows
<1>7. Len(row.steps) = f.k
  BY <1>1, <1>2, <1>5, Appended
<1>8. row.failed = IF f.pc = "ok" THEN 0 ELSE 1
  BY <1>5 DEF Stepped
<1>9. /\ g.pc \in {"close", "act", "skip"}
      /\ \/ f.k = n /\ g.pc = "close"
         \/ f.k # n /\ g.k = f.k + 1 /\ g.pc = IF f.pc = "ok" THEN "act" ELSE "skip"
  BY <1>3 DEF MovesOn, AtLast
<1>10. Hand(g, row)
  <2>1. ActionsInHand(g) = ActionsInHand(f) /\ Loaded(g) = Loaded(f)
    BY <1>1 DEF ActionsInHand, Loaded, AsBefore
  <2>2. row.status = "RUNNING" /\ row.snapshot = Loaded(f)
    BY <1>1, <1>5
  <2>3. CASE f.k = n
    BY <1>3, <1>7, <1>9, <2>1, <2>2, <2>3 DEF Hand
  <2>4. CASE f.k # n
    <3>1. g.k \in 1 .. n /\ Len(row.steps) = g.k - 1
      BY <1>5, <1>7, <1>9, <2>4
    <3> QED BY <1>3, <1>8, <1>9, <2>1, <2>2, <2>4, <3>1 DEF Hand
  <2> QED BY <2>3, <2>4
<1>11. f.pc \in {"failed", "skip"} \/ (f.pc = "close" /\ run[k].failed = 1)
         => \/ g.pc \in {"failed", "skip"}
            \/ g.pc = "close" /\ row.failed = 1
            \/ row.status = "FAILED"
  BY <1>8, <1>9
<1>12. g.pc \in Working
  BY <1>9 DEF Working
<1> QED BY <1>1, <1>6, <1>10, <1>11, <1>12, HandStep

LEMMA AfterStep ==
  ASSUME NEW f \in Frame, NEW q, q = IF f.pc = "ok" THEN "act" ELSE "skip"
  PROVE  \E g \in Frame :
           /\ g = IF AtLast(f) THEN [f EXCEPT !.pc = "close"]
                               ELSE [f EXCEPT !.pc = q, !.k = @ + 1]
           /\ MovesOn(f, g)
<1>1. PICK m \in Nat : m = f.k + 1
  BY DEF Frame
<1>2. CASE AtLast(f)
  <2>1. /\ [f EXCEPT !.pc = "close"] \in Frame /\ AsBefore([f EXCEPT !.pc = "close"], f)
        /\ [f EXCEPT !.pc = "close"].copy = f.copy /\ [f EXCEPT !.pc = "close"].i = f.i
        /\ [f EXCEPT !.pc = "close"].pc = "close"
    BY DEF Frame, AsBefore
  <2> QED BY <1>2, <2>1 DEF MovesOn
<1>3. CASE ~ AtLast(f)
  <2>1. /\ [f EXCEPT !.pc = q, !.k = m] \in Frame
        /\ AsBefore([f EXCEPT !.pc = q, !.k = m], f)
        /\ [f EXCEPT !.pc = q, !.k = m].copy = f.copy
        /\ [f EXCEPT !.pc = q, !.k = m].i = f.i
        /\ [f EXCEPT !.pc = q, !.k = m].pc = q
        /\ [f EXCEPT !.pc = q, !.k = m].k = m
    BY DEF Frame, AsBefore
  <2> QED BY <1>1, <1>3, <2>1 DEF MovesOn
<1> QED BY <1>2, <1>3

LEMMA StepsKeep ==
  ASSUME IInv, NEW t \in Threads, Succeeded(t) \/ Failed(t) \/ SkipStep(t)
  PROVE  IInv'
<1>1. Busy(t) /\ UNCHANGED <<lead, rule, request, events, crashes>>
  BY DEF Succeeded, Failed, SkipStep, At
<1>2. PICK f \in Frame : f = Top(t) /\ FrameOK(f)
  BY <1>1, TopIs
<1>3. PICK k : k = Key(f)
  OBVIOUS
<1>4. f.pc \in {"ok", "failed", "skip"}
  BY <1>2 DEF Succeeded, Failed, SkipStep, At
<1>5. k \in DOMAIN run /\ run[k] \in Run /\ Hand(f, run[k]) /\ TrailOf(k, run[k])
      /\ ActionsOf(k, run[k]) = ActionsInHand(f) /\ Len(ActionsInHand(f)) \in Nat
  BY <1>2, <1>3, <1>4, HandIs DEF Working
<1>6. PICK x \in Run : x = run[k]
  BY <1>5
<1>7. /\ x.steps \in Seq(StepRow) /\ x.success \in Nat /\ x.failed \in Nat
      /\ Len(ActionsInHand(f)) - (x.success + x.failed) \in Nat
  BY <1>5, <1>6 DEF Run, TrailOf
<1>8. ASSUME NEW status \in {"SUCCESS", "FAILED", "SKIPPED"}
      PROVE  Append(x.steps, Step(f, status)) \in Seq(StepRow)
  BY <1>2, <1>4, <1>7, StepIs, Appended
<1>9. CASE Succeeded(t)
  <2>1. f.pc = "ok"
    BY <1>2, <1>9 DEF Succeeded, At
  <2>2. PICK s \in Seq(StepRow), c \in Nat :
          s = Append(x.steps, Step(f, "SUCCESS")) /\ c = x.success + 1
    <3>1. Append(x.steps, Step(f, "SUCCESS")) \in Seq(StepRow)
      BY <1>8
    <3>2. x.success + 1 \in Nat
      BY <1>7
    <3> QED BY <3>1, <3>2
  <2>6. PICK row : row = [x EXCEPT !.steps = s, !.success = c]
    OBVIOUS
  <2>3. /\ row \in Run /\ row.status = x.status /\ row.snapshot = x.snapshot
        /\ row.steps = Append(x.steps, Step(f, "SUCCESS"))
        /\ row.success = x.success + 1 /\ row.failed = x.failed
        /\ row.skipped = x.skipped
    BY <2>2, <2>6 DEF Run
  <2>4. /\ run' = [run EXCEPT ![k].steps   = Append(@, Step(f, "SUCCESS")),
                              ![k].success = @ + 1]
        /\ Becomes(t, IF AtLast(f) THEN [f EXCEPT !.pc = "close"]
                                   ELSE [f EXCEPT !.pc = "act", !.k = @ + 1])
    BY <1>2, <1>3, <1>9 DEF Succeeded
  <2>5. Writes(k, row)
    BY <1>5, <1>6, <2>2, <2>4, <2>6 DEF Writes
  <2>7. PICK q : q = "act"
    OBVIOUS
  <2>8. PICK g \in Frame :
          /\ g = IF AtLast(f) THEN [f EXCEPT !.pc = "close"]
                              ELSE [f EXCEPT !.pc = q, !.k = @ + 1]
          /\ MovesOn(f, g)
    BY <2>1, <2>7, AfterStep
  <2>9. Becomes(t, g)
    BY <2>4, <2>7, <2>8
  <2>10. Stepped(f, "SUCCESS", x, row)
    BY <2>1, <2>3 DEF Stepped
  <2> QED BY <1>1, <1>2, <1>3, <1>4, <1>6, <2>3, <2>5, <2>8, <2>9, <2>10, StepKeeps
<1>10. CASE Failed(t)
  <2>1. f.pc = "failed"
    BY <1>2, <1>10 DEF Failed, At
  <2>2. PICK s \in Seq(StepRow), c \in Nat :
          s = Append(x.steps, Step(f, "FAILED")) /\ c = x.failed + 1
    <3>1. Append(x.steps, Step(f, "FAILED")) \in Seq(StepRow)
      BY <1>8
    <3>2. x.failed + 1 \in Nat
      BY <1>7
    <3> QED BY <3>1, <3>2
  <2>6. PICK row : row = [x EXCEPT !.steps = s, !.failed = c]
    OBVIOUS
  <2>3. /\ row \in Run /\ row.status = x.status /\ row.snapshot = x.snapshot
        /\ row.steps = Append(x.steps, Step(f, "FAILED"))
        /\ row.success = x.success /\ row.failed = x.failed + 1
        /\ row.skipped = x.skipped
    BY <2>2, <2>6 DEF Run
  <2>4. /\ run' = [run EXCEPT ![k].steps  = Append(@, Step(f, "FAILED")),
                              ![k].failed = @ + 1]
        /\ Becomes(t, IF AtLast(f) THEN [f EXCEPT !.pc = "close"]
                                   ELSE [f EXCEPT !.pc = "skip", !.k = @ + 1])
    BY <1>2, <1>3, <1>10 DEF Failed, AfterFailure
  <2>5. Writes(k, row)
    BY <1>5, <1>6, <2>2, <2>4, <2>6 DEF Writes
  <2>7. PICK q : q = "skip"
    OBVIOUS
  <2>8. PICK g \in Frame :
          /\ g = IF AtLast(f) THEN [f EXCEPT !.pc = "close"]
                              ELSE [f EXCEPT !.pc = q, !.k = @ + 1]
          /\ MovesOn(f, g)
    BY <2>1, <2>7, AfterStep
  <2>9. Becomes(t, g)
    BY <2>4, <2>7, <2>8
  <2>10. Stepped(f, "FAILED", x, row)
    BY <2>1, <2>3 DEF Stepped
  <2> QED BY <1>1, <1>2, <1>3, <1>4, <1>6, <2>3, <2>5, <2>8, <2>9, <2>10, StepKeeps
<1>11. CASE SkipStep(t)
  <2>1. f.pc = "skip"
    BY <1>2, <1>11 DEF SkipStep, At
  <2>2. PICK s \in Seq(StepRow), c \in Nat :
          /\ s = Append(x.steps, Step(f, "SKIPPED"))
          /\ c = Len(ActionsInHand(f)) - (x.success + x.failed)
    <3>1. Append(x.steps, Step(f, "SKIPPED")) \in Seq(StepRow)
      BY <1>8
    <3>2. Len(ActionsInHand(f)) - (x.success + x.failed) \in Nat
      BY <1>7
    <3> QED BY <3>1, <3>2
  <2>6. PICK row : row = [x EXCEPT !.steps = s, !.skipped = c]
    OBVIOUS
  <2>3. /\ row \in Run /\ row.status = x.status /\ row.snapshot = x.snapshot
        /\ row.steps = Append(x.steps, Step(f, "SKIPPED"))
        /\ row.success = x.success /\ row.failed = x.failed
        /\ row.skipped = Len(ActionsInHand(f)) - (x.success + x.failed)
    BY <2>2, <2>6 DEF Run
  <2>4. /\ run' = [run EXCEPT ![k].steps   = Append(@, Step(f, "SKIPPED")),
                              ![k].skipped = Len(ActionsInHand(f))
                                             - (run[k].success + run[k].failed)]
        /\ Becomes(t, IF AtLast(f) THEN [f EXCEPT !.pc = "close"]
                                   ELSE [f EXCEPT !.pc = "skip", !.k = @ + 1])
    BY <1>2, <1>3, <1>11 DEF SkipStep, AfterFailure
  <2>5. Writes(k, row)
    BY <1>5, <1>6, <2>2, <2>4, <2>6 DEF Writes
  <2>7. PICK q : q = "skip"
    OBVIOUS
  <2>8. PICK g \in Frame :
          /\ g = IF AtLast(f) THEN [f EXCEPT !.pc = "close"]
                              ELSE [f EXCEPT !.pc = q, !.k = @ + 1]
          /\ MovesOn(f, g)
    BY <2>1, <2>7, AfterStep
  <2>9. Becomes(t, g)
    BY <2>4, <2>7, <2>8
  <2>10. Stepped(f, "SKIPPED", x, row)
    BY <2>1, <2>3 DEF Stepped
  <2> QED BY <1>1, <1>2, <1>3, <1>4, <1>6, <2>3, <2>5, <2>8, <2>9, <2>10, StepKeeps
<1> QED BY <1>9, <1>10, <1>11

LEMMA CloseKeeps ==
  ASSUME IInv, NEW t \in Threads, Close(t) \/ ConditionFalse(t)
  PROVE  IInv'
<1>1. /\ Busy(t) /\ Becomes(t, NextRule(Top(t)))
      /\ UNCHANGED <<lead, rule, request, events, crashes>>
  BY DEF Close, ConditionFalse, At
<1>2. PICK f \in Frame : f = Top(t) /\ FrameOK(f)
  BY <1>1, TopIs
<1>3. PICK k : k = Key(f)
  OBVIOUS
<1>4. f.pc \in {"close", "reject"} /\ f.pc \in Working
  BY <1>2 DEF Close, ConditionFalse, At, Working
<1>5. /\ k \in DOMAIN run /\ run[k] \in Run /\ Hand(f, run[k]) /\ TrailOf(k, run[k])
      /\ ActionsOf(k, run[k]) = ActionsInHand(f) /\ Len(ActionsInHand(f)) \in Nat
  BY <1>2, <1>3, <1>4, HandIs
<1>6. PICK x \in Run : x = run[k]
  BY <1>5
<1>7. /\ x.success \in Nat /\ x.failed \in {0, 1} /\ x.status = "RUNNING"
      /\ x.steps \in Seq(StepRow)
  BY <1>5, <1>6 DEF Run, TrailOf, Hand
<1>8. PICK g \in Frame : g = NextRule(f)
  BY NextRuleIs
<1>9. /\ AsBefore(g, f) /\ g.copy = f.copy /\ g.i = f.i + 1 /\ g.k = 1
      /\ g.pc = "next" /\ Becomes(t, g)
  BY <1>1, <1>2, <1>8, NextRuleIs
<1>10. ASSUME NEW row \in Run, TrailOf(k, row), Writes(k, row),
              f.pc = "close" /\ x.failed = 1 => row.status = "FAILED"
       PROVE  IInv'
  <2>1. f.pc \in {"failed", "skip"} \/ (f.pc = "close" /\ run[k].failed = 1)
          => \/ g.pc \in {"failed", "skip"}
             \/ g.pc = "close" /\ row.failed = 1
             \/ row.status = "FAILED"
    BY <1>4, <1>6, <1>10
  <2> QED BY <1>1, <1>2, <1>3, <1>4, <1>9, <1>10, <2>1, HandStep
<1>11. CASE Close(t)
  <2>1. f.pc = "close"
    BY <1>2, <1>11 DEF Close, At
  <2>2. PICK s \in RunStatus : s = IF x.failed > 0 THEN "FAILED" ELSE "SUCCESS"
    BY DEF RunStatus
  <2>3. PICK row : row = [x EXCEPT !.status = s]
    OBVIOUS
  <2>4. /\ row \in Run /\ row.status = s /\ row.snapshot = x.snapshot
        /\ row.steps = x.steps /\ row.success = x.success
        /\ row.failed = x.failed /\ row.skipped = x.skipped
    BY <2>2, <2>3 DEF Run
  <2>5. s \in {"FAILED", "SUCCESS"} /\ (s = "FAILED" <=> x.failed = 1)
    BY <1>7, <2>2
  <2>6. TrailOf(k, row)
    <3>1. ActionsOf(k, row) = ActionsOf(k, x)
      BY <2>4 DEF ActionsOf
    <3>2. Len(x.steps) = Len(ActionsOf(k, x))
      BY <1>5, <1>6, <2>1 DEF Hand
    <3>3. TrailOf(k, x)
      BY <1>5, <1>6
    <3> QED BY <1>7, <2>4, <2>5, <3>1, <3>2, <3>3 DEF TrailOf
  <2>7. run' = [run EXCEPT ![k].status = IF run[k].failed > 0 THEN "FAILED" ELSE "SUCCESS"]
    BY <1>2, <1>3, <1>11 DEF Close
  <2>8. Writes(k, row)
    BY <1>5, <1>6, <2>2, <2>3, <2>7 DEF Writes
  <2> QED BY <1>10, <2>4, <2>5, <2>6, <2>8
<1>12. CASE ConditionFalse(t)
  <2>1. f.pc = "reject"
    BY <1>2, <1>12 DEF ConditionFalse, At
  <2>2. PICK n \in Nat : n = Len(ActionsInHand(f))
    BY <1>5
  <2>3. PICK row : row = [x EXCEPT !.status = "SKIPPED", !.skipped = n]
    OBVIOUS
  <2>4. /\ row \in Run /\ row.status = "SKIPPED" /\ row.snapshot = x.snapshot
        /\ row.steps = x.steps /\ row.success = x.success /\ row.failed = x.failed
    BY <2>3 DEF Run, RunStatus
  <2>5. TrailOf(k, row)
    <3>1. ActionsOf(k, row) = ActionsOf(k, x)
      BY <2>4 DEF ActionsOf
    <3>2. TrailOf(k, x)
      BY <1>5, <1>6
    <3> QED BY <1>7, <2>4, <3>1, <3>2 DEF TrailOf
  <2>6. run' = [run EXCEPT ![k].status  = "SKIPPED",
                           ![k].skipped = Len(ActionsInHand(f))]
    BY <1>2, <1>3, <1>12 DEF ConditionFalse
  <2>7. Writes(k, row)
    BY <1>5, <1>6, <2>2, <2>3, <2>6 DEF Writes
  <2> QED BY <1>10, <2>1, <2>4, <2>5, <2>7
<1> QED BY <1>11, <1>12

LEMMA BeginKeeps ==
  ASSUME IInv, NEW t \in Threads, Begin(t)
  PROVE  IInv'
<1>1. /\ Busy(t) /\ Top(t).pc = "next" /\ Top(t).i <= Len(Top(t).rules)
      /\ UNCHANGED <<lead, rule, request, events, crashes>>
  BY DEF Begin, HasRule, At
<1>2. PICK f \in Frame : f = Top(t) /\ FrameOK(f)
  BY <1>1, TopIs
<1>3. PICK k : k = Key(f)
  OBVIOUS
<1>4. PICK p \in {"reject", "close", "act"} :
        /\ p = IF f.after \notin ConditionInHand(f) THEN "reject"
               ELSE IF ActionsInHand(f) = <<>> THEN "close" ELSE "act"
  OBVIOUS
<1>5. PICK row : row = [status |-> "RUNNING", snapshot |-> Loaded(f),
                        steps |-> <<>>, success |-> 0, failed |-> 0, skipped |-> 0]
  OBVIOUS
<1>6. /\ ~ Duplicate(f) /\ Becomes(t, [f EXCEPT !.pc = p])
      /\ run' = [j \in DOMAIN run \cup {k} |-> IF j = k THEN row ELSE run[j]]
  BY <1>2, <1>3, <1>4, <1>5 DEF Begin
<1>7. f.i \in DOMAIN f.rules /\ f.rules \in Seq(RuleLoaded) /\ f.k \in Nat
  <2>1. f.rules \in Seq(RuleLoaded) /\ f.i \in Nat \ {0} /\ f.k \in Nat
    BY DEF Frame
  <2> QED BY <1>1, <1>2, <2>1
<1>8. /\ Loaded(f) \in RuleLoaded /\ Loaded(f).rule \in Rules
      /\ Loaded(f).actions \in 1 .. Len(Definition[Loaded(f).rule])
  <2>1. Loaded(f) \in RuleLoaded /\ Loaded(f).rule \in Rules
    <3>1. f.rules[f.i] \in RuleLoaded
      BY <1>7
    <3> QED BY <3>1 DEF Loaded, RuleLoaded
  <2>2. Loaded(f).actions \in 1 .. rule[Loaded(f).rule]
    BY <1>1, <1>2, <1>7 DEF FrameOK, RowsLoaded, Loaded, Loading
  <2>3. /\ rule[Loaded(f).rule] \in Nat
        /\ rule[Loaded(f).rule] <= Len(Definition[Loaded(f).rule])
    BY <2>1 DEF IInv, Types
  <2>4. Len(Definition[Loaded(f).rule]) \in Nat
    BY <2>1, DefinitionAssumption DEF Rules
  <2> QED BY <2>1, <2>2, <2>3, <2>4
<1>9. k = <<f.event, Loaded(f).rule>> /\ k[1] = f.event /\ k[2] = Loaded(f).rule
      /\ k \in (1 .. events) \X Rules
  BY <1>2, <1>3, <1>8 DEF Key, FrameOK
<1>10. /\ row \in Run /\ row.status = "RUNNING" /\ row.snapshot = Loaded(f)
       /\ row.steps = <<>> /\ row.success = 0 /\ row.failed = 0 /\ row.skipped = 0
  BY <1>5, <1>8 DEF Run, RunStatus
<1>11. /\ ActionsOf(k, row) = ActionsInHand(f) /\ Len(ActionsInHand(f)) \in Nat
       /\ ActionsInHand(f) = <<>> <=> Len(ActionsInHand(f)) = 0
  BY <1>8, <1>9, <1>10, Versions DEF ActionsOf, ActionsInHand
<1>12. TrailOf(k, row)
  BY <1>8, <1>9, <1>10, <1>11 DEF TrailOf
<1>13. Writes(k, row)
  BY <1>6 DEF Writes
<1>14. PICK g \in Frame : g = [f EXCEPT !.pc = p]
  BY DEF Frame
<1>15. AsBefore(g, f) /\ g.copy = f.copy /\ g.i = f.i /\ g.k = f.k /\ g.pc = p
  BY <1>14 DEF Frame, AsBefore
<1>16. k \notin DOMAIN run
  BY <1>1, <1>2, <1>7, <1>9 DEF FrameOK, Fresh, Loaded
<1>17. RowsLoaded(g)'
  BY <1>1, <1>2, <1>15 DEF FrameOK, RowsLoaded, AsBefore, Loading
<1>18. Fresh(g)'
  <2>1. ASSUME NEW m \in DOMAIN f.rules, m > f.i
        PROVE  <<f.event, f.rules[m].rule>> \notin DOMAIN run'
    <3>1. m # f.i
      BY <1>7, <2>1
    <3>2. f.rules[m].rule # f.rules[f.i].rule
      BY <1>2, <1>7, <3>1 DEF FrameOK, RowsLoaded
    <3>3. <<f.event, f.rules[m].rule>> # k
      BY <1>9, <3>2 DEF Loaded
    <3>4. <<f.event, f.rules[m].rule>> \notin DOMAIN run
      BY <1>2, <2>1 DEF FrameOK, Fresh
    <3> QED BY <1>6, <3>3, <3>4
  <2> QED BY <1>15, <2>1 DEF Fresh, AsBefore, Loading
<1>19. InHand(g)'
  <2>1. Key(g) = k /\ ActionsInHand(g) = ActionsInHand(f) /\ Loaded(g) = Loaded(f)
    BY <1>3, <1>15 DEF AsBefore, Key, Loaded, ActionsInHand
  <2>2. k \in DOMAIN run' /\ run'[k] = row
    BY <1>13 DEF Writes
  <2>3. f.k = 1
    BY <1>1, <1>2 DEF FrameOK, Fresh
  <2>4. p = "close" => Len(ActionsInHand(f)) = 0
    BY <1>4, <1>11
  <2>5. p = "act" => Len(ActionsInHand(f)) # 0
    BY <1>4, <1>11
  <2>6. Hand(g, row)
    BY <1>10, <1>11, <1>15, <2>1, <2>3, <2>4, <2>5 DEF Hand
  <2> QED BY <1>7, <1>15, <2>1, <2>2, <2>6 DEF InHand, AsBefore
<1>20. Believes(g)'
  <2>1. CASE f.copy = None \/ Coherent(f.lead, f.copy)
    BY <1>1, <1>15, <2>1 DEF Believes, Coherent, AsBefore
  <2>2. CASE HasFailed(f.event)
    <3>1. PICK j \in DOMAIN run : j[1] = f.event /\ run[j].status = "FAILED"
      BY <2>2 DEF HasFailed
    <3>2. j \in DOMAIN run' /\ run'[j] = run[j]
      BY <1>6, <1>16, <3>1
    <3> QED BY <1>15, <3>1, <3>2 DEF Believes, Spoilt, HasFailed, AsBefore
  <2>3. f.pc = "next"
    BY <1>1, <1>2
  <2>4. f.copy = None \/ Coherent(f.lead, f.copy) \/ HasFailed(f.event)
    BY <1>2, <2>3 DEF FrameOK, Believes, Spoilt
  <2> QED BY <2>1, <2>2, <2>4
<1>21. FrameOK(g)'
  BY <1>1, <1>2, <1>15, <1>17, <1>18, <1>19, <1>20 DEF FrameOK, AsBefore
<1>22. g.event = f.event /\ Becomes(t, g)
  BY <1>6, <1>14, <1>15 DEF AsBefore
<1> QED BY <1>1, <1>2, <1>3, <1>6, <1>9, <1>10, <1>12, <1>13, <1>21, <1>22, RunStep

-----------------------------------------------------------------------------
(* Steps that change a lead, and those of clients. *)
LEMMA TransitionsTyped ==
  ASSUME NEW s \in LeadStatus
  PROVE  ValidTransitions(s) \subseteq LeadStatus
  BY DEF ValidTransitions, LeadStatus

RequestsGoOn ==
  /\ request' \in [Threads -> Request]
  /\ \A t \in Threads : request'[t] = request[t] \/ request'[t].pc # "write"

LEMMA LeadStep ==
  ASSUME IInv, Stacks', lead' \in [Leads -> LeadRow], LeadsMove, RequestsGoOn,
         UNCHANGED <<rule, run, crashes>>, events' \in Nat, events <= events'
  PROVE  IInv'
<1>1. Types'
  <2>1. DOMAIN run \subseteq (1 .. events') \X Rules
    BY DEF IInv, Types
  <2> QED BY <2>1 DEF IInv, Types, Stacks
<1>2. Trails'
  BY DEF IInv, Trails
<1>3. Requests'
  <2>1. ASSUME NEW q \in Request, q.pc = "write", NEW t \in Threads, request'[t] = q
        PROVE  Coherent(q.lead, q.copy)' /\ q.to \in ValidTransitions(q.copy.status)
    <3>1. request[t] = q
      BY <2>1 DEF RequestsGoOn
    <3>2. q.lead \in Leads /\ q.copy \in LeadRow
      BY <2>1 DEF Request
    <3>3. Coherent(q.lead, q.copy) /\ q.to \in ValidTransitions(q.copy.status)
      BY <2>1, <3>1 DEF IInv, Requests
    <3>4. Coherent(q.lead, q.copy)'
      BY <3>2, <3>3, CoherentStays DEF IInv
    <3> QED BY <3>3, <3>4
  <2> QED BY <2>1 DEF Requests, RequestsGoOn
<1>4. OneClaimPerEvent'
  BY DEF IInv, OneClaimPerEvent
<1> QED BY <1>1, <1>2, <1>3, <1>4 DEF IInv, Stacks

LEMMA ActIs ==
  ASSUME IInv, NEW f \in Frame, FrameOK(f), f.pc \in {"act", "refresh"},
         NEW g \in Frame, AsBefore(g, f), g.i = f.i, g.k = f.k,
         g.pc \in {"refresh", "ok", "failed"}, UNCHANGED <<rule, run>>,
         events' \in Nat, events <= events', Believes(g)'
  PROVE  FrameOK(g)'
<1>1. RowsLoaded(g)'
  BY DEF FrameOK, RowsLoaded, AsBefore, Loading
<1>2. Fresh(g)'
  BY DEF FrameOK, Fresh, AsBefore, Loading
<1>3. InHand(g)'
  BY DEF FrameOK, InHand, Hand, AsBefore, Working, Key, Loaded, ActionsInHand
<1> QED BY <1>1, <1>2, <1>3 DEF FrameOK, AsBefore, IInv, Types

LEMMA UpdateLeadKeeps ==
  ASSUME IInv, NEW t \in Threads, UpdateLead(t)
  PROVE  IInv'
<1>1. /\ Busy(t) /\ Top(t).pc = "act" /\ Top(t).copy # None
      /\ UNCHANGED <<rule, run, request, events, crashes>>
  BY DEF UpdateLead, Acting, At
<1>2. PICK f \in Frame : f = Top(t) /\ FrameOK(f)
  BY <1>1, TopIs
<1>3. PICK s : s = Target(Action(f), f.copy)
  OBVIOUS
<1>4. PICK new : new = Updated(f.copy, s)
  OBVIOUS
<1>5. f.copy \in LeadRow /\ f.lead \in Leads /\ lead[f.lead] \in LeadRow
  BY <1>1, <1>2 DEF Frame, IInv, Types
<1>6. /\ Action(f).type = "CHANGE_STATUS" => Action(f).to \in LeadStatus
      /\ s \in LeadStatus
  <2>1. Action(f).type = "CHANGE_STATUS" => Action(f).to \in ValidTransitions(f.copy.status)
    BY <1>2 DEF UpdateLead
  <2>2. f.copy.status \in LeadStatus
    BY <1>5 DEF LeadRow
  <2> QED BY <1>3, <2>1, <2>2, TransitionsTyped DEF Target
<1>7. new \in LeadRow /\ new.version = f.copy.version + 1
  BY <1>4, <1>5, <1>6 DEF Updated, LeadRow
<1>8. PICK c \in {None, new} : c = Kept(f, new)
  BY DEF Kept
<1>9. RequestsGoOn
  BY <1>1 DEF RequestsGoOn, IInv, Requests
<1>10. CASE VersionHolds(f.lead, f.copy)
  <2>1. PICK row : row = Updated(lead[f.lead], Target(Action(f), lead[f.lead]))
    OBVIOUS
  <2>2. /\ lead' = [lead EXCEPT ![f.lead] = row]
        /\ Becomes(t, [f EXCEPT !.pc = "refresh", !.copy = new])
    BY <1>2, <1>3, <1>4, <1>10, <2>1 DEF UpdateLead
  <2>3. row \in LeadRow /\ row.version = lead[f.lead].version + 1
    <3>1. lead[f.lead].status \in LeadStatus
      BY <1>5 DEF LeadRow
    <3>2. Target(Action(f), lead[f.lead]) \in LeadStatus
      BY <1>6, <3>1 DEF Target
    <3> QED BY <1>5, <2>1, <3>2 DEF Updated, LeadRow
  <2>4. lead' \in [Leads -> LeadRow] /\ lead'[f.lead] = row
    BY <1>5, <2>2, <2>3 DEF IInv, Types
  <2>5. LeadsMove
    BY <1>5, <2>2, <2>3, <2>4 DEF LeadsMove, IInv, Types
  <2>6. PICK g \in Frame : g = [f EXCEPT !.pc = "refresh", !.copy = new]
    BY <1>7, FrameFields
  <2>7. AsBefore(g, f) /\ g.copy = new /\ g.i = f.i /\ g.k = f.k /\ g.pc = "refresh"
    BY <2>6 DEF Frame, AsBefore
  <2>8. events' \in Nat /\ events <= events'
    BY <1>1 DEF IInv, Types
  <2>9. Believes(g)'
    <3>1. CASE Coherent(f.lead, f.copy)
      <4>1. f.copy = lead[f.lead]
        BY <1>10, <3>1 DEF Coherent, VersionHolds
      <4>2. new = row
        BY <1>3, <1>4, <2>1, <4>1
      <4> QED BY <1>7, <2>4, <2>7, <4>2 DEF Believes, Coherent, AsBefore, LeadRow
    <3>2. CASE Spoilt(f)
      BY <1>1, <1>2, <2>7, <3>2 DEF Believes, Spoilt, HasFailed, AsBefore
    <3> QED BY <1>1, <1>2, <3>1, <3>2 DEF FrameOK, Believes
  <2>10. FrameOK(g)'
    BY <1>1, <1>2, <2>7, <2>8, <2>9, ActIs
  <2>11. PICK e : e = f.event
    OBVIOUS
  <2>12. Moves(e)
    BY <1>1, <2>5, <2>8 DEF Moves, Elsewhere, RulesGrow, IInv, Types
  <2>13. Stacks'
    <3>1. g.event = Top(t).event /\ Becomes(t, g)
      BY <1>2, <2>2, <2>6, <2>7 DEF AsBefore
    <3> QED BY <1>1, <1>2, <2>10, <2>11, <2>12, <3>1, Goes DEF IInv
  <2> QED BY <1>1, <1>9, <2>4, <2>5, <2>8, <2>13, LeadStep
<1>11. CASE ~ VersionHolds(f.lead, f.copy)
  <2>1. /\ Becomes(t, [f EXCEPT !.pc = "failed", !.copy = c])
        /\ UNCHANGED <<lead, rule, run, request, events, crashes>>
    BY <1>1, <1>2, <1>3, <1>4, <1>8, <1>11 DEF UpdateLead
  <2>2. PICK g \in Frame : g = [f EXCEPT !.pc = "failed", !.copy = c]
    BY <1>7, <1>8, FrameFields
  <2>3. AsBefore(g, f) /\ g.copy = c /\ g.i = f.i /\ g.k = f.k /\ g.pc = "failed"
    BY <2>2 DEF Frame, AsBefore
  <2>4. Believes(g)'
    BY <2>3 DEF Believes, Spoilt
  <2>5. events' \in Nat /\ events <= events'
    BY <2>1 DEF IInv, Types
  <2>6. FrameOK(g)'
    BY <1>1, <1>2, <2>1, <2>3, <2>4, <2>5, ActIs
  <2>7. g.event = f.event /\ Becomes(t, g)
    BY <2>1, <2>2, <2>3 DEF AsBefore
  <2> QED BY <1>1, <1>2, <2>1, <2>6, <2>7, QuietStep
<1> QED BY <1>10, <1>11

(* An action publishes what it has committed. *)
LEMMA PublishKeeps ==
  ASSUME IInv, NEW t \in Threads, Busy(t), NEW f \in Frame, f = Top(t), FrameOK(f),
         f.pc \in {"act", "refresh"}, NEW name \in Triggers,
         NEW g \in Frame, AsBefore(g, f), g.i = f.i, g.k = f.k, g.pc = "ok",
         Publish(t, g, name, f.lead), UNCHANGED <<lead, rule, run, request, crashes>>,
         g.copy = None \/ g.copy = f.copy \/ g.copy = lead[f.lead]
  PROVE  IInv'
<1>1. events' = events + 1 /\ events' \in Nat /\ events <= events'
  BY DEF Publish, IInv, Types
<1>2. f.lead \in Leads /\ lead[f.lead] \in LeadRow
  BY DEF Frame, IInv, Types
<1>3. Believes(g)'
  <2>1. CASE g.copy = None \/ g.copy = f.copy
    BY <2>1 DEF FrameOK, Believes, Coherent, Spoilt, HasFailed, AsBefore
  <2>2. CASE g.copy = lead[f.lead]
    BY <1>2, <2>2 DEF Believes, Coherent, AsBefore, LeadRow
  <2> QED BY <2>1, <2>2
<1>4. FrameOK(g)'
  BY <1>1, <1>3, ActIs
<1>5. LeadsMove
  BY DEF LeadsMove
<1>6. Stacks'
  <2>1. g.event = Top(t).event
    BY DEF AsBefore
  <2> QED BY <1>2, <1>4, <1>5, <2>1, Publishes DEF IInv
<1> QED BY <1>1, <1>6, StackOnly

LEMMA RefreshKeeps ==
  ASSUME IInv, NEW t \in Threads, Refresh(t)
  PROVE  IInv'
<1>1. Busy(t) /\ Top(t).pc = "refresh" /\ UNCHANGED <<lead, rule, run, request, crashes>>
  BY DEF Refresh, At
<1>2. PICK f \in Frame : f = Top(t) /\ FrameOK(f)
  BY <1>1, TopIs
<1>3. PICK c \in {None, lead[f.lead]} : c = Kept(f, lead[f.lead])
  BY DEF Kept
<1>4. c \in LeadRow \cup {None}
  BY DEF Frame, IInv, Types
<1>5. PICK g \in Frame : g = [f EXCEPT !.pc = "ok", !.copy = c]
  BY <1>4, FrameFields
<1>6. AsBefore(g, f) /\ g.copy = c /\ g.i = f.i /\ g.k = f.k /\ g.pc = "ok"
  BY <1>5 DEF Frame, AsBefore
<1>7. Publish(t, g, "lead.updated", f.lead)
  BY <1>2, <1>3, <1>5 DEF Refresh
<1>8. "lead.updated" \in Triggers
  BY DEF Triggers
<1> QED BY <1>1, <1>2, <1>6, <1>7, <1>8, PublishKeeps

LEMMA CreateTaskKeeps ==
  ASSUME IInv, NEW t \in Threads, CreateTask(t)
  PROVE  IInv'
<1>1. /\ Busy(t) /\ Top(t).pc = "act"
      /\ Publish(t, [Top(t) EXCEPT !.pc = "ok"], "task.created", Top(t).lead)
      /\ UNCHANGED <<lead, rule, run, request, crashes>>
  BY DEF CreateTask, Acting, At
<1>2. PICK f \in Frame : f = Top(t) /\ FrameOK(f)
  BY <1>1, TopIs
<1>3. PICK g \in Frame : g = [f EXCEPT !.pc = "ok"]
  BY FrameFields
<1>4. AsBefore(g, f) /\ g.copy = f.copy /\ g.i = f.i /\ g.k = f.k /\ g.pc = "ok"
  BY <1>3 DEF Frame, AsBefore
<1>5. Publish(t, g, "task.created", f.lead) /\ "task.created" \in Triggers
  BY <1>1, <1>2, <1>3 DEF Triggers
<1> QED BY <1>1, <1>2, <1>4, <1>5, PublishKeeps

(* A client decides on the lead it has just read. *)
LEMMA PatchReadKeeps ==
  ASSUME IInv, NEW c \in Clients, NEW l \in Leads, NEW s, PatchRead(c, l, s)
  PROVE  IInv'
<1>1. UNCHANGED <<lead, rule, run, stack, events, crashes>>
  BY DEF PatchRead
<1>2. PICK copy \in LeadRow : copy = lead[l]
  BY DEF IInv, Types
<1>3. PICK p : p = [pc |-> "write", lead |-> l, to |-> s, copy |-> copy]
  OBVIOUS
<1>4. s \in ValidTransitions(copy.status) /\ request' = [request EXCEPT ![c] = p]
  BY <1>2, <1>3 DEF PatchRead
<1>5. p \in Request
  <2>1. copy.status \in LeadStatus
    BY DEF LeadRow
  <2> QED BY <1>3, <1>4, <2>1, TransitionsTyped DEF Request
<1>6. Requests'
  <2>1. request' \in [Threads -> Request] /\ request'[c] = p
    BY <1>4, <1>5 DEF IInv, Requests, Threads
  <2>2. ASSUME NEW q \in Request, q.pc = "write", NEW t \in Threads, request'[t] = q
        PROVE  Coherent(q.lead, q.copy)' /\ q.to \in ValidTransitions(q.copy.status)
    <3>1. CASE t = c
      <4>1. q.lead = l /\ q.to = s /\ q.copy = copy
        BY <1>3, <2>1, <2>2, <3>1
      <4>2. copy.version \in Nat
        BY DEF LeadRow
      <4> QED BY <1>1, <1>2, <1>4, <4>1, <4>2 DEF Coherent
    <3>2. CASE t # c
      <4>1. request[t] = q
        BY <1>4, <2>2, <3>2 DEF IInv, Requests
      <4> QED BY <1>1, <2>2, <4>1 DEF IInv, Requests, Coherent
    <3> QED BY <3>1, <3>2
  <2> QED BY <2>1, <2>2 DEF Requests
<1>7. Frames'
  BY <1>1 DEF IInv, Frames, FrameOK, RowsLoaded, Fresh, InHand, Believes, Coherent, Spoilt, HasFailed, Key
<1>8. Types' /\ Trails' /\ Distinct' /\ OneClaimPerEvent'
  BY <1>1 DEF IInv, Types, Trails, Distinct, OneClaimPerEvent
<1> QED BY <1>6, <1>7, <1>8 DEF IInv

(* What the version check lets through is what the client has read. *)
LEMMA Accepted ==
  ASSUME IInv, NEW c \in Clients, PatchWrite(c)
  PROVE  \E q \in Request :
           /\ q = request[c] /\ q.lead \in Leads /\ q.to \in LeadStatus /\ q.copy \in LeadRow
           /\ Coherent(q.lead, q.copy) /\ q.to \in ValidTransitions(q.copy.status)
<1>1. request[c].pc = "write" /\ request[c] \in Request /\ c \in Threads
  BY DEF PatchWrite, IInv, Requests, Threads
<1>2. PICK q \in Request : q = request[c]
  BY <1>1
<1>3. Coherent(q.lead, q.copy) /\ q.to \in ValidTransitions(q.copy.status)
  BY <1>1, <1>2 DEF IInv, Requests
<1>4. q.lead \in Leads /\ q.to \in LeadStatus /\ q.copy \in LeadRow
  BY <1>1, <1>2 DEF Request
<1> QED BY <1>2, <1>3, <1>4

LEMMA PatchWriteKeeps ==
  ASSUME IInv, NEW c \in Clients, PatchWrite(c)
  PROVE  IInv'
<1>1. PICK q \in Request :
        q = request[c] /\ q.lead \in Leads /\ q.to \in LeadStatus /\ q.copy \in LeadRow
  BY Accepted
<1>2. c \in Threads /\ UNCHANGED <<rule, run, crashes>>
  BY DEF PatchWrite, Threads
<1>3. RequestsGoOn
  <2>1. request' = [request EXCEPT ![c] = [pc |-> "done"]]
    BY DEF PatchWrite
  <2>2. [pc |-> "done"] \in Request /\ [pc |-> "done"].pc # "write"
    BY DEF Request
  <2> QED BY <1>2, <2>1, <2>2 DEF RequestsGoOn, IInv, Requests
<1>4. CASE VersionHolds(q.lead, q.copy)
  <2>1. PICK new : new = Updated(q.copy, q.to)
    OBVIOUS
  <2>2. new \in LeadRow /\ new.version = lead[q.lead].version + 1
    BY <1>1, <1>4, <2>1 DEF Updated, LeadRow, VersionHolds
  <2>3. PICK d : d = Dispatch("lead.updated", q.lead)
    OBVIOUS
  <2>4. /\ lead' = [lead EXCEPT ![q.lead] = new]
        /\ events' = events + 1 /\ stack' = [stack EXCEPT ![c] = <<d>>]
    BY <1>1, <1>4, <2>1, <2>3 DEF PatchWrite
  <2>5. lead' \in [Leads -> LeadRow]
    BY <1>1, <2>2, <2>4 DEF IInv, Types
  <2>6. LeadsMove
    BY <1>1, <2>2, <2>4 DEF LeadsMove, IInv, Types
  <2>7. d \in Frame /\ d.event = events + 1 /\ FrameOK(d)'
    <3>1. "lead.updated" \in Triggers
      BY DEF Triggers
    <3> QED BY <1>1, <1>2, <2>3, <2>4, <3>1, NewDispatch DEF IInv
  <2>8. Stacks'
    BY <1>2, <2>4, <2>6, <2>7, Starts DEF IInv
  <2>9. events' \in Nat /\ events <= events'
    BY <2>4 DEF IInv, Types
  <2> QED BY <1>2, <1>3, <2>5, <2>6, <2>8, <2>9, LeadStep
<1>5. CASE ~ VersionHolds(q.lead, q.copy)
  <2>1. UNCHANGED <<lead, events, stack>>
    BY <1>1, <1>5 DEF PatchWrite
  <2>2. Stacks'
    <3>1. Frames'
      BY <1>2, <2>1 DEF IInv, Frames, FrameOK, RowsLoaded,
                        Fresh, InHand, Believes, Coherent, Spoilt, HasFailed, Key
    <3>2. Distinct'
      BY <2>1 DEF IInv, Distinct
    <3>3. stack' \in [Threads -> Seq(Frame)]
      BY <2>1 DEF IInv, Types
    <3> QED BY <3>1, <3>2, <3>3 DEF Stacks
  <2>3. LeadsMove /\ lead' \in [Leads -> LeadRow] /\ events' \in Nat /\ events <= events'
    BY <2>1 DEF LeadsMove, IInv, Types
  <2> QED BY <1>2, <1>3, <2>2, <2>3, LeadStep
<1> QED BY <1>4, <1>5

LEMMA RunManuallyKeeps ==
  ASSUME IInv, NEW t \in Runners, NEW r \in Rules, NEW l \in Leads, RunManually(t, r, l)
  PROVE  IInv'
<1>1. /\ t \in Threads /\ Enabled(r) /\ events' = events + 1
      /\ UNCHANGED <<lead, rule, run, crashes>>
  BY DEF RunManually, Threads
<1>2. PICK d \in Frame : /\ d = Dispatch(Manual, l) /\ d.event = events + 1
                         /\ d.rules = <<>> /\ d.i = 1 /\ d.k = 1 /\ d.copy = None
                         /\ \A k \in DOMAIN run : k[1] # d.event
  <2>1. PICK d : d = Dispatch(Manual, l)
    OBVIOUS
  <2> QED BY <1>1, <2>1, NewDispatch DEF IInv
<1>3. PICK x \in RuleLoaded : x = RowOf(r) /\ x.rule = r /\ x.row \in 1 .. rule[r]
  <2>1. rule[r] > 0 /\ rule[r] \in Nat
    BY <1>1 DEF Enabled, IInv, Types
  <2>2. RowOf(r) \in RuleLoaded /\ RowOf(r).rule = r /\ RowOf(r).row \in 1 .. rule[r]
    BY <2>1 DEF RowOf, RuleLoaded
  <2> QED BY <2>2
<1>4. PICK todo \in Seq(RuleLoaded) : todo = <<x>> /\ DOMAIN todo = {1} /\ todo[1] = x
  <2>1. <<x>> \in Seq(RuleLoaded) /\ DOMAIN <<x>> = {1} /\ <<x>>[1] = x
    OBVIOUS
  <2> QED BY <2>1
<1>5. PICK g \in Frame : g = [d EXCEPT !.rules = todo, !.pc = "conditions"]
  BY DEF Frame
<1>6. /\ g.event = events + 1 /\ g.rules = todo /\ g.i = 1 /\ g.k = 1
      /\ g.copy = None /\ g.pc = "conditions"
  BY <1>2, <1>5 DEF Frame
<1>7. stack' = [stack EXCEPT ![t] = <<g>>]
  BY <1>2, <1>3, <1>4, <1>5 DEF RunManually
<1>8. FrameOK(g)'
  <2>1. RowsLoaded(g)'
    BY <1>1, <1>3, <1>4, <1>6 DEF RowsLoaded, Loading
  <2>2. \A k \in DOMAIN run : k[1] # g.event
    BY <1>2, <1>6
  <2>3. Fresh(g)'
    BY <1>1, <1>6, <2>2 DEF Fresh
  <2>4. InHand(g)' /\ Believes(g)'
    BY <1>6 DEF InHand, Believes, Working
  <2>5. g.event \in 1 .. events'
    BY <1>1, <1>6 DEF IInv, Types
  <2> QED BY <2>1, <2>3, <2>4, <2>5 DEF FrameOK
<1>9. LeadsMove /\ lead' \in [Leads -> LeadRow] /\ events' \in Nat /\ events <= events'
  BY <1>1 DEF LeadsMove, IInv, Types
<1>10. Stacks'
  BY <1>1, <1>6, <1>7, <1>8, <1>9, Starts DEF IInv
<1>11. RequestsGoOn
  <2>1. request' = [request EXCEPT ![t] = [pc |-> "done"]]
    BY DEF RunManually
  <2>2. [pc |-> "done"] \in Request /\ [pc |-> "done"].pc # "write"
    BY DEF Request
  <2> QED BY <1>1, <2>1, <2>2 DEF RequestsGoOn, IInv, Requests
<1> QED BY <1>1, <1>9, <1>10, <1>11, LeadStep

(* Dispatches keep the versions they have loaded. *)
LEMMA RuleKeeps ==
  ASSUME IInv, NEW r \in Rules, CreateRule(r) \/ EditRule(r)
  PROVE  IInv'
<1>1. UNCHANGED <<lead, run, stack, request, events, crashes>>
  BY DEF CreateRule, EditRule
<1>2. PICK v \in Nat : v = rule[r] + 1 /\ rule' = [rule EXCEPT ![r] = v] /\ v <= Len(Definition[r])
  <2>1. rule[r] \in Nat /\ Len(Definition[r]) \in Nat \ {0}
    BY DefinitionAssumption DEF IInv, Types, Rules
  <2>2. rule[r] + 1 <= Len(Definition[r])
    BY <2>1 DEF CreateRule, EditRule
  <2>3. rule' = [rule EXCEPT ![r] = rule[r] + 1]
    BY <2>1 DEF CreateRule, EditRule
  <2>4. rule[r] + 1 \in Nat
    BY <2>1
  <2> QED BY <2>2, <2>3, <2>4
<1>3. /\ rule' \in [Rules -> Nat] /\ RulesGrow
      /\ \A u \in Rules : rule'[u] <= Len(Definition[u])
  BY <1>2 DEF IInv, Types, RulesGrow
<1>4. PICK e : e = events + 1
  OBVIOUS
<1>5. Moves(e)
  BY <1>1, <1>3 DEF Moves, Elsewhere, LeadsMove, IInv, Types
<1>6. Frames'
  <2> SUFFICES ASSUME NEW h \in Frame, NEW u \in Threads, NEW n \in DOMAIN stack'[u],
                      stack'[u][n] = h
               PROVE  FrameOK(h)'
    BY DEF Frames
  <2>1. FrameOK(h)
    BY <1>1 DEF IInv, Frames
  <2>2. h.event # e
    BY <1>4, <2>1 DEF FrameOK, IInv, Types
  <2> QED BY <1>5, <2>1, <2>2, FrameStays DEF IInv
<1>7. Types'
  BY <1>1, <1>3 DEF IInv, Types
<1>8. Trails' /\ Distinct' /\ Requests' /\ OneClaimPerEvent'
  BY <1>1 DEF IInv, Trails, Distinct, Requests, Coherent, OneClaimPerEvent
<1> QED BY <1>6, <1>7, <1>8 DEF IInv

LEMMA CrashKeeps ==
  ASSUME IInv, Crash
  PROVE  IInv'
<1>1. /\ UNCHANGED <<lead, rule, run, events>> /\ crashes < MaxCrashes /\ crashes' = crashes + 1
      /\ stack' = [t \in Threads |-> <<>>]
  BY DEF Crash
<1>2. Types'
  BY <1>1, BoundAssumption DEF IInv, Types
<1>3. Frames' /\ Distinct'
  BY <1>1 DEF Frames, Distinct
<1>4. Requests'
  <2>1. [pc |-> "done"] \in Request /\ [pc |-> "done"].pc # "write"
    BY DEF Request
  <2>2. /\ request' \in [Threads -> Request]
        /\ \A t \in Threads : request'[t] = request[t] \/ request'[t].pc # "write"
    BY <2>1 DEF Crash, IInv, Requests
  <2> QED BY <1>1, <2>2 DEF IInv, Requests, Coherent
<1>5. Trails' /\ OneClaimPerEvent'
  BY <1>1 DEF IInv, Trails, OneClaimPerEvent
<1> QED BY <1>2, <1>3, <1>4, <1>5 DEF IInv


-----------------------------------------------------------------------------
LEMMA InitEstablishes == Init => IInv
<1> SUFFICES ASSUME Init PROVE IInv
  OBVIOUS
<1>1. lead \in [Leads -> LeadRow]
  BY DEF Init, LeadRow, LeadStatus
<1>2. rule \in [Rules -> Nat] /\ \A r \in Rules : rule[r] <= Len(Definition[r])
  <2>1. \A r \in Rules : Len(Definition[r]) \in Nat \ {0}
    BY DefinitionAssumption DEF Rules
  <2> QED BY <2>1 DEF Init
<1>3. DOMAIN run = {} /\ \A t \in Threads : stack[t] = <<>> /\ DOMAIN stack[t] = {}
  BY DEF Init
<1>4. Types
  BY <1>1, <1>2, <1>3, BoundAssumption DEF Init, Types
<1>5. Requests
  <2>1. [pc |-> "new"] \in Request /\ [pc |-> "new"].pc # "write"
    BY DEF Request
  <2> QED BY <2>1 DEF Init, Requests
<1>6. Frames /\ Distinct /\ Trails /\ OneClaimPerEvent
  BY <1>3 DEF Frames, Distinct, Trails, OneClaimPerEvent
<1> QED BY <1>4, <1>5, <1>6 DEF IInv

LEMMA NextKeeps == IInv /\ [Next]_vars => IInv'
<1> SUFFICES ASSUME IInv, [Next]_vars PROVE IInv'
  OBVIOUS
<1>1. CASE \E t \in Threads : Subscriber(t)
  <2>1. PICK t \in Threads : Subscriber(t)
    BY <1>1
  <2>2. CASE Select(t) \/ Starved(t) \/ SelectConditions(t) \/ SelectActions(t)
    BY <2>2, ReturnKeeps, SelectKeeps, SelectConditionsKeeps, SelectActionsKeeps
  <2>3. CASE PassOver(t) \/ Begin(t) \/ ConditionFalse(t) \/ Return(t)
    BY <2>3, PassOverKeeps, BeginKeeps, CloseKeeps, ReturnKeeps
  <2>4. CASE Act(t)
    BY <2>4, ActsQuietly, UpdateLeadKeeps, RefreshKeeps, CreateTaskKeeps, ReturnKeeps DEF Act
  <2>5. CASE Succeeded(t) \/ Failed(t) \/ SkipStep(t) \/ Close(t)
    BY <2>5, StepsKeep, CloseKeeps
  <2> QED BY <2>1, <2>2, <2>3, <2>4, <2>5 DEF Subscriber
<1>2. CASE \E c \in Clients : Client(c)
  BY <1>2, PatchReadKeeps, PatchWriteKeeps DEF Client
<1>3. CASE \E t \in Runners, r \in Runnable, l \in Leads : RunManually(t, r, l)
  BY <1>3, RunManuallyKeeps, RunnableAssumption DEF Rules
<1>4. CASE \E r \in Rules : CreateRule(r) \/ EditRule(r)
  BY <1>4, RuleKeeps
<1>5. CASE Crash
  BY <1>5, CrashKeeps
<1>6. CASE UNCHANGED vars
  <2>1. UNCHANGED <<lead, rule, run, stack, request, events, crashes>>
    BY <1>6 DEF vars
  <2>2. Frames'
    BY <2>1 DEF IInv, Frames, FrameOK, RowsLoaded, Fresh, InHand, Believes, Coherent, Spoilt, HasFailed, Key
  <2>3. Distinct'
    BY <2>1 DEF IInv, Distinct
  <2>4. Stacks' /\ events' \in Nat /\ events <= events'
    BY <2>1, <2>2, <2>3 DEF Stacks, IInv, Types
  <2> QED BY <2>1, <2>4, StackOnly
<1> QED BY <1>1, <1>2, <1>3, <1>4, <1>5, <1>6 DEF Next

(* The inductive invariant: what every dispatch, request and execution may  *)
(* rely on between two awaits of the subscriber and of the clients.        *)
THEOREM Invariance == Spec => []IInv
<1>1. Init => IInv
  BY InitEstablishes
<1>2. IInv /\ [Next]_vars => IInv'
  BY NextKeeps
<1> QED BY <1>1, <1>2, PTL DEF Spec

(* The tables and the stacks hold what the columns and the coroutines can   *)
(* hold, and a dispatch that acts, for however many rules and actions, has  *)
(* a rule and an action in hand: actions[i] is never read past the end.    *)
THEOREM TypeCorrect == Spec => []TypeOK
<1>1. IInv => TypeOK
  <2> SUFFICES ASSUME IInv PROVE TypeOK
    OBVIOUS
  <2>1. \A r \in Rules : rule[r] \in 0 .. Len(Definition[r])
    <3>1. \A r \in Rules : Len(Definition[r]) \in Nat
      BY DefinitionAssumption DEF Rules
    <3> QED BY <3>1 DEF IInv, Types
  <2>2. ASSUME NEW t \in Threads, NEW n \in DOMAIN stack[t],
               stack[t][n].pc \notin {"select", "conditions", "actions", "next"}
        PROVE  /\ stack[t][n].i \in DOMAIN stack[t][n].rules
               /\ stack[t][n].pc \notin {"reject", "close"} =>
                    stack[t][n].k \in 1 .. Len(ActionsInHand(stack[t][n]))
    <3>1. PICK f \in Frame : f = stack[t][n]
      BY DEF IInv, Types
    <3>2. FrameOK(f) /\ f.pc \in Working
      BY <2>2, <3>1 DEF IInv, Frames, Frame, Working
    <3>3. f.i \in DOMAIN f.rules /\ Hand(f, run[Key(f)])
      BY <3>2 DEF FrameOK, InHand
    <3>4. f.pc \notin {"reject", "close"} => f.k \in 1 .. Len(ActionsInHand(f))
      BY <3>2, <3>3 DEF Hand, Working
    <3> QED BY <3>1, <3>3, <3>4
  <2>3. \A k \in DOMAIN run :
          run[k] \in [status : RunStatus, snapshot : RuleLoaded, steps : Seq(StepRow),
                      success : Nat, failed : Nat, skipped : Nat]
    BY DEF IInv, Types, Run
  <2> QED BY <2>1, <2>2, <2>3 DEF IInv, Types, TypeOK
<1> QED BY <1>1, Invariance, PTL

(* execute() runs and records the actions of the rule it was handed: the    *)
(* stored workflow_snapshot lists them, though the rule is edited meanwhile. *)
THEOREM SnapshotTells == Spec => []SnapshotIsWhatRan
<1>1. IInv => SnapshotIsWhatRan
  <2> SUFFICES ASSUME IInv, NEW k \in DOMAIN run, NEW n \in DOMAIN run[k].steps
               PROVE  /\ n \in DOMAIN ActionsOf(k, run[k])
                      /\ run[k].steps[n].action = ActionsOf(k, run[k])[n]
    BY DEF SnapshotIsWhatRan, ActionsOf
  <2>1. TrailOf(k, run[k]) /\ run[k].steps \in Seq(StepRow) /\ k[2] \in Rules
    BY DEF IInv, Trails, Types, Run
  <2>2. DOMAIN ActionsOf(k, run[k]) = 1 .. Len(ActionsOf(k, run[k]))
        /\ Len(ActionsOf(k, run[k])) \in Nat
    BY <2>1, Versions DEF TrailOf, ActionsOf
  <2>3. n \in 1 .. Len(run[k].steps) /\ Len(run[k].steps) \in Nat
        /\ Len(run[k].steps) <= Len(ActionsOf(k, run[k]))
    BY <2>1 DEF TrailOf
  <2>4. n \in DOMAIN ActionsOf(k, run[k])
    BY <2>2, <2>3
  <2> QED BY <2>1, <2>4 DEF TrailOf
<1> QED BY <1>1, Invariance, PTL

(* check_duplicate_execution keeps an event to one execution that runs or   *)
(* has succeeded, whatever the number of rules, threads and restarts.      *)
THEOREM OneClaim == Spec => []OneClaimPerEvent
<1>1. IInv => OneClaimPerEvent
  BY DEF IInv
<1> QED BY <1>1, Invariance, PTL

(* A closed execution has a step for each action of its snapshot, in the    *)
(* order successes, failure, skipped, and its counters count those steps.  *)
THEOREM TrailIsComplete == Spec => []AuditTrail
<1>1. IInv => AuditTrail
  <2> SUFFICES ASSUME IInv, NEW k \in DOMAIN run, NEW x, x = run[k],
                      x.status \in {"SUCCESS", "FAILED"}
               PROVE  /\ Len(x.steps) = Len(ActionsOf(k, x))
                      /\ x.success = Count(x.steps, "SUCCESS")
                      /\ x.failed  = Count(x.steps, "FAILED")
                      /\ x.skipped = Count(x.steps, "SKIPPED")
                      /\ x.failed  = IF x.status = "FAILED" THEN 1 ELSE 0
                      /\ \A m, n \in DOMAIN x.steps : m < n =>
                           /\ x.steps[m].status = "SKIPPED" => x.steps[n].status = "SKIPPED"
                           /\ x.steps[m].status = "FAILED"  => x.steps[n].status = "SKIPPED"
    BY DEF AuditTrail, ActionsOf
  <2>1. TrailOf(k, x) /\ x \in Run
    BY DEF IInv, Trails, Types
  <2>2. PICK s \in Seq(StepRow) : s = x.steps
    BY <2>1 DEF Run
  <2>3. PICK n \in Nat : n = Len(s) /\ DOMAIN s = 1 .. n
    <3>1. Len(s) \in Nat /\ DOMAIN s = 1 .. Len(s)
      OBVIOUS
    <3> QED BY <3>1
  <2>4. PICK a \in Nat, b \in {0, 1} : a = x.success /\ b = x.failed
    BY <2>1 DEF TrailOf, Run
  <2>5. /\ n = Len(ActionsOf(k, x)) /\ a + b <= n /\ (b = 0 => n = a)
        /\ x.skipped = IF n > a + b THEN n - (a + b) ELSE 0
        /\ b = IF x.status = "FAILED" THEN 1 ELSE 0
    BY <2>1, <2>2, <2>3, <2>4 DEF TrailOf
  <2>6. \A m \in 1 .. n :
          s[m].status = IF m <= a THEN "SUCCESS" ELSE IF m = a + 1 THEN "FAILED" ELSE "SKIPPED"
    BY <2>1, <2>2, <2>3, <2>4 DEF TrailOf
  <2>7. /\ {m \in 1 .. n : s[m].status = "SUCCESS"} = 1 .. a
        /\ {m \in 1 .. n : s[m].status = "FAILED"}  = a + 1 .. a + b
        /\ {m \in 1 .. n : s[m].status = "SKIPPED"} = a + b + 1 .. n
    BY <2>5, <2>6
  <2>8. /\ Cardinality(1 .. a) = a /\ Cardinality(a + 1 .. a + b) = b
        /\ Cardinality(a + b + 1 .. n) = n - (a + b)
    <3>1. b \in Nat /\ a + b + 1 \in Nat /\ a + b \in Nat /\ a + 1 \in Nat
      BY <2>4
    <3>2. Cardinality(1 .. a) = a
      BY FS_Interval
    <3>3. Cardinality(a + 1 .. a + b) = b
      <4>1. PICK i \in Int, j \in Int : i = a + 1 /\ j = a + b
        BY <3>1
      <4>2. Cardinality(i .. j) = IF i > j THEN 0 ELSE j - i + 1
        BY FS_Interval
      <4> QED BY <3>1, <4>1, <4>2
    <3>4. Cardinality(a + b + 1 .. n) = n - (a + b)
      <4>1. PICK i \in Int : i = a + b + 1
        BY <3>1
      <4>2. Cardinality(i .. n) = IF i > n THEN 0 ELSE n - i + 1
        BY FS_Interval
      <4> QED BY <2>5, <3>1, <4>1, <4>2
    <3> QED BY <3>2, <3>3, <3>4
  <2>9. /\ a = Count(s, "SUCCESS") /\ b = Count(s, "FAILED")
        /\ n - (a + b) = Count(s, "SKIPPED")
    BY <2>3, <2>7, <2>8 DEF Count
  <2>10. x.skipped = n - (a + b)
    <3>1. a + b \in Nat
      BY <2>4
    <3>2. CASE n > a + b
      BY <2>5, <3>2
    <3>3. CASE ~ (n > a + b)
      <4>1. n = a + b
        BY <2>5, <3>1, <3>3
      <4> QED BY <2>5, <3>1, <3>3, <4>1
    <3> QED BY <3>2, <3>3
  <2>11. \A m, q \in 1 .. n : m < q =>
           /\ s[m].status = "SKIPPED" => s[q].status = "SKIPPED"
           /\ s[m].status = "FAILED"  => s[q].status = "SKIPPED"
    BY <2>6
  <2> QED BY <2>2, <2>3, <2>4, <2>5, <2>9, <2>10, <2>11
<1> QED BY <1>1, Invariance, PTL

(* A write that the version check lets through starts from the status the   *)
(* writer decided on, unless the session is one in which an action failed:  *)
(* there the lead in memory may be ahead of the table.                      *)
LEMMA WrittenOnWhatWasRead ==
  ASSUME IInv, NEW t \in Threads, UpdateLead(t), NEW l \in Leads,
         lead'[l].status # lead[l].status
  PROVE  \/ lead'[l].status \in ValidTransitions(lead[l].status)
         \/ stack'[t] # stack[t] /\ FailedBefore(t)
<1>1. Busy(t) /\ Top(t).pc = "act" /\ Top(t).copy # None
  BY DEF UpdateLead, Acting, At
<1>2. PICK f \in Frame : f = Top(t) /\ FrameOK(f)
  BY <1>1, TopIs
<1>3. PICK new : new = Updated(f.copy, Target(Action(f), f.copy))
  OBVIOUS
<1>4. PICK row : row = Updated(lead[f.lead], Target(Action(f), lead[f.lead]))
  OBVIOUS
<1>5. PICK g : g = [f EXCEPT !.pc = "refresh", !.copy = new]
  OBVIOUS
<1>6. /\ VersionHolds(f.lead, f.copy) /\ lead' = [lead EXCEPT ![f.lead] = row]
      /\ Becomes(t, g)
  BY <1>2, <1>3, <1>4, <1>5 DEF UpdateLead
<1>7. l = f.lead /\ lead'[l].status = Target(Action(f), lead[l])
  BY <1>4, <1>6 DEF IInv, Types, Updated
<1>8. Action(f).type = "CHANGE_STATUS" /\ lead'[l].status \in ValidTransitions(f.copy.status)
  <2>1. Action(f).type = "CHANGE_STATUS" => Action(f).to \in ValidTransitions(f.copy.status)
    BY <1>2 DEF UpdateLead
  <2> QED BY <1>7, <2>1 DEF Target
<1>9. CASE Coherent(f.lead, f.copy)
  <2>1. f.copy = lead[l]
    BY <1>6, <1>7, <1>9 DEF Coherent, VersionHolds
  <2> QED BY <1>8, <2>1
<1>10. CASE HasFailed(f.event)
  <2>1. FailedBefore(t)
    BY <1>1, <1>2, <1>10 DEF HasFailed, FailedBefore
  <2>2. stack[t] \in Seq(Frame) /\ stack[t] # <<>> /\ f = stack[t][1]
    BY <1>1, <1>2 DEF IInv, Types, Busy, Top
  <2>3. stack'[t] = <<g>> \o Tail(stack[t])
    BY <1>6 DEF Becomes, IInv, Types
  <2>4. stack'[t][1] = g
    BY <2>2, <2>3
  <2>5. g.pc = "refresh"
    BY <1>5 DEF Frame
  <2> QED BY <1>1, <1>2, <2>1, <2>2, <2>4, <2>5
<1> QED BY <1>1, <1>2, <1>9, <1>10 DEF FrameOK, Believes, Spoilt

(* A lead leaves a status only along _VALID_TRANSITIONS, whatever requests   *)
(* and rules read and write it in between, except by a session in which an  *)
(* action of the same event has failed (see LeadTransitionsValid).          *)
THEOREM LeadsMoveAlongTransitions == Spec => LeadTransitionsValidAtFirst
<1>1. IInv /\ [Next]_vars =>
        [\A l \in Leads : lead'[l].status # lead[l].status =>
           \/ lead'[l].status \in ValidTransitions(lead[l].status)
           \/ \E t \in Threads : stack'[t] # stack[t] /\ FailedBefore(t)]_vars
  <2> SUFFICES ASSUME IInv, Next, NEW l \in Leads, lead'[l].status # lead[l].status
               PROVE  \/ lead'[l].status \in ValidTransitions(lead[l].status)
                      \/ \E t \in Threads : stack'[t] # stack[t] /\ FailedBefore(t)
    OBVIOUS
  <2>1. lead' # lead
    OBVIOUS
  <2>2. CASE \E t \in Threads : Subscriber(t)
    <3>1. PICK t \in Threads : Subscriber(t)
      BY <2>2
    <3>2. UpdateLead(t)
      BY <2>1, <3>1 DEF Subscriber, Select, Starved, SelectConditions, SelectActions, PassOver,
                        Begin, ConditionFalse, Return, Act, LoadLead, NothingToUpdate,
                        NotATransition, Refresh, CreateTask, ActQuietly, Raise, Broken,
                        Succeeded, Failed, SkipStep, Close
    <3> QED BY <3>2, WrittenOnWhatWasRead
  <2>3. CASE \E c \in Clients : Client(c)
    <3>1. PICK c \in Clients : PatchWrite(c)
      BY <2>1, <2>3 DEF Client, PatchRead
    <3>2. PICK q \in Request :
            /\ q = request[c] /\ q.lead \in Leads
            /\ Coherent(q.lead, q.copy) /\ q.to \in ValidTransitions(q.copy.status)
      BY <3>1, Accepted
    <3>3. /\ VersionHolds(q.lead, q.copy)
          /\ lead' = [lead EXCEPT ![q.lead] = Updated(q.copy, q.to)]
      BY <2>1, <3>1, <3>2 DEF PatchWrite
    <3>4. l = q.lead /\ lead'[l].status = q.to
      BY <3>2, <3>3 DEF IInv, Types, Updated
    <3>5. q.copy = lead[l]
      BY <3>2, <3>3, <3>4 DEF Coherent, VersionHolds
    <3> QED BY <3>2, <3>4, <3>5
  <2>4. CASE \E t \in Runners, r \in Runnable, m \in Leads : RunManually(t, r, m)
    BY <2>1, <2>4 DEF RunManually
  <2>5. CASE \E r \in Rules : CreateRule(r) \/ EditRule(r)
    BY <2>1, <2>5 DEF CreateRule, EditRule
  <2>6. CASE Crash
    BY <2>1, <2>6 DEF Crash
  <2> QED BY <2>2, <2>3, <2>4, <2>5, <2>6 DEF Next
<1> QED BY <1>1, Invariance, PTL DEF Spec, LeadTransitionsValidAtFirst

-----------------------------------------------------------------------------
(* The log that auditors read. *)
Bar == [k \in DOMAIN run |-> Entry(k)]

LEMMA EntryIs ==
  ASSUME IInv, NEW k \in DOMAIN run
  PROVE  /\ DOMAIN Bar = DOMAIN run
         /\ Bar[k] = [plan |-> ActionsOf(k, run[k]), steps |-> run[k].steps,
                      status |-> run[k].status]
         /\ run[k] \in Run /\ TrailOf(k, run[k])
         /\ run[k].steps \in Seq(StepRow) /\ Len(run[k].steps) \in Nat
<1>1. run[k] \in Run /\ TrailOf(k, run[k])
  BY DEF IInv, Types, Trails
<1>2. run[k].steps \in Seq(StepRow)
  BY <1>1 DEF Run
<1> QED BY <1>1, <1>2 DEF Bar, Entry, PlanOf, ActionsOf

(* A row that is written over keeps its plan. *)
LEMMA WrittenOver ==
  ASSUME IInv, NEW k \in DOMAIN run, NEW row, Writes(k, row),
         row.snapshot = run[k].snapshot
  PROVE  Bar' = [Bar EXCEPT ![k] = [plan |-> ActionsOf(k, run[k]), steps |-> row.steps,
                                    status |-> row.status]]
<1>1. DOMAIN run' = DOMAIN run /\ run'[k] = row
      /\ \A j \in DOMAIN run : j # k => run'[j] = run[j]
  BY DEF Writes
<1>2. Entry(k)' = [plan |-> ActionsOf(k, run[k]), steps |-> row.steps, status |-> row.status]
  BY <1>1 DEF Entry, PlanOf, ActionsOf
<1>3. \A j \in DOMAIN run : j # k => Entry(j)' = Entry(j)
  BY <1>1 DEF Entry, PlanOf
<1>4. Bar' = [j \in DOMAIN run |-> Entry(j)']
  BY <1>1 DEF Bar
<1> QED BY <1>2, <1>3, <1>4 DEF Bar

(* The counter of failures says whether a step has failed. *)
LEMMA Failures ==
  ASSUME NEW k, NEW x \in Run, TrailOf(k, x)
  PROVE  Log!HasFailure(x.steps) <=> x.failed = 1
<1>1. /\ x.steps \in Seq(StepRow) /\ x.success \in Nat /\ x.failed \in {0, 1}
      /\ DOMAIN x.steps = 1 .. Len(x.steps) /\ Len(x.steps) \in Nat
  BY DEF Run, TrailOf
<1>2. \A m \in 1 .. Len(x.steps) :
        x.steps[m].status = IF m <= x.success THEN "SUCCESS"
                            ELSE IF m = x.success + 1 THEN "FAILED" ELSE "SKIPPED"
  BY <1>1 DEF TrailOf
<1>3. x.success + x.failed <= Len(x.steps)
      /\ (x.failed = 0 => Len(x.steps) = x.success + x.failed)
  BY DEF TrailOf
<1>4. CASE x.failed = 1
  <2>1. x.success + 1 \in 1 .. Len(x.steps)
    BY <1>1, <1>3, <1>4
  <2>2. x.steps[x.success + 1].status = "FAILED"
    BY <1>1, <1>2, <2>1
  <2> QED BY <1>1, <1>4, <2>1, <2>2 DEF Log!HasFailure
<1>5. CASE x.failed = 0
  <2>1. \A m \in 1 .. Len(x.steps) : x.steps[m].status = "SUCCESS"
    BY <1>1, <1>2, <1>3, <1>5
  <2> QED BY <1>1, <1>5, <2>1 DEF Log!HasFailure
<1> QED BY <1>1, <1>4, <1>5

(* An execution that is begun is entered. *)
LEMMA Enters ==
  ASSUME IInv, NEW t \in Threads, Begin(t)
  PROVE  \E e \in 1 .. events, r \in Rules :
           \E plan \in {Definition[r][n].actions : n \in DOMAIN Definition[r]} :
             Log!Enter(e, r, plan)
<1>1. /\ Busy(t) /\ Top(t).pc = "next" /\ Top(t).i <= Len(Top(t).rules) /\ events' = events
  BY DEF Begin, HasRule, At
<1>2. PICK f \in Frame : f = Top(t) /\ FrameOK(f)
  BY <1>1, TopIs
<1>3. PICK k : k = Key(f)
  OBVIOUS
<1>4. PICK row : row = [status |-> "RUNNING", snapshot |-> Loaded(f),
                        steps |-> <<>>, success |-> 0, failed |-> 0, skipped |-> 0]
  OBVIOUS
<1>5. /\ ~ Duplicate(f)
      /\ run' = [j \in DOMAIN run \cup {k} |-> IF j = k THEN row ELSE run[j]]
  BY <1>2, <1>3, <1>4 DEF Begin
<1>6. f.i \in DOMAIN f.rules /\ f.rules \in Seq(RuleLoaded)
  <2>1. f.rules \in Seq(RuleLoaded) /\ f.i \in Nat \ {0}
    BY DEF Frame
  <2> QED BY <1>1, <1>2, <2>1
<1>7. Loaded(f).rule \in Rules /\ Loaded(f).actions \in DOMAIN Definition[Loaded(f).rule]
  <2>1. Loaded(f).rule \in Rules
    <3>1. f.rules[f.i] \in RuleLoaded
      BY <1>6
    <3> QED BY <3>1 DEF Loaded, RuleLoaded
  <2>2. Loaded(f).actions \in 1 .. rule[Loaded(f).rule]
    BY <1>1, <1>2, <1>6 DEF FrameOK, RowsLoaded, Loaded, Loading
  <2>3. /\ rule[Loaded(f).rule] \in Nat
        /\ rule[Loaded(f).rule] <= Len(Definition[Loaded(f).rule])
    BY <2>1 DEF IInv, Types
  <2>4. /\ Len(Definition[Loaded(f).rule]) \in Nat
        /\ DOMAIN Definition[Loaded(f).rule] = 1 .. Len(Definition[Loaded(f).rule])
    BY <2>1, DefinitionAssumption DEF Rules
  <2> QED BY <2>1, <2>2, <2>3, <2>4
<1>8. PICK r \in Rules : r = Loaded(f).rule
  BY <1>7
<1>9. PICK plan \in {Definition[r][n].actions : n \in DOMAIN Definition[r]} :
        plan = Definition[r][Loaded(f).actions].actions
  BY <1>7, <1>8
<1>10. k = <<f.event, r>> /\ f.event \in 1 .. events /\ k[2] = r /\ k[1] = f.event
  BY <1>2, <1>3, <1>8 DEF Key, FrameOK
<1>11. k \notin DOMAIN run
  BY <1>1, <1>2, <1>6, <1>8, <1>10 DEF FrameOK, Fresh, Loaded
<1>12. ASSUME NEW j \in DOMAIN run, j[1] = f.event PROVE Bar[j].status \in {"FAILED", "SKIPPED"}
  <2>1. run[j].status \in RunStatus /\ Bar[j].status = run[j].status
    <3>1. run[j] \in Run /\ Bar[j] = [plan |-> ActionsOf(j, run[j]), steps |-> run[j].steps,
                                      status |-> run[j].status]
      BY EntryIs
    <3> QED BY <3>1 DEF Run
  <2>2. run[j].status \notin {"SUCCESS", "RUNNING"}
    BY <1>5, <1>12 DEF Duplicate, Claims
  <2> QED BY <2>1, <2>2 DEF RunStatus
<1>13. PICK new : new = [plan |-> plan, steps |-> << >>, status |-> "RUNNING"]
  OBVIOUS
<1>14. Bar' = [j \in DOMAIN Bar \cup {k} |-> IF j = k THEN new ELSE Bar[j]]
  <2>1. DOMAIN run' = DOMAIN run \cup {k} /\ run'[k] = row
        /\ \A j \in DOMAIN run : run'[j] = run[j]
    BY <1>5, <1>11
  <2>2. Entry(k)' = new
    BY <1>4, <1>9, <1>10, <1>13, <2>1 DEF Entry, PlanOf
  <2>3. \A j \in DOMAIN run : Entry(j)' = Entry(j)
    BY <2>1 DEF Entry, PlanOf
  <2>4. Bar' = [j \in DOMAIN run \cup {k} |-> Entry(j)']
    BY <2>1 DEF Bar
  <2>5. DOMAIN Bar = DOMAIN run /\ \A j \in DOMAIN run : Bar[j] = Entry(j)
    BY DEF Bar
  <2> QED BY <1>11, <2>2, <2>3, <2>4, <2>5
<1>15. DOMAIN Bar = DOMAIN run
  BY DEF Bar
<1>16. /\ <<f.event, r>> \notin DOMAIN Bar
       /\ \A j \in DOMAIN Bar : j[1] = f.event => Bar[j].status \in {"FAILED", "SKIPPED"}
       /\ Bar' = [j \in DOMAIN Bar \cup {<<f.event, r>>} |->
                    IF j = <<f.event, r>>
                    THEN [plan |-> plan, steps |-> << >>, status |-> "RUNNING"] ELSE Bar[j]]
  BY <1>10, <1>11, <1>12, <1>13, <1>14, <1>15
<1>17. Log!Enter(f.event, r, plan)
  BY <1>1, <1>16 DEF Log!Enter, Log!With, Bar
<1> QED BY <1>10, <1>17

(* A step that is written follows the plan. *)
LEMMA Adds ==
  ASSUME IInv, NEW f \in Frame, FrameOK(f), NEW k, k = Key(f), NEW row,
         Writes(k, row), row.status = run[k].status, row.snapshot = run[k].snapshot,
         NEW outcome, row.steps = Append(run[k].steps, Step(f, outcome)),
         \/ f.pc \in {"ok"} /\ outcome = "SUCCESS"
         \/ f.pc = "failed" /\ outcome = "FAILED"
         \/ f.pc = "skip" /\ outcome = "SKIPPED",
         events' = events
  PROVE  k \in DOMAIN Bar /\ Log!Add(k, outcome)
<1>1. f.pc \in Working /\ f.pc \in {"ok", "failed", "skip"}
  BY DEF Working
<1>2. /\ k \in DOMAIN run /\ Hand(f, run[k]) /\ TrailOf(k, run[k]) /\ run[k] \in Run
      /\ ActionsOf(k, run[k]) = ActionsInHand(f) /\ Len(ActionsInHand(f)) \in Nat
      /\ f.k \in Nat
  BY <1>1, HandIs
<1>3. PICK x \in Run : x = run[k]
  BY <1>2
<1>4. PICK plan : plan = ActionsInHand(f)
  OBVIOUS
<1>5. /\ DOMAIN Bar = DOMAIN run
      /\ Bar[k] = [plan |-> plan, steps |-> x.steps, status |-> x.status]
      /\ x.steps \in Seq(StepRow) /\ Len(x.steps) \in Nat
  BY <1>2, <1>3, <1>4, EntryIs
<1>6. /\ x.status = "RUNNING" /\ Len(x.steps) + 1 = f.k /\ f.k <= Len(plan)
      /\ x.failed = IF f.pc = "skip" THEN 1 ELSE 0
  BY <1>1, <1>2, <1>3, <1>4 DEF Hand
<1>7. outcome \in Log!Outcomes(x.steps)
  <2>1. Log!HasFailure(x.steps) <=> x.failed = 1
    BY <1>2, <1>3, Failures
  <2> QED BY <1>6, <2>1 DEF Log!Outcomes
<1>8. Step(f, outcome) = [action |-> plan[Len(x.steps) + 1], status |-> outcome]
  BY <1>4, <1>6 DEF Step, Action
<1>9. PICK e : e = [action |-> plan[Len(x.steps) + 1], status |-> outcome]
  OBVIOUS
<1>10. Bar' = [Bar EXCEPT ![k] = [plan |-> plan, steps |-> Append(x.steps, e),
                                  status |-> x.status]]
  BY <1>2, <1>3, <1>4, <1>8, <1>9, WrittenOver
<1>11. Bar' = [Bar EXCEPT ![k].steps = Append(@, e)]
  <2>1. PICK steps : steps = Append(x.steps, e)
    OBVIOUS
  <2>2. [Bar[k] EXCEPT !.steps = steps] = [plan |-> plan, steps |-> steps, status |-> x.status]
    BY <1>5
  <2>3. Bar[k].steps = x.steps
    BY <1>5
  <2> QED BY <1>10, <2>1, <2>2, <2>3
<1>12. /\ Bar[k].plan = plan /\ Bar[k].steps = x.steps /\ Bar[k].status = x.status
  BY <1>5
<1>13. /\ Bar[k].status = "RUNNING"
       /\ Len(Bar[k].steps) + 1 <= Len(Bar[k].plan)
       /\ outcome \in Log!Outcomes(Bar[k].steps)
       /\ Bar' = [Bar EXCEPT ![k].steps =
                    Append(@, [action |-> Bar[k].plan[Len(Bar[k].steps) + 1],
                               status |-> outcome])]
  BY <1>6, <1>7, <1>9, <1>11, <1>12
<1>14. Log!Add(k, outcome)
  BY <1>13 DEF Log!Add, Bar
<1> QED BY <1>2, <1>5, <1>14

LEMMA StepsAdd ==
  ASSUME IInv, NEW t \in Threads, Succeeded(t) \/ Failed(t) \/ SkipStep(t)
  PROVE  Log!Next
<1>1. Busy(t) /\ events' = events
  BY DEF Succeeded, Failed, SkipStep, At
<1>2. PICK f \in Frame : f = Top(t) /\ FrameOK(f)
  BY <1>1, TopIs
<1>3. PICK k : k = Key(f)
  OBVIOUS
<1>4. f.pc \in Working
  BY <1>2 DEF Succeeded, Failed, SkipStep, At, Working
<1>5. k \in DOMAIN run /\ run[k] \in Run
  BY <1>2, <1>3, <1>4, HandIs
<1>6. PICK x \in Run : x = run[k]
  BY <1>5
<1>7. ASSUME NEW outcome \in {"SUCCESS", "FAILED", "SKIPPED"}, NEW row, Writes(k, row),
             row.status = x.status, row.snapshot = x.snapshot,
             row.steps = Append(x.steps, Step(f, outcome)),
             \/ f.pc \in {"ok"} /\ outcome = "SUCCESS"
             \/ f.pc = "failed" /\ outcome = "FAILED"
             \/ f.pc = "skip" /\ outcome = "SKIPPED"
      PROVE  Log!Next
  <2>1. k \in DOMAIN Bar /\ Log!Add(k, outcome)
    BY <1>1, <1>2, <1>3, <1>6, <1>7, Adds
  <2> QED BY <2>1 DEF Log!Next, Bar
<1>8. CASE Succeeded(t)
  <2>1. f.pc = "ok"
    BY <1>2, <1>8 DEF Succeeded, At
  <2>2. PICK s, c : s = Append(x.steps, Step(f, "SUCCESS")) /\ c = x.success + 1
    OBVIOUS
  <2>3. PICK row : row = [x EXCEPT !.steps = s, !.success = c]
    OBVIOUS
  <2>4. row.status = x.status /\ row.snapshot = x.snapshot /\ row.steps = s
    BY <2>3 DEF Run
  <2>5. run' = [run EXCEPT ![k].steps   = Append(@, Step(f, "SUCCESS")),
                           ![k].success = @ + 1]
    BY <1>2, <1>3, <1>8 DEF Succeeded
  <2>6. Writes(k, row)
    BY <1>5, <1>6, <2>2, <2>3, <2>5 DEF Writes
  <2> QED BY <1>7, <2>1, <2>2, <2>4, <2>6
<1>9. CASE Failed(t)
  <2>1. f.pc = "failed"
    BY <1>2, <1>9 DEF Failed, At
  <2>2. PICK s, c : s = Append(x.steps, Step(f, "FAILED")) /\ c = x.failed + 1
    OBVIOUS
  <2>3. PICK row : row = [x EXCEPT !.steps = s, !.failed = c]
    OBVIOUS
  <2>4. row.status = x.status /\ row.snapshot = x.snapshot /\ row.steps = s
    BY <2>3 DEF Run
  <2>5. run' = [run EXCEPT ![k].steps  = Append(@, Step(f, "FAILED")),
                           ![k].failed = @ + 1]
    BY <1>2, <1>3, <1>9 DEF Failed
  <2>6. Writes(k, row)
    BY <1>5, <1>6, <2>2, <2>3, <2>5 DEF Writes
  <2> QED BY <1>7, <2>1, <2>2, <2>4, <2>6
<1>10. CASE SkipStep(t)
  <2>1. f.pc = "skip"
    BY <1>2, <1>10 DEF SkipStep, At
  <2>2. PICK s, c : /\ s = Append(x.steps, Step(f, "SKIPPED"))
                    /\ c = Len(ActionsInHand(f)) - (run[k].success + run[k].failed)
    OBVIOUS
  <2>3. PICK row : row = [x EXCEPT !.steps = s, !.skipped = c]
    OBVIOUS
  <2>4. row.status = x.status /\ row.snapshot = x.snapshot /\ row.steps = s
    BY <2>3 DEF Run
  <2>5. run' = [run EXCEPT ![k].steps   = Append(@, Step(f, "SKIPPED")),
                           ![k].skipped = Len(ActionsInHand(f))
                                          - (run[k].success + run[k].failed)]
    BY <1>2, <1>3, <1>10 DEF SkipStep
  <2>6. Writes(k, row)
    BY <1>5, <1>6, <2>2, <2>3, <2>5 DEF Writes
  <2> QED BY <1>7, <2>1, <2>2, <2>4, <2>6
<1> QED BY <1>8, <1>9, <1>10

(* A verdict follows from the steps. *)
LEMMA Verdicts ==
  ASSUME IInv, NEW t \in Threads, Close(t) \/ ConditionFalse(t)
  PROVE  Log!Next
<1>1. Busy(t) /\ events' = events
  BY DEF Close, ConditionFalse, At
<1>2. PICK f \in Frame : f = Top(t) /\ FrameOK(f)
  BY <1>1, TopIs
<1>3. PICK k : k = Key(f)
  OBVIOUS
<1>4. f.pc \in Working
  BY <1>2 DEF Close, ConditionFalse, At, Working
<1>5. /\ k \in DOMAIN run /\ run[k] \in Run /\ Hand(f, run[k]) /\ TrailOf(k, run[k])
      /\ ActionsOf(k, run[k]) = ActionsInHand(f)
  BY <1>2, <1>3, <1>4, HandIs
<1>6. PICK x \in Run : x = run[k]
  BY <1>5
<1>7. PICK plan : plan = ActionsInHand(f)
  OBVIOUS
<1>8. /\ DOMAIN Bar = DOMAIN run /\ k \in DOMAIN Bar
      /\ Bar[k] = [plan |-> plan, steps |-> x.steps, status |-> x.status]
  BY <1>5, <1>6, <1>7, EntryIs
<1>9. Bar[k].plan = plan /\ Bar[k].steps = x.steps /\ Bar[k].status = "RUNNING"
  BY <1>5, <1>6, <1>8 DEF Hand
<1>10. ASSUME NEW status, NEW row, Writes(k, row), row.status = status,
              row.snapshot = x.snapshot, row.steps = x.steps
       PROVE  Bar' = [Bar EXCEPT ![k].status = status]
  <2>1. Bar' = [Bar EXCEPT ![k] = [plan |-> plan, steps |-> x.steps, status |-> status]]
    BY <1>5, <1>6, <1>7, <1>10, WrittenOver
  <2>2. [Bar[k] EXCEPT !.status = status] = [plan |-> plan, steps |-> x.steps, status |-> status]
    BY <1>8
  <2> QED BY <2>1, <2>2
<1>11. CASE Close(t)
  <2>1. f.pc = "close"
    BY <1>2, <1>11 DEF Close, At
  <2>2. Len(x.steps) = Len(plan)
    BY <1>5, <1>6, <1>7, <2>1 DEF Hand
  <2>3. PICK status : status = IF x.failed > 0 THEN "FAILED" ELSE "SUCCESS"
    OBVIOUS
  <2>4. PICK row : row = [x EXCEPT !.status = status]
    OBVIOUS
  <2>5. row.status = status /\ row.snapshot = x.snapshot /\ row.steps = x.steps
    BY <2>4 DEF Run
  <2>6. run' = [run EXCEPT ![k].status = IF run[k].failed > 0 THEN "FAILED" ELSE "SUCCESS"]
    BY <1>2, <1>3, <1>11 DEF Close
  <2>7. Writes(k, row)
    BY <1>5, <1>6, <2>3, <2>4, <2>6 DEF Writes
  <2>8. status = IF Log!HasFailure(x.steps) THEN "FAILED" ELSE "SUCCESS"
    <3>1. Log!HasFailure(x.steps) <=> x.failed = 1
      BY <1>5, <1>6, Failures
    <3>2. x.failed \in {0, 1}
      BY <1>5, <1>6 DEF TrailOf
    <3> QED BY <2>3, <3>1, <3>2
  <2>9. Bar' = [Bar EXCEPT ![k].status = status]
    BY <1>10, <2>5, <2>7
  <2>10. /\ Bar[k].status = "RUNNING" /\ Len(Bar[k].steps) = Len(Bar[k].plan)
         /\ Bar' = [Bar EXCEPT ![k].status =
                      IF Log!HasFailure(Bar[k].steps) THEN "FAILED" ELSE "SUCCESS"]
    BY <1>9, <2>2, <2>8, <2>9
  <2>11. Log!Finish(k)
    BY <1>1, <2>10 DEF Log!Finish, Bar
  <2> QED BY <1>8, <2>11 DEF Log!Next, Bar
<1>12. CASE ConditionFalse(t)
  <2>1. f.pc = "reject"
    BY <1>2, <1>12 DEF ConditionFalse, At
  <2>2. x.steps = << >>
    BY <1>5, <1>6, <2>1 DEF Hand
  <2>3. PICK n : n = Len(ActionsInHand(f))
    OBVIOUS
  <2>4. PICK row : row = [x EXCEPT !.status = "SKIPPED", !.skipped = n]
    OBVIOUS
  <2>5. row.status = "SKIPPED" /\ row.snapshot = x.snapshot /\ row.steps = x.steps
    BY <2>4 DEF Run
  <2>6. run' = [run EXCEPT ![k].status  = "SKIPPED",
                           ![k].skipped = Len(ActionsInHand(f))]
    BY <1>2, <1>3, <1>12 DEF ConditionFalse
  <2>7. Writes(k, row)
    BY <1>5, <1>6, <2>3, <2>4, <2>6 DEF Writes
  <2>8. Bar' = [Bar EXCEPT ![k].status = "SKIPPED"]
    BY <1>10, <2>5, <2>7
  <2>9. Bar[k].steps = << >>
    BY <1>9, <2>2
  <2>10. Log!Reject(k)
    BY <1>1, <1>9, <2>8, <2>9 DEF Log!Reject, Bar
  <2> QED BY <1>8, <2>10 DEF Log!Next, Bar
<1> QED BY <1>11, <1>12

(* Every other step publishes an event or leaves the log alone. *)
LEMMA LogMoves ==
  ASSUME IInv, Next
  PROVE  Log!Next \/ (Bar' = Bar /\ events' = events)
<1>1. ASSUME run' = run PROVE Bar' = Bar
  BY <1>1 DEF Bar, Entry, PlanOf
<1>2. ASSUME run' = run, events' = events + 1 PROVE Log!Next
  BY <1>1, <1>2 DEF Log!Next, Log!Publish, Bar
<1>3. CASE \E t \in Threads : Subscriber(t)
  <2>1. PICK t \in Threads : Subscriber(t)
    BY <1>3
  <2>2. CASE Begin(t)
    <3>1. PICK e \in 1 .. events, r \in Rules :
            \E plan \in {Definition[r][n].actions : n \in DOMAIN Definition[r]} :
              Log!Enter(e, r, plan)
      BY <2>2, Enters
    <3>2. [q \in Rules |-> {Definition[q][n].actions : n \in DOMAIN Definition[q]}][r]
            = {Definition[r][n].actions : n \in DOMAIN Definition[r]}
      OBVIOUS
    <3> QED BY <3>1, <3>2 DEF Log!Next
  <2>3. CASE Succeeded(t) \/ Failed(t) \/ SkipStep(t)
    BY <2>3, StepsAdd
  <2>4. CASE Close(t) \/ ConditionFalse(t)
    BY <2>4, Verdicts
  <2>5. CASE UpdateLead(t) \/ Refresh(t) \/ CreateTask(t)
    <3>1. run' = run /\ (events' = events \/ events' = events + 1)
      BY <2>5 DEF UpdateLead, Refresh, CreateTask, Publish
    <3> QED BY <1>1, <1>2, <3>1
  <2>6. CASE \/ Select(t) \/ Starved(t) \/ SelectConditions(t) \/ SelectActions(t) \/ PassOver(t)
             \/ Return(t) \/ LoadLead(t) \/ NothingToUpdate(t) \/ NotATransition(t)
             \/ ActQuietly(t) \/ Raise(t) \/ Broken(t)
    <3>1. run' = run /\ events' = events
      BY <2>6 DEF Select, Starved, SelectConditions, SelectActions, PassOver, Return, LoadLead,
                  NothingToUpdate, NotATransition, ActQuietly, Raise, Broken
    <3> QED BY <1>1, <3>1
  <2> QED BY <2>1, <2>2, <2>3, <2>4, <2>5, <2>6 DEF Subscriber, Act
<1>4. CASE \E c \in Clients : Client(c)
  <2>1. run' = run /\ (events' = events \/ events' = events + 1)
    BY <1>4 DEF Client, PatchRead, PatchWrite
  <2> QED BY <1>1, <1>2, <2>1
<1>5. CASE \E t \in Runners, r \in Runnable, l \in Leads : RunManually(t, r, l)
  BY <1>2, <1>5 DEF RunManually
<1>6. CASE (\E r \in Rules : CreateRule(r) \/ EditRule(r)) \/ Crash
  BY <1>1, <1>6 DEF CreateRule, EditRule, Crash
<1> QED BY <1>3, <1>4, <1>5, <1>6 DEF Next

(* Executions implement the log: one is entered once and for an event that  *)
(* no other one runs for or has served, its steps are added in the order of *)
(* the snapshot, and its verdict is the one they give and is final          *)
(* (workflow_executor.py, execute).                                        *)
THEOREM LogImplemented == Spec => LogSpec
<1>1. Init => Log!Init
  <2> SUFFICES ASSUME Init PROVE Log!Init
    OBVIOUS
  <2>1. run = << >> /\ events = 0
    BY DEF Init
  <2>2. DOMAIN run = {}
    BY <2>1
  <2>3. Bar = << >>
    BY <2>2 DEF Bar
  <2> QED BY <2>1, <2>3 DEF Log!Init, Bar
<1>2. IInv /\ [Next]_vars => Log!Next \/ UNCHANGED <<events, Bar>>
  <2> SUFFICES ASSUME IInv, [Next]_vars PROVE Log!Next \/ UNCHANGED <<events, Bar>>
    OBVIOUS
  <2>1. CASE Next
    BY <2>1, LogMoves
  <2>2. CASE UNCHANGED vars
    BY <2>2 DEF vars, Bar, Entry, PlanOf
  <2> QED BY <2>1, <2>2
<1> QED BY <1>1, <1>2, Invariance, PTL DEF Spec, LogSpec, Log!Spec, Bar
=============================================================================
