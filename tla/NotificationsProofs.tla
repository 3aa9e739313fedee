------------------------- MODULE NotificationsProofs -------------------------
(***************************************************************************)
(* What holds of the outbound messages for any number of requests and      *)
(* passes, any backoffs and any schedule: types, one message per key,      *)
(* ordered timelines, and a status that agrees with its timeline.          *)
(***************************************************************************)
EXTENDS Notifications, FiniteSetTheorems, TLAPS

(* A row is in the table iff its request was told so, and has a timeline    *)
(* from its first day.                                                      *)
Rows ==
  \A m \in Messages : /\ asked[m] = "queued" <=> Exists(m)
                      /\ log[m] = <<>> <=> ~Exists(m)

(* The status a pass is about to commit tells the story of its timeline.    *)
Story(e, m) ==
  /\ mine[e][m].status = "SENT" =>
       added[e][m] # <<>> /\ Last(Timeline(e, m)) = "SENT" /\ sent[m] > 0
  /\ mine[e][m].status = "FAILED" => Failures(Timeline(e, m)) >= Len(Backoffs)
  /\ mine[e][m].status = "PROCESSING" =>
       \/ added[e][m] = <<>> /\ pc[e] = "flushing" /\ item[e] = m
       \/ added[e][m] # <<>> /\ Last(Timeline(e, m)) # "SENT"

(* What a pass holds of one message: nothing of a message it has still to   *)
(* dispatch, and the row's lock once it has inserted deliveries.            *)
Session(e, m) ==
  /\ m \in todo[e] =>
       Exists(m) /\ mine[e][m] = Unchanged /\ added[e][m] = <<>>
  /\ mine[e][m] # Unchanged => Exists(m)
  /\ mine[e][m] \in [status : {None, "PROCESSING", "SENT", "FAILED"},
                     wait   : (0 .. LastDelay) \cup {None}]
  /\ added[e][m] # <<>> => /\ lock[m] = e
                           /\ mine[e][m].status # None
                           /\ IsTimeline(Timeline(e, m))
  /\ pc[e] = "idle" => mine[e][m] = Unchanged /\ added[e][m] = <<>>
  /\ pc[e] = "flushing" /\ item[e] = m =>
       /\ m \notin todo[e]
       /\ mine[e][m].status = "PROCESSING"
       /\ added[e][m] = <<>>
       /\ m \in dirty[e] \/ lock[m] = e
  /\ Story(e, m)

Passes ==
  \A e \in Engines :
    /\ pc[e] = "idle" => todo[e] = {}
    /\ pc[e] = "flushing" => item[e] \in Messages
    /\ \A m \in Messages : Session(e, m)

-----------------------------------------------------------------------------
(* Operators. *)

(* Every nonempty set of numbers has a least one: the finite sets 1 .. n    *)
(* with n in S are well-founded under inclusion.                            *)
LEMMA LeastNumber ==
  ASSUME NEW S \in SUBSET Nat, S # {}
  PROVE  \E x \in S : \A y \in S : x <= y
<1> DEFINE Initial == {1 .. n : n \in S}
           R == StrictSubsetOrdering(Nat)
<1>1. Initial \subseteq FiniteSubsetsOf(Nat) /\ Initial # {}
  <2>1. ASSUME NEW n \in S PROVE IsFiniteSet(1 .. n) /\ 1 .. n \subseteq Nat
    BY FS_Interval
  <2> QED BY <2>1 DEF FiniteSubsetsOf
<1>2. PICK T \in Initial : \A U \in Initial : ~ (<<U, T>> \in R)
  <2>1. IsWellFoundedOn(R, FiniteSubsetsOf(Nat))
    BY FS_StrictSubsetOrderingWellFounded
  <2> HIDE DEF Initial, R
  <2> QED BY <1>1, <2>1, WFMin
<1>3. PICK x \in S : T = 1 .. x
  OBVIOUS
<1>4. ASSUME NEW y \in S, y < x PROVE FALSE
  <2>1. x \in Nat /\ y \in Nat
    OBVIOUS
  <2>2. 1 .. y \subseteq T /\ x \in T /\ x \notin 1 .. y
    BY <1>3, <1>4, <2>1
  <2>3. T \subseteq Nat /\ 1 .. y \subseteq Nat
    BY <1>3, <2>1
  <2>4. <<1 .. y, T>> \in R
    BY <2>2, <2>3 DEF StrictSubsetOrdering
  <2> QED BY <1>2, <2>4
<1> QED BY <1>4

(* A nonempty sequence of numbers has a largest element. *)
LEMMA LargestElement ==
  ASSUME NEW s \in Seq(Nat), s # <<>>
  PROVE  \E i \in DOMAIN s : \A k \in DOMAIN s : s[k] <= s[i]
<1> DEFINE n == Len(s)
           From(a) == \E i \in a .. n : \A k \in a .. n : s[k] <= s[i]
           S == {a \in 1 .. n : From(a)}
<1>1. n \in Nat /\ n > 0 /\ DOMAIN s = 1 .. n /\ \A i \in 1 .. n : s[i] \in Nat
  OBVIOUS
<1> HIDE DEF n
<1>2. n \in S
  BY <1>1
<1>3. PICK a \in S : \A b \in S : a <= b
  <2>1. S \subseteq Nat
    BY <1>1
  <2> HIDE DEF S
  <2> QED BY <1>2, <2>1, LeastNumber
<1>4. PICK i \in a .. n : \A k \in a .. n : s[k] <= s[i]
  BY <1>3
<1>5. a \in 1 .. n
  BY <1>3
<1>6. CASE a > 1
  <2> DEFINE b == a - 1
  <2>1. b \in 1 .. n /\ i \in b .. n /\ s[b] \in Nat /\ s[i] \in Nat
    BY <1>1, <1>4, <1>5, <1>6
  <2>2. \A k \in b .. n : k = b \/ k \in a .. n
    BY <1>1, <1>5
  <2>3. \A k \in b .. n : s[k] \in Nat
    BY <1>1, <2>1
  <2>4. CASE s[b] <= s[i]
    <3>1. From(b)
      BY <1>4, <2>1, <2>2, <2>4
    <3>2. b \in S /\ ~ (a <= b)
      BY <1>5, <2>1, <3>1
    <3> QED BY <1>3, <3>2
  <2>5. CASE s[b] > s[i]
    <3>1. \A k \in b .. n : s[k] <= s[b]
      BY <1>4, <2>1, <2>2, <2>3, <2>5
    <3>2. From(b)
      <4>1. b \in b .. n
        BY <2>1, <1>1
      <4> QED BY <3>1, <4>1
    <3>3. b \in S /\ ~ (a <= b)
      BY <1>5, <2>1, <3>2
    <3> QED BY <1>3, <3>3
  <2>6. s[b] <= s[i] \/ s[b] > s[i]
    BY <2>1
  <2> QED BY <2>4, <2>5, <2>6
<1>7. CASE a = 1
  BY <1>1, <1>4, <1>7
<1> HIDE DEF S, From
<1> QED BY <1>1, <1>5, <1>6, <1>7

LEMMA LastDelayBounds ==
  LastDelay \in Nat /\ \A i \in DOMAIN Backoffs : Backoffs[i] \in 0 .. LastDelay
<1> DEFINE B == {Backoffs[i] : i \in DOMAIN Backoffs}
<1>1. \A i \in DOMAIN Backoffs : Backoffs[i] \in Nat
  BY BackoffsAssumption
<1>2. PICK i \in DOMAIN Backoffs : \A k \in DOMAIN Backoffs : Backoffs[k] <= Backoffs[i]
  BY BackoffsAssumption, LargestElement
<1>3. Backoffs[i] \in B /\ \A y \in B : Backoffs[i] >= y
  BY <1>1, <1>2
<1>4. Max(B) \in B /\ \A y \in B : Max(B) >= y
  BY <1>3 DEF Max
<1>5. LastDelay = Max(B)
  BY DEF LastDelay
<1> QED BY <1>1, <1>4, <1>5

LEMMA LeftBounds ==
  ASSUME NEW d \in 0 .. LastDelay, NEW t \in Nat
  PROVE  Left(d, t) \in 0 .. LastDelay
BY LastDelayBounds DEF Left

LEMMA MinOfTwo ==
  ASSUME NEW a \in Nat, NEW b \in Nat
  PROVE  Min({a, b}) = IF a <= b THEN a ELSE b
<1> DEFINE l == IF a <= b THEN a ELSE b
<1>1. l \in {a, b} /\ \A y \in {a, b} : l <= y
  OBVIOUS
<1>2. \A x \in {a, b} : (\A y \in {a, b} : x <= y) => x = l
  OBVIOUS
<1> QED BY <1>1, <1>2 DEF Min

-----------------------------------------------------------------------------
(* Timelines. *)

Failed(t) == {i \in DOMAIN t : t[i].event = "FAILED"}

LEMMA FailedFinite ==
  ASSUME NEW t \in Seq(Delivery)
  PROVE  IsFiniteSet(Failed(t)) /\ Failures(t) = Cardinality(Failed(t)) /\ Failures(t) \in Nat
<1>1. DOMAIN t = 1 .. Len(t) /\ Len(t) \in Nat
  OBVIOUS
<1>2. IsFiniteSet(1 .. Len(t)) /\ Failed(t) \in SUBSET (1 .. Len(t))
  BY <1>1, FS_Interval DEF Failed
<1>3. IsFiniteSet(Failed(t))
  BY <1>2, FS_Subset
<1> QED BY <1>3, FS_CardinalityType DEF Failures, Failed

(* Deliveries are never taken back. *)
LEMMA FailuresGrow ==
  ASSUME NEW t \in Seq(Delivery), NEW u \in Seq(Delivery)
  PROVE  Failures(t) <= Failures(t \o u)
<1>1. t \o u \in Seq(Delivery)
  OBVIOUS
<1>2. Failed(t) \in SUBSET Failed(t \o u)
  BY DEF Failed
<1> QED BY <1>1, <1>2, FailedFinite, FS_Subset

LEMMA FailuresOfOne ==
  ASSUME NEW t \in Seq(Delivery), NEW f \in Delivery, f.event = "FAILED"
  PROVE  Failures(t \o <<f>>) = Failures(t) + 1
<1> DEFINE u == t \o <<f>>
<1>1. /\ u \in Seq(Delivery) /\ Len(u) = Len(t) + 1 /\ u[Len(t) + 1] = f
      /\ \A i \in 1 .. Len(t) : u[i] = t[i]
      /\ Len(t) \in Nat /\ DOMAIN t = 1 .. Len(t) /\ DOMAIN u = 1 .. Len(u)
  OBVIOUS
<1> HIDE DEF u
<1>2. Failed(u) = Failed(t) \cup {Len(t) + 1} /\ Len(t) + 1 \notin Failed(t)
  BY <1>1 DEF Failed
<1>3. /\ IsFiniteSet(Failed(t)) /\ Failures(t) = Cardinality(Failed(t))
      /\ Failures(u) = Cardinality(Failed(u))
  BY <1>1, FailedFinite
<1> QED BY <1>2, <1>3, FS_AddElement DEF u

(* What an attempt appends. *)
LEMMA FailuresOfAttempt ==
  ASSUME NEW t \in Seq(Delivery), NEW p \in Delivery, NEW f \in Delivery,
         p.event = "PROCESSING", f.event = "FAILED"
  PROVE  Failures(t \o <<p, f>>) = Failures(t) + 1
<1> DEFINE u == t \o <<p, f>>
<1>1. /\ u \in Seq(Delivery) /\ Len(u) = Len(t) + 2
      /\ u[Len(t) + 1] = p /\ u[Len(t) + 2] = f
      /\ \A i \in 1 .. Len(t) : u[i] = t[i]
      /\ Len(t) \in Nat /\ DOMAIN t = 1 .. Len(t) /\ DOMAIN u = 1 .. Len(u)
  OBVIOUS
<1> HIDE DEF u
<1>2. Failed(u) = Failed(t) \cup {Len(t) + 2} /\ Len(t) + 2 \notin Failed(t)
  BY <1>1 DEF Failed
<1>3. /\ IsFiniteSet(Failed(t)) /\ Failures(t) = Cardinality(Failed(t))
      /\ Failures(u) = Cardinality(Failed(u))
  BY <1>1, FailedFinite
<1> QED BY <1>2, <1>3, FS_AddElement DEF u

(* coalesce(max(sequence_no), 0) + 1 is the next free number. *)
LEMMA NextSeqIsNext ==
  ASSUME NEW t \in Seq(Delivery), \A i \in DOMAIN t : t[i].seq = i
  PROVE  Max({0} \cup {t[i].seq : i \in DOMAIN t}) + 1 = Len(t) + 1
<1> DEFINE S == {0} \cup {t[i].seq : i \in DOMAIN t}
<1>1. Len(t) \in Nat /\ DOMAIN t = 1 .. Len(t)
  OBVIOUS
<1>2. Len(t) \in S /\ \A y \in S : y \in Nat /\ Len(t) >= y
  BY <1>1
<1>3. \A x \in S : (\A y \in S : x >= y) => x = Len(t)
  BY <1>2
<1>4. Max(S) = Len(t)
  BY <1>2, <1>3 DEF Max
<1> QED BY <1>4

LEMMA AttemptExtends ==
  ASSUME NEW t \in Seq(Delivery), t # <<>>, IsTimeline(t),
         NEW event \in {"SENT", "FAILED"}
  PROVE  LET u == t \o <<[seq |-> Len(t) + 1, event |-> "PROCESSING"],
                         [seq |-> Len(t) + 2, event |-> event]>>
         IN IsTimeline(u) /\ Last(u) = event
<1> DEFINE p == [seq |-> Len(t) + 1, event |-> "PROCESSING"]
           f == [seq |-> Len(t) + 2, event |-> event]
           u == t \o <<p, f>>
<1>1. /\ Len(u) = Len(t) + 2 /\ u[Len(t) + 1] = p /\ u[Len(t) + 2] = f
      /\ \A i \in 1 .. Len(t) : u[i] = t[i]
      /\ Len(t) \in Nat /\ DOMAIN t = 1 .. Len(t) /\ DOMAIN u = 1 .. Len(u)
      /\ Len(t) > 0
  OBVIOUS
<1>2. Len(t) % 2 = 1
  BY DEF IsTimeline
<1>3. (Len(t) + 1) % 2 = 0 /\ (Len(t) + 2) % 2 = 1
  BY <1>1, <1>2
<1> HIDE DEF u
<1>4. ASSUME NEW i \in DOMAIN u
      PROVE  /\ u[i].seq = i
             /\ u[i].event \in IF i = 1 THEN {"QUEUED"}
                               ELSE IF i % 2 = 0 THEN {"PROCESSING"}
                               ELSE {"SENT", "FAILED"}
  <2>1. CASE i \in 1 .. Len(t)
    BY <1>1, <2>1 DEF IsTimeline
  <2>2. CASE i = Len(t) + 1
    BY <1>1, <1>3, <2>2
  <2>3. CASE i = Len(t) + 2
    BY <1>1, <1>3, <2>3
  <2> QED BY <1>1, <2>1, <2>2, <2>3
<1>5. IsTimeline(u)
  BY <1>1, <1>3, <1>4 DEF IsTimeline
<1>6. Last(u) = event
  BY <1>1 DEF Last
<1> QED BY <1>5, <1>6 DEF u

-----------------------------------------------------------------------------
(* The frame: what a step leaves alone. *)

PassOK(e) ==
  /\ pc[e] = "idle" => todo[e] = {}
  /\ pc[e] = "flushing" => item[e] \in Messages
  /\ \A m \in Messages : Session(e, m)

Tables == /\ Rows
          /\ OneMessagePerKey
          /\ \A m \in Messages : IsTimeline(log[m])
          /\ StatusMatchesTimeline

IInv == TypeOK /\ Tables /\ Passes

LEMMA EmptyTail ==
  ASSUME NEW t \in Seq(Delivery)
  PROVE  t \o <<>> = t
OBVIOUS

(* Another session's deliveries only lengthen the timelines this session    *)
(* has not touched.                                                         *)
LEMMA SessionFrame ==
  ASSUME IInv, NEW f \in Engines, NEW m \in Messages,
         pc'[f] = pc[f], todo'[f] = todo[f], item'[f] = item[f],
         dirty'[f] = dirty[f], mine'[f][m] = mine[f][m], added'[f][m] = added[f][m],
         Exists(m) => Exists(m)', lock[m] = f => lock'[m] = f,
         sent[m] > 0 => sent'[m] > 0,
         \/ log'[m] = log[m]
         \/ added[f][m] = <<>> /\ \E u \in Seq(Delivery) : log'[m] = log[m] \o u
  PROVE  Session(f, m)'
<1>1. Session(f, m) /\ log[m] \in Seq(Delivery) /\ added[f][m] \in Seq(Delivery)
  BY DEF IInv, Passes, TypeOK
<1>2. CASE log'[m] = log[m]
  BY <1>1, <1>2 DEF Session, Story, Timeline, Last, Unchanged
<1>3. CASE added[f][m] = <<>> /\ \E u \in Seq(Delivery) : log'[m] = log[m] \o u
  <2>1. Failures(log[m] \o <<>>) <= Failures(log'[m] \o <<>>)
    <3>1. PICK u \in Seq(Delivery) : log'[m] = log[m] \o u
      BY <1>3
    <3>2. log[m] \o <<>> = log[m] /\ log'[m] \o <<>> = log[m] \o u
      BY <1>1, <3>1
    <3> QED BY <1>1, <3>2, FailuresGrow
  <2>2. /\ Failures(log[m] \o <<>>) \in Nat /\ Failures(log'[m] \o <<>>) \in Nat
        /\ Len(Backoffs) \in Nat
    <3>1. log'[m] \in Seq(Delivery)
      BY <1>1, <1>3
    <3> QED BY <1>1, <3>1, EmptyTail, FailedFinite, BackoffsAssumption
  <2>3. Timeline(f, m) = log[m] \o <<>> /\ Timeline(f, m)' = log'[m] \o <<>>
    BY <1>3 DEF Timeline
  <2>4. Story(f, m)'
    BY <1>1, <1>3, <2>1, <2>2, <2>3 DEF Session, Story
  <2> QED BY <1>1, <1>3, <2>4 DEF Session, Unchanged
<1> QED BY <1>2, <1>3

(* A step of one pass that changes no committed row. *)
LEMMA PassStep ==
  ASSUME IInv, TypeOK', NEW e \in Engines, UNCHANGED <<comm, log, asked>>,
         \A m \in Messages : sent[m] > 0 => sent'[m] > 0,
         \A f \in Engines \ {e} :
           /\ pc'[f] = pc[f] /\ todo'[f] = todo[f] /\ item'[f] = item[f]
           /\ dirty'[f] = dirty[f] /\ mine'[f] = mine[f] /\ added'[f] = added[f]
           /\ \A m \in Messages : lock[m] = f => lock'[m] = f,
         PassOK(e)'
  PROVE  IInv'
<1>1. Tables'
  <2>1. Rows' /\ OneMessagePerKey'
    BY DEF IInv, Tables, Rows, OneMessagePerKey, Exists, KeyInUse
  <2>2. StatusMatchesTimeline'
    BY DEF IInv, Tables, StatusMatchesTimeline, Exists
  <2> QED BY <2>1, <2>2 DEF IInv, Tables
<1>2. ASSUME NEW f \in Engines, f # e PROVE PassOK(f)'
  <2>1. \A m \in Messages : Session(f, m)'
    BY <1>2, SessionFrame DEF Exists
  <2> QED BY <1>2, <2>1 DEF IInv, Passes, PassOK
<1>3. Passes'
  BY <1>2 DEF Passes, PassOK
<1> QED BY <1>1, <1>3 DEF IInv

(* A step that changes no session and no committed row or only `asked'. *)
LEMMA IdleTables ==
  ASSUME IInv, UNCHANGED <<comm, log, sent>>, Rows', OneMessagePerKey'
  PROVE  Tables'
BY DEF IInv, Tables, StatusMatchesTimeline, Exists

LEMMA IdlePasses ==
  ASSUME IInv, UNCHANGED <<comm, log, sent, lock, pc, session>>
  PROVE  Passes'
<1>1. ASSUME NEW f \in Engines, NEW m \in Messages PROVE Session(f, m)'
  BY SessionFrame DEF session, Exists
<1> QED BY <1>1 DEF IInv, Passes, session

-----------------------------------------------------------------------------
LEMMA InitEstablishes == Init => IInv
<1> SUFFICES ASSUME Init PROVE IInv
  OBVIOUS
<1>1. LastDelay \in Nat /\ N \in Nat /\ MaxSent \in Nat
  BY LastDelayBounds, MessagesAssumption, BoundAssumption
<1>2. TypeOK
  <2>1. /\ comm \in [Messages -> [status : Status, wait : 0 .. LastDelay]]
        /\ log \in [Messages -> Seq(Delivery)]
        /\ sent \in [Messages -> 0 .. MaxSent]
    BY <1>1 DEF Init, Status
  <2>2. /\ mine \in [Engines -> [Messages -> [status : Status \cup {None},
                                              wait   : Nat \cup {None}]]]
        /\ added \in [Engines -> [Messages -> Seq(Delivery)]]
    BY DEF Init, Unchanged
  <2>3. /\ asked \in [Messages -> {"new", "checked", "duplicate", "refused",
                                   "conflict", "queued"}]
        /\ lock \in [Messages -> Engines \cup {None}]
        /\ pc \in [Engines -> {"idle", "passing", "flushing"}]
        /\ todo \in [Engines -> SUBSET Messages]
        /\ item \in [Engines -> Messages \cup {None}]
        /\ dirty \in [Engines -> SUBSET Messages]
    BY DEF Init
  <2>4. age \in [Engines -> 0 .. LastDelay]
    BY <1>1 DEF Init
  <2>5. enabled \in BOOLEAN
    BY DEF Init
  <2> QED BY <2>1, <2>2, <2>3, <2>4, <2>5 DEF TypeOK
<1>3. \A m \in Messages : ~Exists(m) /\ log[m] = <<>> /\ asked[m] = "new"
  BY DEF Init, Exists
<1>4. Tables
  <2>1. IsTimeline(<<>>)
    BY DEF IsTimeline
  <2>2. Rows /\ OneMessagePerKey /\ StatusMatchesTimeline
    BY <1>3 DEF Rows, OneMessagePerKey, StatusMatchesTimeline
  <2> QED BY <1>3, <2>1, <2>2 DEF Tables
<1>5. Passes
  <2> SUFFICES ASSUME NEW e \in Engines, NEW m \in Messages PROVE Session(e, m)
    BY DEF Init, Passes
  <2>1. /\ mine[e][m] = Unchanged /\ added[e][m] = <<>> /\ todo[e] = {}
        /\ pc[e] = "idle"
    BY DEF Init
  <2>2. mine[e][m].status = None
    BY <2>1 DEF Unchanged
  <2>3. Story(e, m)
    BY <2>2, NoneAssumption DEF Story, Status
  <2>4. mine[e][m] \in [status : {None, "PROCESSING", "SENT", "FAILED"},
                        wait   : (0 .. LastDelay) \cup {None}]
    BY <2>1 DEF Unchanged
  <2> QED BY <2>1, <2>3, <2>4 DEF Session
<1> QED BY <1>2, <1>4, <1>5 DEF IInv

LEMMA QueueKeeps ==
  ASSUME IInv, NEW m \in Messages, CheckKey(m) \/ Refuse(m) \/ InsertConflict(m)
  PROVE  IInv'
<1>1. /\ UNCHANGED <<comm, log, enabled, sent, lock, pc, session>>
      /\ asked[m] \in {"new", "checked"}
      /\ \E a \in {"checked", "duplicate", "refused", "conflict"} :
           /\ asked' = [asked EXCEPT ![m] = a]
           /\ a \in {"duplicate", "conflict"} => KeyInUse(m)
  BY DEF CheckKey, Refuse, InsertConflict, UniqueIndex
<1>2. TypeOK'
  BY <1>1 DEF IInv, TypeOK, session
<1>3. \A n \in Messages : /\ Exists(n)' <=> Exists(n)
                          /\ KeyInUse(n)' <=> KeyInUse(n)
                          /\ n # m => asked'[n] = asked[n]
  BY <1>1 DEF Exists, KeyInUse, IInv, TypeOK
<1>4. asked'[m] # "queued" /\ (asked'[m] \in {"duplicate", "conflict"} => KeyInUse(m))
  BY <1>1 DEF IInv, TypeOK
<1>5. Rows' /\ OneMessagePerKey'
  BY <1>1, <1>3, <1>4 DEF IInv, Tables, Rows, OneMessagePerKey
<1> QED BY <1>1, <1>2, <1>5, IdleTables, IdlePasses DEF IInv

(* The unique index is what makes the select's answer safe. *)
LEMMA InsertKeeps ==
  ASSUME IInv, NEW m \in Messages, Insert(m)
  PROVE  IInv'
<1> DEFINE d == [seq |-> 1, event |-> "QUEUED"]
<1>1. /\ asked[m] = "checked" /\ ~KeyInUse(m)
      /\ comm' = [comm EXCEPT ![m] = [status |-> "QUEUED", wait |-> 0]]
      /\ log' = [log EXCEPT ![m] = Append(@, d)]
      /\ asked' = [asked EXCEPT ![m] = "queued"]
      /\ UNCHANGED <<enabled, sent, lock, pc, session>>
  BY DEF Insert, UniqueIndex
<1>2. ~Exists(m) /\ log[m] = <<>>
  BY <1>1 DEF IInv, Tables, Rows
<1>3. d \in Delivery
  BY DEF Delivery, Event
<1>4. log'[m] = <<d>> /\ \A n \in Messages \ {m} : log'[n] = log[n] /\ comm'[n] = comm[n]
  BY <1>1, <1>2 DEF IInv, TypeOK
<1>5. TypeOK'
  <2>1. comm' \in [Messages -> [status : Status, wait : 0 .. LastDelay]]
    BY <1>1, LastDelayBounds DEF IInv, TypeOK, Status
  <2>2. log' \in [Messages -> Seq(Delivery)]
    BY <1>1, <1>3 DEF IInv, TypeOK
  <2>3. asked' \in [Messages -> {"new", "checked", "duplicate", "refused", "conflict", "queued"}]
    BY <1>1 DEF IInv, TypeOK
  <2> QED BY <1>1, <2>1, <2>2, <2>3 DEF IInv, TypeOK, session
<1>6. comm'[m].status = "QUEUED" /\ Exists(m)'
  BY <1>1 DEF Exists, IInv, TypeOK
<1>7. \A n \in Messages \ {m} : Exists(n)' <=> Exists(n)
  BY <1>4 DEF Exists
<1>8. Rows'
  BY <1>1, <1>4, <1>6, <1>7 DEF IInv, Tables, Rows, TypeOK
<1>9. \A n \in Messages : KeyInUse(n) => KeyInUse(n)'
  BY <1>2, <1>7 DEF KeyInUse
<1>10. OneMessagePerKey'
  <2>1. \A n \in Messages : Exists(n) => KeyOf[n] # KeyOf[m]
    BY <1>1 DEF KeyInUse
  <2>2. \A n \in Messages \ {m} : asked'[n] = asked[n]
    BY <1>1 DEF IInv, TypeOK
  <2>3. asked'[m] = "queued"
    BY <1>1 DEF IInv, TypeOK
  <2> QED
    BY <1>6, <1>7, <1>9, <2>1, <2>2, <2>3 DEF IInv, Tables, OneMessagePerKey
<1>11. \A n \in Messages : IsTimeline(log'[n])
  <2>1. IsTimeline(<<d>>)
    BY DEF IsTimeline
  <2> QED BY <1>4, <2>1 DEF IInv, Tables
<1>12. StatusMatchesTimeline'
  <2>1. Last(<<d>>) # "SENT"
    BY DEF Last
  <2> QED BY <1>1, <1>4, <1>6, <1>7, <2>1 DEF IInv, Tables, StatusMatchesTimeline
<1>13. Passes'
  <2>1. ASSUME NEW f \in Engines, NEW n \in Messages PROVE Session(f, n)'
    <3>1. n = m => mine[f][m] = Unchanged /\ added[f][m] = <<>>
      <4>1. Session(f, m)
        BY DEF IInv, Passes
      <4> QED BY <1>2, <4>1, NoneAssumption DEF Session, Unchanged
    <3>2. n = m => log'[n] = log[n] \o <<d>> /\ <<d>> \in Seq(Delivery)
      <4>1. <<>> \o <<d>> = <<d>> /\ <<d>> \in Seq(Delivery)
        BY <1>3
      <4> QED BY <1>2, <1>4, <4>1
    <3>3. Exists(n) => Exists(n)'
      BY <1>2, <1>7
    <3> QED BY <1>1, <1>4, <1>5, <3>1, <3>2, <3>3, SessionFrame DEF session
  <2> QED BY <1>1, <2>1 DEF IInv, Passes, session
<1> QED BY <1>5, <1>8, <1>10, <1>11, <1>12, <1>13 DEF IInv, Tables

-----------------------------------------------------------------------------
(* The pass. *)

MineType == [status : {None, "PROCESSING", "SENT", "FAILED"},
             wait   : (0 .. LastDelay) \cup {None}]

(* The steps that change no session but the one of pass e. *)
LEMMA MineTyped ==
  ASSUME IInv, NEW e \in Engines, NEW m \in Messages
  PROVE  /\ mine[e][m] \in MineType
         /\ mine[e][m] = Unchanged <=>
              mine[e][m].status = None /\ mine[e][m].wait = None
<1>1. mine[e][m] \in MineType
  BY DEF IInv, Passes, Session, MineType
<1> QED BY <1>1 DEF MineType, Unchanged

LEMMA MineKeepsType ==
  ASSUME IInv, NEW e \in Engines, NEW m \in Messages, NEW c \in MineType
  PROVE  [mine EXCEPT ![e][m] = c] \in
           [Engines -> [Messages -> [status : Status \cup {None}, wait : Nat \cup {None}]]]
<1>1. c \in [status : Status \cup {None}, wait : Nat \cup {None}]
  BY LastDelayBounds DEF MineType, Status
<1> QED BY <1>1 DEF IInv, TypeOK

LEMMA SelectKeeps ==
  ASSUME IInv, NEW e \in Engines, Select(e)
  PROVE  IInv'
<1>1. /\ pc[e] = "idle"
      /\ pc' = [pc EXCEPT ![e] = "passing"]
      /\ todo' = [todo EXCEPT ![e] = Due]
      /\ UNCHANGED <<comm, log, asked, enabled, sent, lock, item, mine, dirty, added,
                     age>>
  BY DEF Select
<1>2. TypeOK'
  BY <1>1 DEF IInv, TypeOK, Due
<1>3. /\ pc'[e] = "passing" /\ todo'[e] = Due
      /\ \A f \in Engines \ {e} : pc'[f] = pc[f] /\ todo'[f] = todo[f]
  BY <1>1 DEF IInv, TypeOK
<1>4. \A m \in Due : Exists(m)
  BY DEF Due, Queued, Exists
<1>5. ASSUME NEW m \in Messages PROVE Session(e, m)'
  <2>1. Session(e, m) /\ mine[e][m] = Unchanged /\ added[e][m] = <<>>
    BY <1>1 DEF IInv, Passes, Session
  <2>2. mine[e][m].status = None
    BY <2>1 DEF Unchanged
  <2>3. Story(e, m)'
    BY <1>1, <2>2, NoneAssumption DEF Story, Status
  <2> QED BY <1>1, <1>3, <1>4, <2>1, <2>3 DEF Session, Exists, Unchanged
<1>6. PassOK(e)'
  BY <1>3, <1>5 DEF PassOK
<1> QED BY <1>1, <1>2, <1>3, <1>6, PassStep

(* Giving up needs as many failures as there are backoffs. *)
LEMMA GiveUpOrRescheduleIs ==
  ASSUME IInv, NEW e \in Engines, NEW m \in Messages, NEW t \in Seq(Delivery)
  PROVE  LET g == GiveUpOrReschedule(e, m, t)
         IN /\ g \in MineType
            /\ \/ g.status = "FAILED" /\ Failures(t) >= Len(Backoffs)
               \/ g.status = mine[e][m].status
<1>1. mine[e][m] \in MineType
  BY MineTyped
<1>2. CASE Failures(t) >= Len(Backoffs)
  BY <1>1, <1>2 DEF GiveUpOrReschedule, MineType
<1>3. CASE ~(Failures(t) >= Len(Backoffs))
  <2>1. Failures(t) \in Nat /\ Len(Backoffs) \in Nat /\ Len(Backoffs) > 0
        /\ DOMAIN Backoffs = 1 .. Len(Backoffs)
    BY FailedFinite, BackoffsAssumption
  <2>2. Delay(Failures(t)) \in 0 .. LastDelay
    BY <1>3, <2>1, LastDelayBounds DEF Delay
  <2>3. age[e] \in Nat
    BY LastDelayBounds DEF IInv, TypeOK
  <2> DEFINE w == Left(Delay(Failures(t)), age[e])
  <2>4. w \in 0 .. LastDelay
    BY <2>2, <2>3, LeftBounds
  <2>5. GiveUpOrReschedule(e, m, t) = [mine[e][m] EXCEPT !.wait = w]
    BY <1>3 DEF GiveUpOrReschedule
  <2> HIDE DEF w
  <2> QED BY <1>1, <2>4, <2>5 DEF MineType
<1> QED BY <1>2, <1>3

LEMMA DispatchKeeps ==
  ASSUME IInv, NEW e \in Engines, NEW m \in Messages, Dispatch(e, m)
  PROVE  IInv'
<1> DEFINE g == GiveUpOrReschedule(e, m, Timeline(e, m))
           p == [mine[e][m] EXCEPT !.status = "PROCESSING"]
<1>1. /\ pc[e] = "passing" /\ m \in todo[e]
      /\ todo' = [todo EXCEPT ![e] = @ \ {m}]
      /\ dirty' = [dirty EXCEPT ![e] = @ \cup {m}]
      /\ UNCHANGED <<comm, log, asked, enabled, sent, lock, added, age>>
  BY DEF Dispatch
<1>2. /\ Exists(m) /\ mine[e][m] = Unchanged /\ added[e][m] = <<>>
      /\ mine[e][m] \in MineType
  BY <1>1, MineTyped DEF IInv, Passes, Session
<1>3. Timeline(e, m) \in Seq(Delivery)
  BY DEF Timeline, IInv, TypeOK
<1>4. /\ g \in MineType
      /\ \/ g.status = "FAILED" /\ Failures(Timeline(e, m)) >= Len(Backoffs)
         \/ g.status = None
  BY <1>2, <1>3, GiveUpOrRescheduleIs DEF Unchanged
<1>5. p \in MineType /\ p.status = "PROCESSING"
  BY <1>2 DEF MineType
<1>6. \/ /\ mine' = [mine EXCEPT ![e][m] = p]
         /\ item' = [item EXCEPT ![e] = m]
         /\ pc' = [pc EXCEPT ![e] = "flushing"]
      \/ mine' = [mine EXCEPT ![e][m] = g] /\ UNCHANGED <<item, pc>>
  <2>1. CASE enabled
    <3>1. /\ mine' = [mine EXCEPT ![e][m].status = "PROCESSING"]
          /\ item' = [item EXCEPT ![e] = m]
          /\ pc' = [pc EXCEPT ![e] = "flushing"]
      BY <2>1 DEF Dispatch
    <3>2. mine' = [mine EXCEPT ![e][m] = p]
      BY <3>1 DEF IInv, TypeOK
    <3> QED BY <3>1, <3>2
  <2>2. CASE ~enabled
    BY <2>2 DEF Dispatch
  <2> QED BY <2>1, <2>2
<1> HIDE DEF g, p
<1>7. TypeOK'
  <2>1. mine' \in [Engines -> [Messages -> [status : Status \cup {None},
                                            wait : Nat \cup {None}]]]
    <3>1. mine' = [mine EXCEPT ![e][m] = p] \/ mine' = [mine EXCEPT ![e][m] = g]
      BY <1>6
    <3> QED BY <1>4, <1>5, <3>1, MineKeepsType
  <2>2. /\ pc' \in [Engines -> {"idle", "passing", "flushing"}]
        /\ item' \in [Engines -> Messages \cup {None}]
    <3>1. CASE UNCHANGED <<item, pc>>
      BY <3>1 DEF IInv, TypeOK
    <3>2. CASE item' = [item EXCEPT ![e] = m] /\ pc' = [pc EXCEPT ![e] = "flushing"]
      BY <3>2 DEF IInv, TypeOK
    <3> QED BY <1>6, <3>1, <3>2
  <2>3. todo' \in [Engines -> SUBSET Messages] /\ dirty' \in [Engines -> SUBSET Messages]
    BY <1>1 DEF IInv, TypeOK
  <2> QED BY <1>1, <2>1, <2>2, <2>3 DEF IInv, TypeOK
<1>8. /\ \A f \in Engines \ {e} : /\ pc'[f] = pc[f] /\ todo'[f] = todo[f]
                                  /\ item'[f] = item[f] /\ dirty'[f] = dirty[f]
                                  /\ mine'[f] = mine[f]
      /\ \A n \in Messages \ {m} : mine'[e][n] = mine[e][n]
      /\ todo'[e] = todo[e] \ {m} /\ m \in dirty'[e]
      /\ \/ pc'[e] = "flushing" /\ item'[e] = m /\ mine'[e][m] = p
         \/ pc'[e] = "passing" /\ mine'[e][m] = g
  BY <1>1, <1>6 DEF IInv, TypeOK
<1>9. ASSUME NEW n \in Messages, n # m PROVE Session(e, n)'
  <2>1. Session(e, n)
    BY DEF IInv, Passes
  <2>2. n \in todo'[e] => n \in todo[e]
    BY <1>8
  <2>3. pc'[e] # "idle" /\ ~(pc'[e] = "flushing" /\ item'[e] = n)
    BY <1>8, <1>9
  <2>4. Story(e, n)'
    BY <1>1, <1>8, <1>9, <2>1 DEF Session, Story, Timeline, Last
  <2> QED BY <1>1, <1>8, <1>9, <2>1, <2>2, <2>3, <2>4
         DEF Session, Unchanged, Exists, Timeline
<1>10. Session(e, m)'
  <2>1. mine'[e][m] \in MineType /\ added'[e][m] = <<>> /\ Exists(m)' /\ m \notin todo'[e]
    BY <1>1, <1>2, <1>4, <1>5, <1>8 DEF Exists
  <2>2. Timeline(e, m)' = Timeline(e, m)
    BY <1>1 DEF Timeline
  <2>3. Story(e, m)'
    BY <1>4, <1>5, <1>8, <2>1, <2>2, NoneAssumption DEF Story, Status
  <2> QED BY <1>5, <1>8, <2>1, <2>3 DEF Session, MineType
<1>11. PassOK(e)'
  BY <1>8, <1>9, <1>10 DEF PassOK
<1> QED BY <1>1, <1>7, <1>8, <1>11, PassStep

LEMMA WriteKeeps ==
  ASSUME IInv, NEW e \in Engines, Write(e)
  PROVE  IInv'
<1> DEFINE k == Min(dirty[e])
<1>1. /\ lock[k] \in {None, e}
      /\ lock' = [lock EXCEPT ![k] = e]
      /\ dirty' = [dirty EXCEPT ![e] = @ \ {k}]
      /\ UNCHANGED <<comm, log, asked, enabled, sent, pc, todo, item, mine, added, age>>
      /\ pc[e] # "idle"
  BY DEF Write, Writable, Flushing
<1> HIDE DEF k
<1>2. TypeOK'
  BY <1>1 DEF IInv, TypeOK
<1>3. /\ \A f \in Engines \ {e} : dirty'[f] = dirty[f]
      /\ dirty'[e] = dirty[e] \ {k}
  BY <1>1 DEF IInv, TypeOK
<1>4. \A m \in Messages : lock[m] = e \/ m = k => lock'[m] = e
  BY <1>1 DEF IInv, TypeOK
<1>5. \A f \in Engines \ {e} : \A m \in Messages : lock[m] = f => lock'[m] = f
  BY <1>1, NoneAssumption DEF IInv, TypeOK
<1>6. ASSUME NEW m \in Messages PROVE Session(e, m)'
  <2>1. Session(e, m)
    BY DEF IInv, Passes
  <2>2. Story(e, m)'
    BY <1>1, <2>1 DEF Session, Story, Timeline, Last
  <2>3. (m \in dirty[e] \/ lock[m] = e) => (m \in dirty'[e] \/ lock'[m] = e)
    BY <1>3, <1>4
  <2> QED BY <1>1, <1>4, <2>1, <2>2, <2>3 DEF Session, Unchanged, Exists, Timeline
<1>7. PassOK(e)'
  BY <1>1, <1>6 DEF PassOK, IInv, Passes
<1> QED BY <1>1, <1>2, <1>3, <1>5, <1>7, PassStep

(* An attempt: the row is locked, so nobody else writes its timeline. *)
LEMMA OutcomeKeeps ==
  ASSUME IInv, NEW e \in Engines, NEW accepted \in {0, 1}, NEW event \in {"SENT", "FAILED"},
         NEW change, Outcome(e, accepted, event, change),
         change \in MineType,
         \/ change.status = "SENT" /\ event = "SENT" /\ accepted = 1
         \/ change.status = "FAILED" /\ event = "FAILED"
            /\ Failures(Timeline(e, item[e])) + 1 >= Len(Backoffs)
         \/ change.status = "PROCESSING" /\ event = "FAILED"
  PROVE  IInv'
<1> DEFINE m == item[e]
           n == NextSeq(e, m)
           P == [seq |-> n, event |-> "PROCESSING"]
           F == [seq |-> n + 1, event |-> event]
<1>1. /\ pc[e] = "flushing" /\ dirty[e] = {}
      /\ sent' = [sent EXCEPT ![m] = Min({@ + accepted, MaxSent})]
      /\ added' = [added EXCEPT ![e][m] = @ \o <<P, F>>]
      /\ mine' = [mine EXCEPT ![e][m] = change]
      /\ item' = [item EXCEPT ![e] = None]
      /\ pc' = [pc EXCEPT ![e] = "passing"]
      /\ UNCHANGED <<comm, log, asked, enabled, lock, todo, dirty, age>>
  BY DEF Outcome
<1>2. PICK k \in Messages : k = item[e]
  BY <1>1 DEF IInv, Passes
<1>3. /\ Session(e, k) /\ mine[e][k].status = "PROCESSING" /\ added[e][k] = <<>>
      /\ lock[k] = e /\ k \notin todo[e]
  BY <1>1, <1>2 DEF IInv, Passes, Session
<1>4. Exists(k) /\ log[k] # <<>> /\ log[k] \in Seq(Delivery) /\ IsTimeline(log[k])
  <2>1. mine[e][k] # Unchanged
    BY <1>3, NoneAssumption DEF Unchanged, Status
  <2> QED BY <1>3, <2>1 DEF Session, IInv, Tables, Rows, TypeOK
<1>5. Timeline(e, k) = log[k]
  BY <1>3, <1>4, EmptyTail DEF Timeline
<1>6. n = Len(log[k]) + 1 /\ Len(log[k]) \in Nat
  BY <1>2, <1>4, <1>5, NextSeqIsNext DEF NextSeq, IsTimeline
<1>7. P \in Delivery /\ F \in Delivery
  BY <1>6 DEF Delivery, Event
<1>8. added'[e][k] = <<P, F>>
  <2>1. <<>> \o <<P, F>> = <<P, F>>
    OBVIOUS
  <2> QED BY <1>1, <1>2, <1>3, <2>1 DEF IInv, TypeOK
<1>9. Timeline(e, k)' = log[k] \o <<P, F>>
  BY <1>1, <1>8 DEF Timeline
<1>10. IsTimeline(log[k] \o <<P, F>>) /\ Last(log[k] \o <<P, F>>) = event
  <2>1. /\ P = [seq |-> Len(log[k]) + 1, event |-> "PROCESSING"]
        /\ F = [seq |-> Len(log[k]) + 2, event |-> event]
    BY <1>6
  <2> HIDE DEF P, F
  <2> QED BY <1>4, <2>1, AttemptExtends
<1>11. event = "FAILED" => Failures(log[k] \o <<P, F>>) = Failures(log[k]) + 1
  <2>1. P.event = "PROCESSING" /\ F.event = event
    OBVIOUS
  <2> HIDE DEF P, F
  <2> QED BY <1>4, <1>7, <2>1, FailuresOfAttempt
<1> HIDE DEF P, F, n
<1>12. sent' \in [Messages -> 0 .. MaxSent] /\ (accepted = 1 => sent'[k] > 0)
       /\ \A i \in Messages : sent[i] > 0 => sent'[i] > 0
  <2>1. sent[k] \in 0 .. MaxSent /\ MaxSent \in Nat /\ MaxSent > 0
    BY BoundAssumption DEF IInv, TypeOK
  <2>2. sent[k] + accepted \in Nat /\ sent[k] \in Nat
    BY <2>1
  <2> DEFINE l == Min({sent[k] + accepted, MaxSent})
  <2>3. l = IF sent[k] + accepted <= MaxSent THEN sent[k] + accepted ELSE MaxSent
    BY <2>1, <2>2, MinOfTwo
  <2>4. sent' = [sent EXCEPT ![k] = l]
    BY <1>1, <1>2
  <2> HIDE DEF l
  <2>5. /\ l \in 0 .. MaxSent
        /\ accepted = 1 => l > 0
        /\ sent[k] > 0 => l > 0
    BY <2>1, <2>2, <2>3
  <2> QED BY <2>4, <2>5 DEF IInv, TypeOK
<1>13. TypeOK'
  <2>1. mine' \in [Engines -> [Messages -> [status : Status \cup {None},
                                            wait : Nat \cup {None}]]]
    BY <1>1, <1>2, MineKeepsType
  <2>2. pc' \in [Engines -> {"idle", "passing", "flushing"}]
        /\ item' \in [Engines -> Messages \cup {None}]
    BY <1>1 DEF IInv, TypeOK
  <2>3. added' \in [Engines -> [Messages -> Seq(Delivery)]]
    <3>1. added[e][k] \o <<P, F>> \in Seq(Delivery)
      BY <1>7 DEF IInv, TypeOK
    <3> QED BY <1>1, <1>2, <3>1 DEF IInv, TypeOK
  <2> QED BY <1>1, <1>12, <2>1, <2>2, <2>3 DEF IInv, TypeOK
<1>14. /\ \A f \in Engines \ {e} : /\ pc'[f] = pc[f] /\ item'[f] = item[f]
                                   /\ mine'[f] = mine[f] /\ added'[f] = added[f]
       /\ \A i \in Messages \ {k} : mine'[e][i] = mine[e][i] /\ added'[e][i] = added[e][i]
       /\ mine'[e][k] = change /\ pc'[e] = "passing"
  BY <1>1, <1>2 DEF IInv, TypeOK
<1>15. ASSUME NEW i \in Messages, i # k PROVE Session(e, i)'
  <2>1. Session(e, i)
    BY DEF IInv, Passes
  <2>2. Timeline(e, i)' = Timeline(e, i)
    BY <1>1, <1>14, <1>15 DEF Timeline
  <2>3. ~(mine[e][i].status = "PROCESSING" /\ added[e][i] = <<>>)
    BY <1>2, <1>15, <2>1 DEF Session, Story
  <2>4. Story(e, i)'
    BY <1>1, <1>12, <1>14, <1>15, <2>1, <2>2, <2>3 DEF Session, Story, Last
  <2> QED BY <1>1, <1>14, <1>15, <2>1, <2>2, <2>4 DEF Session, Unchanged, Exists
<1>16. Session(e, k)'
  <2>1. added'[e][k] # <<>>
    BY <1>8
  <2>2. change.status # None /\ change # Unchanged
    BY NoneAssumption DEF Status, Unchanged
  <2>3. Story(e, k)'
    BY <1>2, <1>5, <1>9, <1>10, <1>11, <1>12, <1>14, <2>1 DEF Story
  <2> QED BY <1>1, <1>3, <1>4, <1>9, <1>10, <1>14, <2>1, <2>2, <2>3
         DEF Session, Exists, Unchanged, MineType
<1>17. PassOK(e)'
  BY <1>14, <1>15, <1>16 DEF PassOK
<1> QED BY <1>1, <1>12, <1>13, <1>14, <1>17, PassStep

-----------------------------------------------------------------------------
(* The end of a pass. *)

(* A closing session holds nothing and gives away only its own locks. *)
LEMMA CloseSessionIs ==
  ASSUME IInv, NEW e \in Engines, CloseSession(e)
  PROVE  /\ lock' \in [Messages -> Engines \cup {None}]
         /\ pc' \in [Engines -> {"idle", "passing", "flushing"}]
         /\ todo' \in [Engines -> SUBSET Messages]
         /\ item' \in [Engines -> Messages \cup {None}]
         /\ mine' \in [Engines -> [Messages -> [status : Status \cup {None},
                                                wait   : Nat \cup {None}]]]
         /\ dirty' \in [Engines -> SUBSET Messages]
         /\ added' \in [Engines -> [Messages -> Seq(Delivery)]]
         /\ age' \in [Engines -> 0 .. LastDelay]
         /\ \A f \in Engines \ {e} :
              /\ pc'[f] = pc[f] /\ todo'[f] = todo[f] /\ item'[f] = item[f]
              /\ dirty'[f] = dirty[f] /\ mine'[f] = mine[f] /\ added'[f] = added[f]
              /\ \A m \in Messages : lock[m] = f => lock'[m] = f
         /\ PassOK(e)'
<1>1. PICK owner \in [{m \in Messages : lock[m] = e} -> Engines \cup {None}] :
        lock' = [m \in Messages |-> IF lock[m] = e THEN owner[m] ELSE lock[m]]
  BY DEF CloseSession
<1>2. /\ lock' \in [Messages -> Engines \cup {None}]
      /\ \A f \in Engines \ {e} : \A m \in Messages : lock[m] = f => lock'[m] = f
  BY <1>1 DEF IInv, TypeOK
<1>3. /\ pc' = [pc EXCEPT ![e] = "idle"]
      /\ todo' = [todo EXCEPT ![e] = {}]
      /\ item' = [item EXCEPT ![e] = None]
      /\ mine' = [mine EXCEPT ![e] = [m \in Messages |-> Unchanged]]
      /\ dirty' = [dirty EXCEPT ![e] = {}]
      /\ added' = [added EXCEPT ![e] = [m \in Messages |-> <<>>]]
      /\ age' = [age EXCEPT ![e] = 0]
  BY DEF CloseSession
<1>4. [m \in Messages |-> Unchanged] \in
        [Messages -> [status : Status \cup {None}, wait : Nat \cup {None}]]
  BY DEF Unchanged
<1>5. [m \in Messages |-> <<>>] \in [Messages -> Seq(Delivery)]
  OBVIOUS
<1>6. /\ pc' \in [Engines -> {"idle", "passing", "flushing"}]
      /\ todo' \in [Engines -> SUBSET Messages]
      /\ item' \in [Engines -> Messages \cup {None}]
      /\ dirty' \in [Engines -> SUBSET Messages]
      /\ age' \in [Engines -> 0 .. LastDelay]
  BY <1>3, LastDelayBounds DEF IInv, TypeOK
<1>7. mine' \in [Engines -> [Messages -> [status : Status \cup {None},
                                          wait   : Nat \cup {None}]]]
  BY <1>3, <1>4 DEF IInv, TypeOK
<1>8. added' \in [Engines -> [Messages -> Seq(Delivery)]]
  BY <1>3, <1>5 DEF IInv, TypeOK
<1>9. /\ pc'[e] = "idle" /\ todo'[e] = {}
      /\ \A m \in Messages : mine'[e][m] = Unchanged /\ added'[e][m] = <<>>
  BY <1>3 DEF IInv, TypeOK
<1>10. ASSUME NEW m \in Messages PROVE Session(e, m)'
  <2>1. mine'[e][m].status = None /\ mine'[e][m] \in MineType
    BY <1>9 DEF Unchanged, MineType
  <2>2. Story(e, m)'
    BY <2>1, NoneAssumption DEF Story, Status
  <2> QED BY <1>9, <2>1, <2>2 DEF Session, MineType, Unchanged
<1>11. PassOK(e)'
  BY <1>9, <1>10 DEF PassOK
<1>12. \A f \in Engines \ {e} :
         /\ pc'[f] = pc[f] /\ todo'[f] = todo[f] /\ item'[f] = item[f]
         /\ dirty'[f] = dirty[f] /\ mine'[f] = mine[f] /\ added'[f] = added[f]
  BY <1>3 DEF IInv, TypeOK
<1> QED BY <1>2, <1>6, <1>7, <1>8, <1>11, <1>12

(* A crash or a deadlock: everything the pass wrote is rolled back. *)
LEMMA RollbackKeeps ==
  ASSUME IInv, NEW e \in Engines, CloseSession(e),
         UNCHANGED <<comm, log, asked, enabled, sent>>
  PROVE  IInv'
<1>1. TypeOK'
  BY CloseSessionIs DEF IInv, TypeOK
<1> QED BY <1>1, CloseSessionIs, PassStep

LEMMA CommitKeeps ==
  ASSUME IInv, NEW e \in Engines, Commit(e)
  PROVE  IInv'
<1>1. /\ pc[e] = "passing" /\ CloseSession(e)
      /\ comm' = [m \in Messages |->
                    [status |-> Column(mine[e][m].status, comm[m].status),
                     wait   |-> Column(mine[e][m].wait, comm[m].wait)]]
      /\ log' = [m \in Messages |-> Timeline(e, m)]
      /\ UNCHANGED <<asked, enabled, sent>>
  BY DEF Commit
<1>2. ASSUME NEW m \in Messages
      PROVE  /\ mine[e][m] \in MineType /\ Session(e, m)
             /\ comm[m] \in [status : Status, wait : 0 .. LastDelay]
             /\ log[m] \in Seq(Delivery) /\ added[e][m] \in Seq(Delivery)
             /\ log'[m] = log[m] \o added[e][m]
             /\ added[e][m] = <<>> => log'[m] = log[m]
  <2>1. mine[e][m] \in MineType /\ Session(e, m)
    BY MineTyped DEF IInv, Passes
  <2>2. /\ comm[m] \in [status : Status, wait : 0 .. LastDelay]
        /\ log[m] \in Seq(Delivery) /\ added[e][m] \in Seq(Delivery)
    BY DEF IInv, TypeOK
  <2>3. log'[m] = log[m] \o added[e][m]
    BY <1>1 DEF Timeline
  <2> QED BY <2>1, <2>2, <2>3, EmptyTail
<1>3. TypeOK'
  <2>1. comm' \in [Messages -> [status : Status, wait : 0 .. LastDelay]]
    <3>1. ASSUME NEW m \in Messages
          PROVE  /\ Column(mine[e][m].status, comm[m].status) \in Status
                 /\ Column(mine[e][m].wait, comm[m].wait) \in 0 .. LastDelay
      BY <1>2 DEF Column, MineType, Status
    <3> QED BY <1>1, <3>1
  <2>2. log' \in [Messages -> Seq(Delivery)]
    <3>1. ASSUME NEW m \in Messages PROVE Timeline(e, m) \in Seq(Delivery)
      <4>1. log[m] \in Seq(Delivery) /\ added[e][m] \in Seq(Delivery)
        BY <1>2
      <4> QED BY <4>1 DEF Timeline
    <3> QED BY <1>1, <3>1
  <2> QED BY <1>1, <2>1, <2>2, CloseSessionIs DEF IInv, TypeOK
<1>4. ASSUME NEW m \in Messages
      PROVE  \/ /\ comm'[m].status = comm[m].status /\ log'[m] = log[m]
                /\ mine[e][m].status = None
             \/ /\ comm'[m].status = mine[e][m].status /\ Exists(m)
                /\ mine[e][m].status \in {"PROCESSING", "SENT", "FAILED"}
  <2>1. comm'[m].status = Column(mine[e][m].status, comm[m].status)
    BY <1>1
  <2>2. mine[e][m].status = None => added[e][m] = <<>>
    BY <1>2 DEF Session
  <2>3. mine[e][m].status # None => Exists(m)
    <3>1. mine[e][m] # Unchanged => Exists(m)
      BY <1>2 DEF Session
    <3> QED BY <3>1, MineTyped
  <2> QED BY <1>2, <2>1, <2>2, <2>3 DEF Column, MineType
<1>5. \A m \in Messages : Exists(m)' <=> Exists(m)
  BY <1>4 DEF Exists
<1>6. Rows'
  <2>1. ASSUME NEW m \in Messages PROVE log'[m] = <<>> <=> log[m] = <<>>
    <3>1. added[e][m] # <<>> => Exists(m)
      BY <1>2, <1>4, NoneAssumption DEF Session, Unchanged
    <3>2. log[m] # <<>> => log'[m] # <<>>
      <4>1. /\ log[m] \in Seq(Delivery) /\ added[e][m] \in Seq(Delivery)
            /\ log'[m] = log[m] \o added[e][m]
        BY <1>2
      <4> QED BY <4>1
    <3>3. log[m] = <<>> => log'[m] = <<>>
      BY <1>2, <3>1 DEF IInv, Tables, Rows
    <3> QED BY <3>2, <3>3
  <2> QED BY <1>1, <1>5, <2>1 DEF IInv, Tables, Rows
<1>7. OneMessagePerKey'
  <2>1. \A m \in Messages : KeyInUse(m)' <=> KeyInUse(m)
    BY <1>5 DEF KeyInUse
  <2> QED BY <1>1, <1>5, <2>1 DEF IInv, Tables, OneMessagePerKey
<1>8. \A m \in Messages : IsTimeline(log'[m])
  <2>1. ASSUME NEW m \in Messages PROVE IsTimeline(log'[m])
    <3>1. CASE added[e][m] = <<>>
      BY <1>2, <3>1 DEF IInv, Tables
    <3>2. CASE added[e][m] # <<>>
      BY <1>2, <3>2 DEF Session, Timeline
    <3> QED BY <3>1, <3>2
  <2> QED BY <2>1
<1>9. StatusMatchesTimeline'
  <2> SUFFICES ASSUME NEW m \in Messages, Exists(m)'
               PROVE  CASE comm'[m].status = "SENT"   -> Last(log'[m]) = "SENT" /\ sent'[m] > 0
                        [] comm'[m].status = "FAILED" -> Failures(log'[m]) >= Len(Backoffs)
                        [] OTHER                      -> Last(log'[m]) # "SENT"
    BY DEF StatusMatchesTimeline, Last, Failures
  <2>1. CASE /\ comm'[m].status = comm[m].status /\ log'[m] = log[m]
    BY <1>1, <1>5, <2>1 DEF IInv, Tables, StatusMatchesTimeline
  <2>2. CASE /\ comm'[m].status = mine[e][m].status
             /\ mine[e][m].status \in {"PROCESSING", "SENT", "FAILED"}
    <3>1. Story(e, m) /\ Timeline(e, m) = log'[m]
      BY <1>2 DEF Session, Timeline
    <3> QED BY <1>1, <2>2, <3>1 DEF Story
  <2> QED BY <1>4, <2>1, <2>2
<1>10. ASSUME NEW f \in Engines, f # e PROVE PassOK(f)'
  <2>1. ASSUME NEW m \in Messages PROVE Session(f, m)'
    <3>1. added[f][m] # <<>> => lock[m] = f
      BY DEF IInv, Passes, Session
    <3>2. added[e][m] # <<>> => lock[m] = e
      BY <1>2 DEF Session
    <3>3. \/ log'[m] = log[m]
          \/ added[f][m] = <<>> /\ \E u \in Seq(Delivery) : log'[m] = log[m] \o u
      BY <1>2, <1>10, <3>1, <3>2
    <3>4. /\ pc'[f] = pc[f] /\ todo'[f] = todo[f] /\ item'[f] = item[f]
          /\ dirty'[f] = dirty[f] /\ mine'[f][m] = mine[f][m]
          /\ added'[f][m] = added[f][m]
      BY <1>1, <1>10, CloseSessionIs
    <3>5. lock[m] = f => lock'[m] = f
      BY <1>1, <1>10, CloseSessionIs
    <3>6. (Exists(m) => Exists(m)') /\ (sent[m] > 0 => sent'[m] > 0)
      BY <1>1, <1>5
    <3> QED BY <3>3, <3>4, <3>5, <3>6, SessionFrame
  <2> QED BY <1>1, <1>10, <2>1, CloseSessionIs DEF PassOK, IInv, Passes
<1>11. Passes'
  BY <1>1, <1>10, CloseSessionIs DEF Passes, PassOK
<1> QED BY <1>3, <1>6, <1>7, <1>8, <1>9, <1>11 DEF IInv, Tables

LEMMA TickKeeps ==
  ASSUME IInv, Tick
  PROVE  IInv'
<1>1. /\ comm' = [m \in Messages |-> [comm[m] EXCEPT !.wait = Left(@, 1)]]
      /\ mine' = [e \in Engines |-> [m \in Messages |->
                    [mine[e][m] EXCEPT !.wait = IF @ = None THEN None ELSE Left(@, 1)]]]
      /\ age' = [e \in Engines |-> IF Waiting(e) THEN age[e] + 1 ELSE age[e]]
      /\ UNCHANGED <<log, asked, enabled, sent, lock, pc, todo, item, dirty, added>>
  BY DEF Tick
<1>2. ASSUME NEW m \in Messages
      PROVE  comm'[m] \in [status : Status, wait : 0 .. LastDelay]
             /\ comm'[m].status = comm[m].status
  <2>1. comm[m] \in [status : Status, wait : 0 .. LastDelay]
    BY DEF IInv, TypeOK
  <2>2. Left(comm[m].wait, 1) \in 0 .. LastDelay
    BY <2>1, LeftBounds
  <2>3. comm'[m] = [comm[m] EXCEPT !.wait = Left(comm[m].wait, 1)]
    BY <1>1
  <2> QED BY <2>1, <2>2, <2>3
<1>3. ASSUME NEW e \in Engines, NEW m \in Messages
      PROVE  /\ mine'[e][m] \in MineType /\ mine'[e][m].status = mine[e][m].status
             /\ mine'[e][m] = Unchanged <=> mine[e][m] = Unchanged
  <2>1. mine[e][m] \in MineType
    BY MineTyped
  <2> DEFINE w == IF mine[e][m].wait = None THEN None ELSE Left(mine[e][m].wait, 1)
  <2>2. w \in (0 .. LastDelay) \cup {None} /\ (w = None <=> mine[e][m].wait = None)
    <3>1. CASE mine[e][m].wait = None
      BY <3>1
    <3>2. CASE mine[e][m].wait # None
      <4>1. Left(mine[e][m].wait, 1) \in 0 .. LastDelay
        BY <2>1, <3>2, LeftBounds DEF MineType
      <4> QED BY <3>2, <4>1, NoneAssumption, LastDelayBounds
    <3> QED BY <3>1, <3>2
  <2>3. mine'[e][m] = [mine[e][m] EXCEPT !.wait = w]
    BY <1>1
  <2> HIDE DEF w
  <2> QED BY <2>1, <2>2, <2>3 DEF MineType, Unchanged
<1>4. TypeOK'
  <2>1. comm' \in [Messages -> [status : Status, wait : 0 .. LastDelay]]
    BY <1>1, <1>2
  <2>2. mine' \in [Engines -> [Messages -> [status : Status \cup {None},
                                            wait : Nat \cup {None}]]]
    <3>1. MineType \subseteq [status : Status \cup {None}, wait : Nat \cup {None}]
      BY LastDelayBounds DEF MineType, Status
    <3> QED BY <1>1, <1>3, <3>1
  <2>3. age' \in [Engines -> 0 .. LastDelay]
    <3>1. \A e \in Engines : age[e] \in 0 .. LastDelay
      BY DEF IInv, TypeOK
    <3>2. \A e \in Engines : Waiting(e) => age[e] + 1 \in 0 .. LastDelay
      BY <3>1, LastDelayBounds DEF Waiting
    <3> QED BY <1>1, <3>1, <3>2
  <2> QED BY <1>1, <2>1, <2>2, <2>3 DEF IInv, TypeOK
<1>5. \A m \in Messages : Exists(m)' <=> Exists(m)
  BY <1>2 DEF Exists
<1>6. Tables'
  <2>1. Rows' /\ OneMessagePerKey'
    BY <1>1, <1>5 DEF IInv, Tables, Rows, OneMessagePerKey, KeyInUse
  <2>2. StatusMatchesTimeline'
    BY <1>1, <1>2, <1>5 DEF IInv, Tables, StatusMatchesTimeline
  <2> QED BY <1>1, <2>1, <2>2 DEF IInv, Tables
<1>7. ASSUME NEW e \in Engines, NEW m \in Messages PROVE Session(e, m)'
  <2>1. Session(e, m)
    BY DEF IInv, Passes
  <2>2. Story(e, m)'
    BY <1>1, <1>3, <2>1 DEF Session, Story, Timeline, Last
  <2>3. Timeline(e, m)' = Timeline(e, m) /\ (Unchanged)' = Unchanged
    BY <1>1 DEF Timeline, Unchanged
  <2> QED BY <1>1, <1>3, <1>5, <2>1, <2>2, <2>3 DEF Session, MineType
<1>8. Passes'
  BY <1>1, <1>7 DEF IInv, Passes
<1> QED BY <1>4, <1>6, <1>8 DEF IInv

-----------------------------------------------------------------------------
LEMMA PassKeeps ==
  ASSUME IInv, NEW e \in Engines, Pass(e)
  PROVE  IInv'
<1>1. CASE Accepted(e)
  <2>1. pc[e] = "flushing" /\ item[e] \in Messages
    BY <1>1 DEF Accepted, IInv, Passes
  <2> DEFINE c == [mine[e][item[e]] EXCEPT !.status = "SENT"]
  <2>2. c \in MineType /\ c.status = "SENT"
    BY <2>1, MineTyped DEF MineType
  <2>3. Outcome(e, 1, "SENT", c)
    BY <1>1 DEF Accepted
  <2> HIDE DEF c
  <2> QED BY <2>2, <2>3, OutcomeKeeps
<1>2. ASSUME NEW a \in {0, 1}, pc[e] = "flushing", Outcome(e, a, "FAILED", AfterFailure(e))
      PROVE  IInv'
  <2>1. PICK m \in Messages : m = item[e]
    BY <1>2 DEF IInv, Passes
  <2>2. /\ Session(e, m) /\ mine[e][m].status = "PROCESSING" /\ added[e][m] = <<>>
        /\ log[m] \in Seq(Delivery) /\ Timeline(e, m) \in Seq(Delivery)
        /\ Timeline(e, m) = log[m] /\ IsTimeline(log[m])
    BY <1>2, <2>1, EmptyTail DEF IInv, TypeOK, Tables, Passes, Session, Timeline
  <2> DEFINE f == [seq |-> NextSeq(e, m), event |-> "FAILED"]
             t == Timeline(e, m) \o <<f>>
  <2>3. f \in Delivery /\ f.event = "FAILED"
    <3>1. NextSeq(e, m) = Len(log[m]) + 1
      BY <2>2, NextSeqIsNext DEF NextSeq, IsTimeline
    <3> QED BY <2>2, <3>1 DEF Delivery, Event
  <2>4. AfterFailure(e) = GiveUpOrReschedule(e, m, t)
    BY <2>1 DEF AfterFailure
  <2> HIDE DEF f
  <2>5. t \in Seq(Delivery) /\ Failures(t) = Failures(Timeline(e, m)) + 1
    BY <2>2, <2>3, FailuresOfOne
  <2> HIDE DEF t
  <2>6. /\ AfterFailure(e) \in MineType
        /\ \/ /\ AfterFailure(e).status = "FAILED"
              /\ Failures(Timeline(e, m)) + 1 >= Len(Backoffs)
           \/ AfterFailure(e).status = "PROCESSING"
    BY <2>2, <2>4, <2>5, GiveUpOrRescheduleIs
  <2> QED BY <1>2, <2>1, <2>6, OutcomeKeeps
<1>3. CASE Rejected(e) \/ AnswerLost(e)
  BY <1>2, <1>3 DEF Rejected, AnswerLost
<1>4. CASE Deadlocked(e)
  BY <1>4, RollbackKeeps DEF Deadlocked, IInv, TypeOK
<1> QED BY <1>1, <1>3, <1>4, SelectKeeps, DispatchKeeps, WriteKeeps, CommitKeeps DEF Pass

LEMMA NextKeeps == IInv /\ [Next]_vars => IInv'
<1> SUFFICES ASSUME IInv, [Next]_vars PROVE IInv'
  OBVIOUS
<1>1. ASSUME NEW m \in Messages, Queue(m) PROVE IInv'
  BY <1>1, QueueKeeps, InsertKeeps DEF Queue
<1>2. ASSUME NEW e \in Engines, Pass(e) PROVE IInv'
  BY <1>2, PassKeeps
<1>3. ASSUME NEW e \in Engines, Crash(e) PROVE IInv'
  BY <1>3, RollbackKeeps DEF Crash
<1>4. CASE SwitchProvider \/ UNCHANGED vars
  <2>1. /\ UNCHANGED <<comm, log, asked, sent, lock, pc, session>>
        /\ enabled' \in BOOLEAN
    BY <1>4 DEF SwitchProvider, vars, IInv, TypeOK
  <2>2. TypeOK'
    BY <2>1 DEF IInv, TypeOK, session
  <2>3. Rows' /\ OneMessagePerKey'
    BY <2>1 DEF IInv, Tables, Rows, OneMessagePerKey, Exists, KeyInUse
  <2> QED BY <2>1, <2>2, <2>3, IdleTables, IdlePasses DEF IInv
<1>5. CASE Tick
  BY <1>5, TickKeeps
<1> QED BY <1>1, <1>2, <1>3, <1>4, <1>5 DEF Next

(* IInv is inductive: a pass holds nothing of what it has still to dispatch *)
(* and the row's lock once it has written deliveries                        *)
(* (notification_engine.py, delivery_tracker.py).                           *)
THEOREM Invariance == Spec => []IInv
<1>1. Init => IInv
  BY InitEstablishes
<1>2. IInv /\ [Next]_vars => IInv'
  BY NextKeeps
<1> QED BY <1>1, <1>2, PTL DEF Spec

(* Every variable keeps its type; waits and ages stay within the longest    *)
(* backoff.                                                                 *)
THEOREM TypeCorrect == Spec => []TypeOK
<1>1. IInv => TypeOK
  BY DEF IInv
<1> QED BY <1>1, Invariance, PTL

(* However the select and the insert of several requests interleave, an     *)
(* idempotency key has one message, and who was told `queued', `duplicate'  *)
(* or refused by the index can find it.                                     *)
THEOREM OneMessageEach == Spec => []OneMessagePerKey
<1>1. IInv => OneMessagePerKey
  BY DEF IInv, Tables
<1> QED BY <1>1, Invariance, PTL

(* However passes overlap, crash or deadlock, timelines are numbered        *)
(* without gaps and each attempt has its outcome right after it.            *)
THEOREM TimelinesAreOrdered == Spec => []TimelinesOrdered
<1>1. IInv => TimelinesOrdered
  BY DEF IInv, Tables, Passes, Session, TimelinesOrdered
<1> QED BY <1>1, Invariance, PTL

(* However passes overlap, the status of a message is the one its timeline  *)
(* tells, also when a pass with a stale list overwrote it.                  *)
THEOREM StatusTellsTheStory == Spec => []StatusMatchesTimeline
<1>1. IInv => StatusMatchesTimeline
  BY DEF IInv, Tables
<1> QED BY <1>1, Invariance, PTL

-----------------------------------------------------------------------------
(* The refinement of DeliveryBook.                                          *)

OutcomeSet == {"SENT", "FAILED"}

LEMMA OddNumber ==
  ASSUME NEW n \in Nat, n % 2 = 1
  PROVE  (n - 1) \div 2 \in Nat /\ n = 2 * ((n - 1) \div 2) + 1
OBVIOUS

(* The number of attempts a timeline tells. *)
LEMMA AttemptsOf ==
  ASSUME NEW t \in Seq(Delivery), IsTimeline(t), t # <<>>
  PROVE  \E k \in Nat : /\ Len(t) = 2 * k + 1
                        /\ (Len(t) - 1) \div 2 = k
                        /\ Outcomes(t) = [i \in 1 .. k |-> t[2 * i + 1].event]
                        /\ Outcomes(t) \in Seq(OutcomeSet) /\ Len(Outcomes(t)) = k
<1> DEFINE k == (Len(t) - 1) \div 2
<1>1. Len(t) \in Nat /\ Len(t) > 0 /\ Len(t) % 2 = 1 /\ DOMAIN t = 1 .. Len(t)
  BY DEF IsTimeline
<1>2. k \in Nat /\ Len(t) = 2 * k + 1
  <2> DEFINE n == Len(t)
  <2>1. n \in Nat /\ n % 2 = 1
    BY <1>1
  <2> HIDE DEF n
  <2>2. (n - 1) \div 2 \in Nat /\ n = 2 * ((n - 1) \div 2) + 1
    BY <2>1, OddNumber
  <2> QED BY <2>2 DEF n
<1> HIDE DEF k
<1>3. ASSUME NEW i \in 1 .. k PROVE t[2 * i + 1].event \in OutcomeSet
  <2>1. i \in Nat /\ i >= 1 /\ i <= k
    BY <1>2
  <2>2. 2 * i + 1 \in DOMAIN t /\ 2 * i + 1 # 1 /\ (2 * i + 1) % 2 # 0
    BY <1>1, <1>2, <2>1
  <2> QED BY <2>2 DEF IsTimeline, OutcomeSet
<1>4. Outcomes(t) = [i \in 1 .. k |-> t[2 * i + 1].event]
  BY DEF Outcomes, k
<1>5. Outcomes(t) \in [1 .. k -> OutcomeSet]
  BY <1>3, <1>4
<1>6. Outcomes(t) \in Seq(OutcomeSet) /\ Len(Outcomes(t)) = k
  BY <1>2, <1>5
<1> QED BY <1>2, <1>4, <1>6 DEF k

LEMMA AttemptAppends ==
  ASSUME NEW t \in Seq(Delivery), IsTimeline(t), t # <<>>,
         NEW p \in Delivery, NEW f \in Delivery, IsTimeline(t \o <<p, f>>)
  PROVE  Outcomes(t \o <<p, f>>) = Append(Outcomes(t), f.event)
<1> DEFINE u == t \o <<p, f>>
<1>1. /\ u \in Seq(Delivery) /\ u # <<>> /\ Len(u) = Len(t) + 2
      /\ \A i \in 1 .. Len(t) : u[i] = t[i]
      /\ u[Len(t) + 2] = f
  OBVIOUS
<1> HIDE DEF u
<1>2. PICK k \in Nat : /\ Len(t) = 2 * k + 1
                       /\ Outcomes(t) = [i \in 1 .. k |-> t[2 * i + 1].event]
                       /\ Outcomes(t) \in Seq(OutcomeSet) /\ Len(Outcomes(t)) = k
  BY AttemptsOf
<1>3. PICK n \in Nat : /\ Len(u) = 2 * n + 1
                       /\ Outcomes(u) = [i \in 1 .. n |-> u[2 * i + 1].event]
                       /\ Outcomes(u) \in Seq(OutcomeSet) /\ Len(Outcomes(u)) = n
  BY <1>1, AttemptsOf DEF u
<1>4. n = k + 1
  BY <1>1, <1>2, <1>3
<1>5. \A i \in 1 .. k : 2 * i + 1 \in 1 .. Len(t)
  BY <1>2
<1>6. \A i \in 1 .. n : i \in 1 .. k \/ (i = k + 1 /\ 2 * i + 1 = Len(t) + 2)
  BY <1>2, <1>4
<1>7. ASSUME NEW i \in 1 .. n
      PROVE  Outcomes(u)[i] = IF i <= k THEN Outcomes(t)[i] ELSE f.event
  <2>1. Outcomes(u)[i] = u[2 * i + 1].event
    BY <1>3
  <2>2. CASE i \in 1 .. k
    <3>1. Outcomes(t)[i] = t[2 * i + 1].event /\ u[2 * i + 1] = t[2 * i + 1] /\ i <= k
      BY <1>1, <1>2, <1>5, <2>2
    <3> QED BY <2>1, <3>1
  <2>3. CASE i = k + 1 /\ 2 * i + 1 = Len(t) + 2
    <3>1. ~(i <= k)
      BY <2>3
    <3> QED BY <1>1, <2>1, <2>3, <3>1
  <2> QED BY <1>6, <2>2, <2>3
<1>8. f.event \in OutcomeSet
  <2>1. n \in 1 .. n /\ ~(n <= k)
    BY <1>4
  <2>2. Outcomes(u)[n] = f.event
    BY <1>7, <2>1
  <2> QED BY <1>3, <2>1, <2>2
<1> DEFINE a == Append(Outcomes(t), f.event)
<1>9. /\ a \in Seq(OutcomeSet) /\ Len(a) = k + 1
      /\ \A i \in 1 .. n : a[i] = IF i <= k THEN Outcomes(t)[i] ELSE f.event
  BY <1>2, <1>4, <1>8
<1> HIDE DEF a
<1>10. Outcomes(u) = a
  BY <1>3, <1>4, <1>7, <1>9
<1> QED BY <1>10 DEF u, a

(* Failures may be counted in the outcomes. *)
LEMMA FailuresInOutcomes ==
  ASSUME NEW t \in Seq(Delivery), IsTimeline(t), t # <<>>
  PROVE  Failures(t) = Book!Failed(Outcomes(t))
<1>1. PICK k \in Nat : /\ Len(t) = 2 * k + 1
                       /\ Outcomes(t) = [i \in 1 .. k |-> t[2 * i + 1].event]
  BY AttemptsOf
<1> DEFINE S == {i \in 1 .. k : t[2 * i + 1].event = "FAILED"}
           g == [i \in S |-> 2 * i + 1]
<1>2. IsFiniteSet(S)
  <2>1. IsFiniteSet(1 .. k) /\ S \in SUBSET (1 .. k)
    BY FS_Interval
  <2> QED BY <2>1, FS_Subset
<1>3. g \in [S -> Failed(t)]
  <2>1. \A i \in S : 2 * i + 1 \in 1 .. Len(t)
    BY <1>1
  <2> QED BY <2>1 DEF Failed
<1>4. \A i, j \in S : g[i] = g[j] => i = j
  <2>1. \A i, j \in 1 .. k : 2 * i + 1 = 2 * j + 1 => i = j
    BY <1>1
  <2> QED BY <2>1
<1>5. ASSUME NEW n \in Failed(t) PROVE \E i \in S : g[i] = n
  <2>1. n \in 1 .. Len(t) /\ t[n].event = "FAILED"
    BY DEF Failed
  <2>2. n # 1 /\ n % 2 # 0
    BY <2>1 DEF IsTimeline
  <2>3. PICK i \in 1 .. k : n = 2 * i + 1
    <3>1. n \in Nat /\ n % 2 = 1
      BY <2>1, <2>2
    <3>2. PICK i \in Nat : n = 2 * i + 1
      BY <3>1, OddNumber
    <3>3. i \in 1 .. k
      BY <1>1, <2>1, <2>2, <3>2
    <3> QED BY <3>2, <3>3
  <2> QED BY <2>1, <2>3
<1>6. ExistsBijection(S, Failed(t))
  <2> HIDE DEF S, g
  <2>1. g \in Injection(S, Failed(t))
    BY <1>3, <1>4 DEF Injection, IsInjective
  <2>2. g \in Surjection(S, Failed(t))
    BY <1>3, <1>5 DEF Surjection
  <2>3. g \in Bijection(S, Failed(t))
    BY <2>1, <2>2 DEF Bijection
  <2> QED BY <2>3 DEF ExistsBijection
<1>7. Cardinality(Failed(t)) = Cardinality(S)
  BY <1>2, <1>6, FS_Bijection
<1>8. {i \in DOMAIN Outcomes(t) : Outcomes(t)[i] = "FAILED"} = S
  BY <1>1
<1>9. Book!Failed(Outcomes(t)) = Cardinality(S)
  BY <1>8 DEF Book!Failed, Book!Cardinality, Cardinality
<1> QED BY <1>7, <1>9, FailedFinite

(* An attempt that is not recorded yet is one PROCESSING delivery and one   *)
(* outcome, and its pass holds the status the whole timeline gives: a       *)
(* second invariant, inductive relative to IInv.                            *)
AttemptOK(e, m) ==
  added[e][m] # <<>> =>
    /\ Len(added[e][m]) = 2
    /\ Verdict(mine[e][m].status) =
         IF added[e][m][2].event = "SENT" THEN "sent"
         ELSE IF Failures(Timeline(e, m)) >= Len(Backoffs) THEN "failed"
         ELSE "open"

Attempts == \A e \in Engines, m \in Messages : AttemptOK(e, m)

LEMMA AttemptFrame ==
  ASSUME NEW e, NEW m, AttemptOK(e, m),
         added'[e][m] = added[e][m], mine'[e][m].status = mine[e][m].status,
         added[e][m] # <<>> => log'[m] = log[m]
  PROVE  AttemptOK(e, m)'
BY DEF AttemptOK, Timeline

(* Deliveries a pass holds belong to a row that is in the table, and to one *)
(* whose lock it has: to a single pass.                                     *)
LEMMA AttemptsApart ==
  ASSUME IInv, NEW e \in Engines, NEW m \in Messages, added[e][m] # <<>>
  PROVE  /\ lock[m] = e
         /\ Exists(m) /\ log[m] # <<>>
         /\ IsTimeline(log[m]) /\ IsTimeline(Timeline(e, m))
         /\ log[m] \in Seq(Delivery) /\ added[e][m] \in Seq(Delivery)
         /\ \A f \in Engines \ {e} : added[f][m] = <<>>
<1>1. Session(e, m)
  BY DEF IInv, Passes
<1>2. mine[e][m].status # None
  BY <1>1 DEF Session
<1>3. mine[e][m] # Unchanged
  BY <1>2 DEF Unchanged
<1>4. ASSUME NEW f \in Engines \ {e} PROVE added[f][m] = <<>>
  <2>1. Session(f, m)
    BY DEF IInv, Passes
  <2> QED BY <1>1, <2>1 DEF Session
<1> QED BY <1>1, <1>3, <1>4 DEF Session, IInv, Tables, Rows, TypeOK

LEMMA OutcomeAttempts ==
  ASSUME IInv, Attempts, NEW e \in Engines, NEW accepted \in {0, 1},
         NEW event \in {"SENT", "FAILED"}, NEW change,
         Outcome(e, accepted, event, change),
         \/ event = "SENT" /\ change.status = "SENT"
         \/ event = "FAILED"
            /\ change.status = IF Failures(Timeline(e, item[e])) + 1 >= Len(Backoffs)
                               THEN "FAILED" ELSE "PROCESSING"
  PROVE  Attempts'
<1> DEFINE n == NextSeq(e, item[e])
           P == [seq |-> n, event |-> "PROCESSING"]
           F == [seq |-> n + 1, event |-> event]
<1>1. PICK k \in Messages : k = item[e]
  BY DEF Outcome, IInv, Passes
<1>2. /\ pc[e] = "flushing" /\ UNCHANGED log
      /\ added' = [added EXCEPT ![e][k] = @ \o <<P, F>>]
      /\ mine' = [mine EXCEPT ![e][k] = change]
  BY <1>1 DEF Outcome
<1>3. added[e][k] = <<>> /\ log[k] \in Seq(Delivery) /\ IsTimeline(log[k])
  BY <1>1, <1>2 DEF IInv, Passes, Session, Tables, TypeOK
<1>4. Timeline(e, k) = log[k]
  BY <1>3, EmptyTail DEF Timeline
<1>5. n = Len(log[k]) + 1 /\ Len(log[k]) \in Nat
  BY <1>1, <1>3, <1>4, NextSeqIsNext DEF NextSeq, IsTimeline
<1>6. P \in Delivery /\ F \in Delivery /\ P.event = "PROCESSING" /\ F.event = event
  BY <1>5 DEF Delivery, Event
<1> HIDE DEF P, F, n
<1>7. added'[e][k] = <<P, F>> /\ mine'[e][k] = change
  <2>1. <<>> \o <<P, F>> = <<P, F>>
    OBVIOUS
  <2> QED BY <1>2, <1>3, <2>1 DEF IInv, TypeOK
<1>8. Len(<<P, F>>) = 2 /\ <<P, F>>[2] = F
  OBVIOUS
<1>9. Timeline(e, k)' = log[k] \o <<P, F>>
  BY <1>2, <1>7 DEF Timeline
<1>10. event = "FAILED" => Failures(log[k] \o <<P, F>>) = Failures(log[k]) + 1
  BY <1>3, <1>6, FailuresOfAttempt
<1>11. AttemptOK(e, k)'
  BY <1>1, <1>4, <1>6, <1>7, <1>8, <1>9, <1>10 DEF AttemptOK, Verdict
<1>12. ASSUME NEW f \in Engines, NEW i \in Messages, ~(f = e /\ i = k)
       PROVE  AttemptOK(f, i)'
  <2>1. added'[f][i] = added[f][i] /\ mine'[f][i] = mine[f][i] /\ log'[i] = log[i]
    BY <1>2, <1>12 DEF IInv, TypeOK
  <2> QED BY <2>1, AttemptFrame DEF Attempts
<1> QED BY <1>11, <1>12 DEF Attempts

(* What the three answers of the provider leave in the session. *)
LEMMA AfterFailureIs ==
  ASSUME IInv, NEW e \in Engines, pc[e] = "flushing"
  PROVE  AfterFailure(e).status = IF Failures(Timeline(e, item[e])) + 1 >= Len(Backoffs)
                                  THEN "FAILED" ELSE "PROCESSING"
<1>1. PICK m \in Messages : m = item[e]
  BY DEF IInv, Passes
<1>2. /\ mine[e][m].status = "PROCESSING" /\ mine[e][m] \in MineType
      /\ added[e][m] = <<>> /\ log[m] \in Seq(Delivery) /\ IsTimeline(log[m])
  BY <1>1, MineTyped DEF IInv, Passes, Session, Tables, TypeOK
<1>3. Timeline(e, m) = log[m]
  BY <1>2, EmptyTail DEF Timeline
<1> DEFINE f == [seq |-> NextSeq(e, m), event |-> "FAILED"]
           t == Timeline(e, m) \o <<f>>
<1>4. f \in Delivery /\ f.event = "FAILED"
  <2>1. NextSeq(e, m) = Len(log[m]) + 1
    BY <1>2, <1>3, NextSeqIsNext DEF NextSeq, IsTimeline
  <2> QED BY <1>2, <2>1 DEF Delivery, Event
<1>5. AfterFailure(e) = GiveUpOrReschedule(e, m, t)
  BY <1>1 DEF AfterFailure
<1> HIDE DEF f
<1>6. Failures(t) = Failures(Timeline(e, m)) + 1
  BY <1>2, <1>3, <1>4, FailuresOfOne
<1> HIDE DEF t
<1>7. GiveUpOrReschedule(e, m, t).status = IF Failures(t) >= Len(Backoffs)
                                          THEN "FAILED" ELSE "PROCESSING"
  BY <1>2 DEF GiveUpOrReschedule, MineType
<1> QED BY <1>1, <1>5, <1>6, <1>7

(* A step that adds no delivery and rewrites only statuses of messages the  *)
(* pass has not attempted.                                                  *)
LEMMA QuietAttempts ==
  ASSUME Attempts, UNCHANGED added,
         \A e \in Engines, m \in Messages :
           added[e][m] # <<>> => /\ mine'[e][m].status = mine[e][m].status
                                 /\ log'[m] = log[m]
  PROVE  Attempts'
<1>1. ASSUME NEW e \in Engines, NEW m \in Messages PROVE AttemptOK(e, m)'
  BY DEF Attempts, AttemptOK, Timeline
<1> QED BY <1>1 DEF Attempts

(* The end of a session forgets its attempts and nobody else's. *)
LEMMA CloseAttempts ==
  ASSUME IInv, Attempts, NEW e \in Engines, CloseSession(e),
         \A m \in Messages : log'[m] = log[m] \/ log'[m] = Timeline(e, m)
  PROVE  Attempts'
<1>1. /\ \A m \in Messages : added'[e][m] = <<>>
      /\ \A f \in Engines \ {e} : added'[f] = added[f] /\ mine'[f] = mine[f]
  BY CloseSessionIs DEF CloseSession, IInv, TypeOK
<1>2. ASSUME NEW f \in Engines \ {e}, NEW m \in Messages PROVE AttemptOK(f, m)'
  <2>1. added[f][m] # <<>> => log'[m] = log[m]
    <3>1. SUFFICES ASSUME added[f][m] # <<>> PROVE Timeline(e, m) = log[m]
      OBVIOUS
    <3>2. added[e][m] = <<>> /\ log[m] \in Seq(Delivery)
      BY <3>1, AttemptsApart
    <3> QED BY <3>2, EmptyTail DEF Timeline
  <2> QED BY <1>1, <2>1, AttemptFrame DEF Attempts
<1> QED BY <1>1, <1>2 DEF Attempts, AttemptOK

LEMMA PassAttempts ==
  ASSUME IInv, Attempts, NEW e \in Engines, Pass(e)
  PROVE  Attempts'
<1>1. CASE Select(e) \/ Write(e)
  BY <1>1, QuietAttempts DEF Select, Write
<1>2. ASSUME NEW m \in Messages, Dispatch(e, m) PROVE Attempts'
  <2>1. /\ m \in todo[e] /\ UNCHANGED <<log, added>>
        /\ \/ mine' = [mine EXCEPT ![e][m].status = "PROCESSING"]
           \/ mine' = [mine EXCEPT ![e][m] = GiveUpOrReschedule(e, m, Timeline(e, m))]
    BY <1>2 DEF Dispatch
  <2>2. added[e][m] = <<>>
    BY <2>1 DEF IInv, Passes, Session
  <2>3. \A f \in Engines, i \in Messages : ~(f = e /\ i = m) => mine'[f][i] = mine[f][i]
    BY <2>1 DEF IInv, TypeOK
  <2> QED BY <2>1, <2>2, <2>3, QuietAttempts
<1>3. CASE Accepted(e)
  <2>1. item[e] \in Messages
    BY <1>3 DEF Accepted, IInv, Passes
  <2> DEFINE c == [mine[e][item[e]] EXCEPT !.status = "SENT"]
  <2>2. c.status = "SENT"
    BY <2>1, MineTyped DEF MineType
  <2>3. Outcome(e, 1, "SENT", c)
    BY <1>3 DEF Accepted
  <2> HIDE DEF c
  <2> QED BY <2>2, <2>3, OutcomeAttempts
<1>4. ASSUME NEW a \in {0, 1}, pc[e] = "flushing", Outcome(e, a, "FAILED", AfterFailure(e))
      PROVE  Attempts'
  BY <1>4, AfterFailureIs, OutcomeAttempts
<1>5. CASE Rejected(e) \/ AnswerLost(e)
  BY <1>4, <1>5 DEF Rejected, AnswerLost
<1>6. CASE Commit(e) \/ Deadlocked(e)
  BY <1>6, CloseAttempts DEF Commit, Deadlocked
<1> QED BY <1>1, <1>2, <1>3, <1>5, <1>6 DEF Pass

LEMMA NextAttempts == IInv /\ Attempts /\ [Next]_vars => Attempts'
<1> SUFFICES ASSUME IInv, Attempts, [Next]_vars PROVE Attempts'
  OBVIOUS
<1>1. ASSUME NEW m \in Messages, CheckKey(m) \/ Refuse(m) \/ InsertConflict(m)
      PROVE  Attempts'
  BY <1>1, QuietAttempts DEF CheckKey, Refuse, InsertConflict, session
<1>2. ASSUME NEW m \in Messages, Insert(m) PROVE Attempts'
  <2>1. /\ ~Exists(m) /\ UNCHANGED <<added, mine>>
        /\ \A n \in Messages \ {m} : log'[n] = log[n]
    BY <1>2 DEF Insert, UniqueIndex, KeyInUse, session, IInv, TypeOK
  <2>2. \A e \in Engines : added[e][m] = <<>>
    BY <2>1, AttemptsApart
  <2> QED BY <2>1, <2>2, QuietAttempts
<1>3. ASSUME NEW e \in Engines, Crash(e) PROVE Attempts'
  BY <1>3, CloseAttempts DEF Crash
<1>4. CASE SwitchProvider \/ UNCHANGED vars
  BY <1>4, QuietAttempts DEF SwitchProvider, vars, session
<1>5. CASE Tick
  <2>1. /\ UNCHANGED <<log, added>>
        /\ mine' = [e \in Engines |-> [m \in Messages |->
                     [mine[e][m] EXCEPT !.wait = IF @ = None THEN None ELSE Left(@, 1)]]]
    BY <1>5 DEF Tick
  <2>2. ASSUME NEW e \in Engines, NEW m \in Messages
        PROVE  mine'[e][m].status = mine[e][m].status
    <3>1. mine[e][m] \in MineType
      BY MineTyped
    <3> QED BY <2>1, <3>1 DEF MineType
  <2> QED BY <2>1, <2>2, QuietAttempts
<1> QED BY <1>1, <1>2, <1>3, <1>4, <1>5, PassAttempts DEF Next, Queue

(* The refinement mapping. *)
Tried(e) == {n \in Messages : added[e][n] # <<>>}

HistoryBar == [m \in Rowed |-> Outcomes(log[m])]
VerdictBar == [m \in Rowed |-> Verdict(comm[m].status)]
AttemptBar == [e \in Engines |-> [m \in Tried(e) |-> added[e][m][2].event]]
TakenBar == {m \in Messages : sent[m] > 0}

bars == <<HistoryBar, VerdictBar, AttemptBar, TakenBar>>

Bar == Book!Next \/ UNCHANGED bars

(* The abstract actions, in terms of the mapping. *)
LEMMA BookAccept ==
  ASSUME NEW m \in Messages,
         \A n \in Rowed : KeyOf[n] # KeyOf[m],
         HistoryBar' = Book!With(HistoryBar, m, <<>>),
         VerdictBar' = Book!With(VerdictBar, m, "open"),
         UNCHANGED <<AttemptBar, TakenBar>>
  PROVE  Book!Next
BY DEF Book!Next, Book!Accept, Book!Accepted, HistoryBar, VerdictBar, AttemptBar, TakenBar, Tried

LEMMA BookTry ==
  ASSUME NEW e \in Engines, NEW m \in Rowed, NEW outcome \in {"SENT", "FAILED"},
         \A f \in Engines : m \notin Tried(f),
         AttemptBar' = [AttemptBar EXCEPT ![e] = Book!With(@, m, outcome)],
         \/ TakenBar' = TakenBar \cup {m}
         \/ TakenBar' = TakenBar /\ outcome = "FAILED",
         UNCHANGED <<HistoryBar, VerdictBar>>
  PROVE  Book!Next
<1>1. m \in Messages
  BY DEF Rowed
<1>2. Book!Try(e, m, outcome)
  BY DEF Book!Try, Book!Accepted, HistoryBar, VerdictBar, AttemptBar, TakenBar, Tried
<1> QED BY <1>1, <1>2 DEF Book!Next

LEMMA BookForget ==
  ASSUME NEW e \in Engines,
         AttemptBar' = [AttemptBar EXCEPT ![e] = Book!Nothing],
         UNCHANGED <<HistoryBar, VerdictBar, TakenBar>>
  PROVE  Book!Next
<1>1. Book!Forget(e)
  BY DEF Book!Forget, HistoryBar, VerdictBar, AttemptBar, TakenBar, Tried
<1> QED BY <1>1 DEF Book!Next

LEMMA BookRecord ==
  ASSUME NEW e \in Engines, UNCHANGED TakenBar, Rowed' = Rowed,
         AttemptBar' = [AttemptBar EXCEPT ![e] = Book!Nothing],
         \A m \in Rowed :
           IF m \in Tried(e)
           THEN /\ HistoryBar'[m] = Append(HistoryBar[m], AttemptBar[e][m])
                /\ VerdictBar'[m] = Book!Verdict(HistoryBar'[m])
           ELSE /\ HistoryBar'[m] = HistoryBar[m]
                /\ \/ VerdictBar'[m] = VerdictBar[m]
                   \/ VerdictBar'[m] = "failed" /\ Book!Hopeless(m)
  PROVE  Book!Next
<1>1. /\ DOMAIN HistoryBar = Rowed /\ DOMAIN VerdictBar = Rowed
      /\ DOMAIN AttemptBar[e] = Tried(e)
  BY DEF HistoryBar, VerdictBar, AttemptBar
<1>2. VerdictBar' \in [Rowed -> {"open", "sent", "failed"}]
  BY DEF VerdictBar, Verdict
<1>3. HistoryBar' = [m \in Rowed |-> IF m \in Tried(e)
                                     THEN Append(HistoryBar[m], AttemptBar[e][m])
                                     ELSE HistoryBar[m]]
  <2>1. HistoryBar' = [m \in Rowed |-> HistoryBar'[m]]
    BY DEF HistoryBar
  <2> QED BY <2>1
<1>4. Book!Record(e)
  BY <1>1, <1>2, <1>3
     DEF Book!Record, Book!Accepted, HistoryBar, VerdictBar, AttemptBar, TakenBar, Tried
<1> QED BY <1>4 DEF Book!Next

LEMMA QuietStep ==
  ASSUME UNCHANGED <<log, added, sent>>,
         \A m \in Messages : comm'[m].status = comm[m].status
  PROVE  Bar
<1>1. Rowed' = Rowed
  BY DEF Rowed, Exists
<1> QED BY <1>1 DEF Bar, bars, HistoryBar, VerdictBar, AttemptBar, TakenBar, Tried, Rowed

(* A new message has no outcomes yet. *)
LEMMA InsertBar ==
  ASSUME IInv, NEW m \in Messages, Insert(m)
  PROVE  Bar
<1> DEFINE d == [seq |-> 1, event |-> "QUEUED"]
<1>1. /\ ~KeyInUse(m) /\ ~Exists(m) /\ log[m] = <<>>
      /\ comm' = [comm EXCEPT ![m] = [status |-> "QUEUED", wait |-> 0]]
      /\ log' = [log EXCEPT ![m] = Append(@, d)]
      /\ UNCHANGED <<added, sent>>
  BY DEF Insert, UniqueIndex, session, IInv, Tables, Rows, KeyInUse
<1>2. /\ comm'[m].status = "QUEUED" /\ log'[m] = <<d>>
      /\ \A n \in Messages \ {m} : log'[n] = log[n] /\ comm'[n] = comm[n]
  BY <1>1 DEF IInv, TypeOK
<1>3. Outcomes(<<d>>) = <<>>
  <2>1. <<d>> \in Seq(Delivery) /\ <<d>> # <<>> /\ IsTimeline(<<d>>) /\ Len(<<d>>) = 1
    BY DEF Delivery, Event, IsTimeline
  <2>2. PICK k \in Nat : /\ Len(<<d>>) = 2 * k + 1
                         /\ Outcomes(<<d>>) \in Seq(OutcomeSet) /\ Len(Outcomes(<<d>>)) = k
    BY <2>1, AttemptsOf
  <2>3. k = 0
    BY <2>1, <2>2
  <2> QED BY <2>2, <2>3
<1>4. Rowed' = Rowed \cup {m} /\ m \notin Rowed
  BY <1>1, <1>2 DEF Rowed, Exists
<1>5. HistoryBar' = Book!With(HistoryBar, m, <<>>)
  <2>1. HistoryBar' = [n \in Rowed' |-> Outcomes(log'[n])]
    BY DEF HistoryBar, Outcomes
  <2>2. \A n \in Rowed' : Outcomes(log'[n]) = IF n = m THEN <<>> ELSE HistoryBar[n]
    BY <1>2, <1>3, <1>4 DEF HistoryBar, Rowed
  <2>3. DOMAIN HistoryBar = Rowed
    BY DEF HistoryBar
  <2> QED BY <1>4, <2>1, <2>2, <2>3 DEF Book!With
<1>6. VerdictBar' = Book!With(VerdictBar, m, "open")
  <2>1. \A n \in Rowed' : Verdict(comm'[n].status) = IF n = m THEN "open" ELSE VerdictBar[n]
    BY <1>2, <1>4 DEF VerdictBar, Verdict, Rowed
  <2>2. DOMAIN VerdictBar = Rowed
    BY DEF VerdictBar
  <2>3. VerdictBar' = [n \in Rowed' |-> Verdict(comm'[n].status)]
    BY DEF VerdictBar, Verdict
  <2> QED BY <1>4, <2>1, <2>2, <2>3 DEF Book!With
<1>7. UNCHANGED <<AttemptBar, TakenBar>>
  BY <1>1 DEF AttemptBar, TakenBar, Tried
<1>8. \A n \in Rowed : KeyOf[n] # KeyOf[m]
  BY <1>1 DEF KeyInUse, Rowed
<1> QED BY <1>5, <1>6, <1>7, <1>8, BookAccept DEF Bar

(* The row lock keeps attempts at a message one at a time. *)
LEMMA OutcomeBar ==
  ASSUME IInv, NEW e \in Engines, NEW accepted \in {0, 1},
         NEW event \in {"SENT", "FAILED"}, NEW change,
         Outcome(e, accepted, event, change),
         accepted = 1 \/ event = "FAILED"
  PROVE  Bar
<1> DEFINE n == NextSeq(e, item[e])
           P == [seq |-> n, event |-> "PROCESSING"]
           F == [seq |-> n + 1, event |-> event]
<1>1. PICK k \in Messages : k = item[e]
  BY DEF Outcome, IInv, Passes
<1>2. /\ pc[e] = "flushing" /\ dirty[e] = {} /\ UNCHANGED <<comm, log>>
      /\ added' = [added EXCEPT ![e][k] = @ \o <<P, F>>]
      /\ sent' = [sent EXCEPT ![k] = Min({@ + accepted, MaxSent})]
  BY <1>1 DEF Outcome
<1>3. added[e][k] = <<>> /\ lock[k] = e /\ mine[e][k].status = "PROCESSING" /\ Session(e, k)
  BY <1>1, <1>2 DEF IInv, Passes, Session
<1>4. k \in Rowed
  <2>1. mine[e][k] # Unchanged
    BY <1>3, NoneAssumption DEF Unchanged, Status
  <2> QED BY <1>3, <2>1 DEF Session, Rowed
<1>5. \A f \in Engines : k \notin Tried(f)
  <2>1. ASSUME NEW f \in Engines, added[f][k] # <<>> PROVE FALSE
    <3>1. lock[k] = f
      BY <2>1, AttemptsApart
    <3> QED BY <1>3, <2>1, <3>1
  <2> QED BY <2>1 DEF Tried
<1> HIDE DEF n
<1>6. AttemptBar' = [AttemptBar EXCEPT ![e] = Book!With(@, k, event)]
  <2>1. <<>> \o <<P, F>> = <<P, F>> /\ <<P, F>> # <<>> /\ <<P, F>>[2] = F /\ F.event = event
    OBVIOUS
  <2> HIDE DEF P, F
  <2>2. /\ added'[e][k] = <<P, F>>
        /\ \A m \in Messages \ {k} : added'[e][m] = added[e][m]
        /\ \A f \in Engines \ {e} : added'[f] = added[f]
    BY <1>2, <1>3, <2>1 DEF IInv, TypeOK
  <2>3. Tried(e)' = Tried(e) \cup {k} /\ \A f \in Engines \ {e} : Tried(f)' = Tried(f)
    BY <2>1, <2>2 DEF Tried
  <2>4. AttemptBar'[e] = Book!With(AttemptBar[e], k, event)
    <3>1. AttemptBar'[e] = [m \in Tried(e)' |-> added'[e][m][2].event]
      BY DEF AttemptBar
    <3>2. AttemptBar[e] = [m \in Tried(e) |-> added[e][m][2].event]
      BY DEF AttemptBar
    <3>3. \A m \in Tried(e)' : added'[e][m][2].event = IF m = k THEN event ELSE AttemptBar[e][m]
      BY <2>1, <2>2, <2>3, <3>2 DEF Tried
    <3> QED BY <2>3, <3>1, <3>2, <3>3 DEF Book!With
  <2>5. ASSUME NEW f \in Engines \ {e} PROVE AttemptBar'[f] = AttemptBar[f]
    BY <2>2, <2>3 DEF AttemptBar
  <2>6. /\ AttemptBar' = [f \in Engines |-> AttemptBar'[f]]
        /\ AttemptBar = [f \in Engines |-> AttemptBar[f]]
    BY DEF AttemptBar
  <2> QED BY <2>4, <2>5, <2>6
<1>7. \/ TakenBar' = TakenBar \cup {k}
      \/ TakenBar' = TakenBar /\ event = "FAILED"
  <2>1. /\ sent[k] \in Nat /\ sent[k] <= MaxSent /\ MaxSent \in Nat /\ MaxSent > 0
        /\ sent \in [Messages -> 0 .. MaxSent]
    BY BoundAssumption DEF IInv, TypeOK
  <2>2. sent'[k] = IF sent[k] + accepted <= MaxSent THEN sent[k] + accepted ELSE MaxSent
    <3>1. sent'[k] = Min({sent[k] + accepted, MaxSent})
      BY <1>2, <2>1
    <3>2. sent[k] + accepted \in Nat
      BY <2>1
    <3> QED BY <2>1, <3>1, <3>2, MinOfTwo
  <2>3. \A m \in Messages \ {k} : sent'[m] = sent[m]
    BY <1>2, <2>1
  <2>4. CASE accepted = 1
    <3>1. sent'[k] > 0
      BY <2>1, <2>2, <2>4
    <3> QED BY <2>3, <3>1 DEF TakenBar
  <2>5. CASE accepted = 0
    <3>1. sent'[k] = sent[k]
      BY <2>1, <2>2, <2>5
    <3> QED BY <2>3, <2>5, <3>1 DEF TakenBar
  <2> QED BY <2>4, <2>5
<1>8. UNCHANGED <<HistoryBar, VerdictBar>>
  BY <1>2 DEF HistoryBar, VerdictBar, Rowed, Exists
<1> QED BY <1>4, <1>5, <1>6, <1>7, <1>8, BookTry DEF Bar

LEMMA ClosedBar ==
  ASSUME IInv, NEW e \in Engines, CloseSession(e)
  PROVE  AttemptBar' = [AttemptBar EXCEPT ![e] = Book!Nothing]
<1>1. /\ \A m \in Messages : added'[e][m] = <<>>
      /\ \A f \in Engines \ {e} : added'[f] = added[f]
  BY CloseSessionIs DEF CloseSession, IInv, TypeOK
<1>2. Tried(e)' = {} /\ \A f \in Engines \ {e} : Tried(f)' = Tried(f)
  BY <1>1 DEF Tried
<1>3. AttemptBar'[e] = Book!Nothing
  BY <1>2 DEF AttemptBar, Book!Nothing
<1>4. ASSUME NEW f \in Engines \ {e} PROVE AttemptBar'[f] = AttemptBar[f]
  BY <1>1, <1>2 DEF AttemptBar
<1>5. /\ AttemptBar' = [f \in Engines |-> AttemptBar'[f]]
      /\ AttemptBar = [f \in Engines |-> AttemptBar[f]]
  BY DEF AttemptBar
<1> QED BY <1>3, <1>4, <1>5

(* A crash or a deadlock. *)
LEMMA RollbackBar ==
  ASSUME IInv, NEW e \in Engines, CloseSession(e), UNCHANGED <<comm, log, sent>>
  PROVE  Bar
<1>1. UNCHANGED <<HistoryBar, VerdictBar, TakenBar>>
  BY DEF HistoryBar, VerdictBar, TakenBar, Rowed, Exists
<1> QED BY <1>1, ClosedBar, BookForget DEF Bar

(* What a pass records of a message it attempted: one more outcome, and     *)
(* the verdict of the longer history.                                       *)
LEMMA RecordedAttempt ==
  ASSUME IInv, Attempts, NEW e \in Engines, NEW m \in Tried(e)
  PROVE  /\ m \in Rowed
         /\ Outcomes(Timeline(e, m)) = Append(HistoryBar[m], AttemptBar[e][m])
         /\ Verdict(mine[e][m].status) = Book!Verdict(Outcomes(Timeline(e, m)))
<1>1. m \in Messages /\ added[e][m] # <<>>
  BY DEF Tried
<1>2. /\ Exists(m) /\ log[m] # <<>> /\ IsTimeline(log[m]) /\ IsTimeline(Timeline(e, m))
      /\ log[m] \in Seq(Delivery) /\ added[e][m] \in Seq(Delivery)
  BY <1>1, AttemptsApart
<1>3. AttemptOK(e, m)
  BY <1>1 DEF Attempts
<1> DEFINE P == added[e][m][1]
           F == added[e][m][2]
           h == Outcomes(Timeline(e, m))
<1>4. P \in Delivery /\ F \in Delivery /\ added[e][m] = <<P, F>>
  BY <1>1, <1>2, <1>3 DEF AttemptOK
<1> HIDE DEF P, F
<1>5. Timeline(e, m) = log[m] \o <<P, F>>
  BY <1>4 DEF Timeline
<1>6. h = Append(Outcomes(log[m]), F.event)
  BY <1>2, <1>4, <1>5, AttemptAppends
<1>7. Outcomes(log[m]) \in Seq(OutcomeSet)
  BY <1>2, AttemptsOf
<1>8. HistoryBar[m] = Outcomes(log[m]) /\ AttemptBar[e][m] = F.event
  BY <1>1, <1>2 DEF HistoryBar, Rowed, AttemptBar, F
<1>9. Timeline(e, m) \in Seq(Delivery) /\ Timeline(e, m) # <<>>
  BY <1>2, <1>4, <1>5
<1>10. Failures(Timeline(e, m)) = Book!Failed(h)
  BY <1>2, <1>9, FailuresInOutcomes
<1> HIDE DEF h
<1>11. h[Len(h)] = F.event
  BY <1>6, <1>7
<1>12. Verdict(mine[e][m].status) = IF F.event = "SENT" THEN "sent"
                                    ELSE IF Book!Failed(h) >= Len(Backoffs) THEN "failed"
                                    ELSE "open"
  BY <1>1, <1>3, <1>10 DEF AttemptOK, F
<1>13. Book!Verdict(h) = Verdict(mine[e][m].status)
  BY <1>11, <1>12 DEF Book!Verdict
<1> QED BY <1>1, <1>2, <1>6, <1>8, <1>13 DEF Rowed, h

(* What it records of one it has not attempted: at most that it is given up. *)
LEMMA RecordedOther ==
  ASSUME IInv, NEW e \in Engines, pc[e] = "passing", NEW m \in Rowed, m \notin Tried(e)
  PROVE  /\ Timeline(e, m) = log[m]
         /\ \/ mine[e][m].status = None
            \/ mine[e][m].status = "FAILED" /\ Book!Hopeless(m)
<1>1. m \in Messages /\ added[e][m] = <<>> /\ Session(e, m) /\ log[m] \in Seq(Delivery)
      /\ log[m] # <<>> /\ IsTimeline(log[m])
  BY DEF Tried, Rowed, IInv, Passes, Tables, Rows, TypeOK
<1>2. Timeline(e, m) = log[m]
  BY <1>1, EmptyTail DEF Timeline
<1>3. mine[e][m].status \in {None, "FAILED"}
  BY <1>1 DEF Session, Story
<1>4. CASE mine[e][m].status = "FAILED"
  <2>1. Failures(log[m]) >= Len(Backoffs)
    BY <1>1, <1>2, <1>4 DEF Session, Story
  <2>2. Failures(log[m]) = Book!Failed(Outcomes(log[m]))
    BY <1>1, FailuresInOutcomes
  <2>3. Book!Failed(HistoryBar[m]) >= Len(Backoffs)
    BY <2>1, <2>2 DEF HistoryBar
  <2> QED BY <1>2, <1>4, <2>3 DEF Book!Hopeless, HistoryBar
<1> QED BY <1>2, <1>3, <1>4

LEMMA CommitBar ==
  ASSUME IInv, Attempts, NEW e \in Engines, Commit(e)
  PROVE  Bar
<1>1. /\ pc[e] = "passing" /\ CloseSession(e)
      /\ comm' = [m \in Messages |->
                    [status |-> Column(mine[e][m].status, comm[m].status),
                     wait   |-> Column(mine[e][m].wait, comm[m].wait)]]
      /\ log' = [m \in Messages |-> Timeline(e, m)]
      /\ UNCHANGED sent
  BY DEF Commit
<1>2. \A m \in Messages : comm'[m].status = Column(mine[e][m].status, comm[m].status)
  BY <1>1
<1>3. ASSUME NEW m \in Messages PROVE Exists(m)' <=> Exists(m)
  <2>1. Session(e, m) /\ mine[e][m] \in MineType
    BY MineTyped DEF IInv, Passes
  <2>2. mine[e][m].status # None => Exists(m) /\ mine[e][m].status # "NONE"
    BY <2>1, MineTyped DEF Session, MineType
  <2> QED BY <1>2, <2>2 DEF Column, Exists
<1>4. Rowed' = Rowed
  BY <1>3 DEF Rowed
<1>5. \A m \in Rowed : /\ HistoryBar'[m] = Outcomes(Timeline(e, m))
                       /\ VerdictBar'[m] = Verdict(Column(mine[e][m].status, comm[m].status))
  <2>1. \A m \in Rowed : m \in Messages
    BY DEF Rowed
  <2>2. /\ HistoryBar' = [m \in Rowed' |-> Outcomes(log'[m])]
        /\ VerdictBar' = [m \in Rowed' |-> Verdict(comm'[m].status)]
    BY DEF HistoryBar, VerdictBar, Outcomes, Verdict
  <2> QED BY <1>1, <1>2, <1>4, <2>1, <2>2
<1>6. ASSUME NEW m \in Rowed, m \in Tried(e)
      PROVE  /\ HistoryBar'[m] = Append(HistoryBar[m], AttemptBar[e][m])
             /\ VerdictBar'[m] = Book!Verdict(HistoryBar'[m])
  <2>1. mine[e][m].status # None
    BY <1>6 DEF Tried, IInv, Passes, Session
  <2> QED BY <1>5, <1>6, <2>1, RecordedAttempt DEF Column
<1>7. ASSUME NEW m \in Rowed, m \notin Tried(e)
      PROVE  /\ HistoryBar'[m] = HistoryBar[m]
             /\ \/ VerdictBar'[m] = VerdictBar[m]
                \/ VerdictBar'[m] = "failed" /\ Book!Hopeless(m)
  <2>1. HistoryBar[m] = Outcomes(log[m]) /\ VerdictBar[m] = Verdict(comm[m].status)
    BY DEF HistoryBar, VerdictBar
  <2>2. Timeline(e, m) = log[m]
    BY <1>1, <1>7, RecordedOther
  <2>3. CASE mine[e][m].status = None
    BY <1>5, <2>1, <2>2, <2>3 DEF Column
  <2>4. CASE mine[e][m].status = "FAILED" /\ Book!Hopeless(m)
    BY <1>5, <2>1, <2>2, <2>4, NoneAssumption DEF Column, Verdict, Status
  <2> QED BY <1>1, <1>7, <2>3, <2>4, RecordedOther
<1>8. UNCHANGED TakenBar
  BY <1>1 DEF TakenBar
<1> QED BY <1>1, <1>4, <1>6, <1>7, <1>8, ClosedBar, BookRecord DEF Bar

LEMMA PassBar ==
  ASSUME IInv, Attempts, NEW e \in Engines, Pass(e)
  PROVE  Bar
<1>1. CASE Select(e) \/ Write(e)
  BY <1>1, QuietStep DEF Select, Write
<1>2. ASSUME NEW m \in Messages, Dispatch(e, m) PROVE Bar
  BY <1>2, QuietStep DEF Dispatch
<1>3. CASE Accepted(e) \/ Rejected(e) \/ AnswerLost(e)
  BY <1>3, OutcomeBar DEF Accepted, Rejected, AnswerLost
<1>4. CASE Deadlocked(e)
  BY <1>4, RollbackBar DEF Deadlocked
<1> QED BY <1>1, <1>2, <1>3, <1>4, CommitBar DEF Pass

LEMMA StepSimulation == IInv /\ Attempts /\ [Next]_vars => Bar
<1> SUFFICES ASSUME IInv, Attempts, [Next]_vars PROVE Bar
  OBVIOUS
<1>1. ASSUME NEW m \in Messages, Queue(m) PROVE Bar
  <2>1. CASE CheckKey(m) \/ Refuse(m) \/ InsertConflict(m)
    BY <2>1, QuietStep DEF CheckKey, Refuse, InsertConflict, session
  <2> QED BY <1>1, <2>1, InsertBar DEF Queue
<1>2. ASSUME NEW e \in Engines, Crash(e) PROVE Bar
  BY <1>2, RollbackBar DEF Crash
<1>3. CASE SwitchProvider \/ UNCHANGED vars
  BY <1>3, QuietStep DEF SwitchProvider, vars, session
<1>4. CASE Tick
  <2>1. /\ UNCHANGED <<log, added, sent>>
        /\ comm' = [m \in Messages |-> [comm[m] EXCEPT !.wait = Left(@, 1)]]
    BY <1>4 DEF Tick
  <2>2. \A m \in Messages : comm'[m].status = comm[m].status
    BY <2>1 DEF IInv, TypeOK
  <2> QED BY <2>1, <2>2, QuietStep
<1> QED BY <1>1, <1>2, <1>3, <1>4, PassBar DEF Next

LEMMA InitBook == Init => Book!Init /\ Attempts
<1> SUFFICES ASSUME Init PROVE Book!Init /\ Attempts
  OBVIOUS
<1>1. Rowed = {} /\ TakenBar = {} /\ \A e \in Engines : Tried(e) = {}
  BY DEF Init, Rowed, Exists, TakenBar, Tried
<1>2. Attempts
  BY DEF Init, Attempts, AttemptOK
<1>3. Book!Init
  BY <1>1 DEF Book!Init, Book!Nothing, TakenBar, Tried
<1> QED BY <1>2, <1>3

(* However requests and passes interleave, deadlock, crash or lose answers, *)
(* a message is accepted once per key, attempted by one pass at a time,     *)
(* given one more recorded outcome per recorded attempt and none otherwise, *)
(* and its status is the verdict of what is recorded                        *)
(* (communication_service.py, notification_engine.py, and                  *)
(* communication_dispatcher.py).                                            *)
THEOREM BookImplemented == Spec => BookSpec
<1>1. Init => Book!Init /\ Attempts
  BY InitBook
<1>2. IInv /\ Attempts /\ [Next]_vars => [Book!Next]_bars
  BY StepSimulation DEF Bar
<1> QED
  BY <1>1, <1>2, NextAttempts, Invariance, PTL
     DEF Spec, BookSpec, Book!Spec, bars, HistoryBar, VerdictBar, AttemptBar, TakenBar, Tried
=============================================================================
