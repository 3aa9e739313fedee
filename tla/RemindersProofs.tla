--------------------------- MODULE RemindersProofs ---------------------------
(***************************************************************************)
(* Safety of reminders for any number of overlapping generators and        *)
(* sweeps, any targets and any number of crashes.                          *)
(***************************************************************************)
EXTENDS Reminders, TLAPS

(* A generator works through the stages one by one, so a target it has      *)
(* inserted a row for does not come again in the same transaction.         *)
Ahead(g) ==
  /\ gen[g].pc # "idle" => gen[g].stage > 0
  /\ gen[g].pc = "insert" => gen[g].stage \in DOMAIN Stages
  /\ gen[g].want \cap gen[g].todo = {}
  /\ gen[g].pc # "insert" => gen[g].todo \cup gen[g].want = {}
  /\ \A r \in gen[g].mine :
       /\ r[1] \notin gen[g].todo \cup gen[g].want
       /\ \E n \in DOMAIN Stages :
            /\ r[1].type = Stages[n]
            /\ n <= gen[g].stage
            /\ gen[g].pc = "select" => n < gen[g].stage

(* Two rows of one transaction are about different targets. *)
HeldOnce(g) == \A r, q \in gen[g].mine : r[1] = q[1] => r = q

(* The rows in a sweep's hands are in the table, and those it has changed   *)
(* were published.                                                         *)
SweepsCarry ==
  \A p \in Sweeps :
    /\ \A r \in sweep[p].todo \cup sweep[p].done : reminder[r] # "NONE"
    /\ sweep[p].done \subseteq published

IInv ==
  /\ TypeOK
  /\ \A g \in Generators : Ahead(g) /\ HeldOnce(g)
  /\ Uncommitted
  /\ SweepsCarry
  /\ OnePendingPerTarget
  /\ DispatchedWasPublished

GenRecord ==
  [pc : {"idle", "select", "insert"}, stage : 0 .. Len(Stages) + 1,
   todo : SUBSET Targets, want : SUBSET Targets, mine : SUBSET Rows]

SweepRecord == [pc : {"idle", "sweep"}, todo : SUBSET Rows, done : SUBSET Rows]

-----------------------------------------------------------------------------
LEMMA Records ==
  ASSUME IInv
  PROVE  /\ gen \in [Generators -> GenRecord]
         /\ sweep \in [Sweeps -> SweepRecord]
BY DEF IInv, TypeOK, GenRecord, SweepRecord

LEMMA StagesTyped ==
  /\ DOMAIN Stages = 1 .. 3 /\ Len(Stages) = 3
  /\ \A m, n \in DOMAIN Stages : Stages[m] = Stages[n] => m = n
BY DEF Stages

LEMMA InitEstablishes == Init => IInv
<1> SUFFICES ASSUME Init PROVE IInv
  OBVIOUS
<1>1. TypeOK
  BY BoundsAssumption, StagesTyped DEF Init, TypeOK, IdleGen, IdleSweep
<1>2. \A g \in Generators : Ahead(g) /\ HeldOnce(g)
  BY DEF Init, Ahead, HeldOnce, IdleGen
<1> QED BY <1>1, <1>2 DEF Init, IInv, IdleGen, IdleSweep, Uncommitted, SweepsCarry,
             OnePendingPerTarget, DispatchedWasPublished

(* What a generator's record may become, apart from a row it inserts: its   *)
(* transaction keeps its rows or loses all of them.                        *)
LEMMA GenKeeps ==
  ASSUME IInv, NEW g \in Generators, NEW rec,
         rec \in GenRecord,
         \A x \in rec.todo \cup rec.want :
           rec.stage \in DOMAIN Stages /\ x.type = Stages[rec.stage],
         rec.mine \in {{}, gen[g].mine},
         gen' = [gen EXCEPT ![g] = rec],
         Ahead(g)',
         UNCHANGED <<due, reminder, published, sweep, crashes>>
  PROVE  IInv'
<1>1. /\ gen'[g] = rec
      /\ \A h \in Generators \ {g} : gen'[h] = gen[h]
      /\ \A h \in Generators : gen'[h].mine \subseteq gen[h].mine
  BY DEF IInv, TypeOK
<1>2. TypeOK'
  BY <1>1 DEF IInv, TypeOK, GenRecord
<1>3. \A h \in Generators : Ahead(h)' /\ HeldOnce(h)'
  BY <1>1 DEF IInv, Ahead, HeldOnce
<1>4. Uncommitted'
  BY <1>1 DEF IInv, Uncommitted, Pending, HeldBy
<1> QED BY <1>2, <1>3, <1>4 DEF IInv, SweepsCarry, OnePendingPerTarget, DispatchedWasPublished

LEMMA AbandonKeeps ==
  ASSUME IInv, NEW g \in Generators, gen' = [gen EXCEPT ![g] = IdleGen],
         UNCHANGED <<due, reminder, published, sweep, crashes>>
  PROVE  IInv'
<1>1. Ahead(g)'
  BY DEF IInv, TypeOK, Ahead, IdleGen
<1>2. IdleGen \in GenRecord
  BY StagesTyped DEF IdleGen, GenRecord
<1>3. IdleGen.todo = {} /\ IdleGen.want = {} /\ IdleGen.mine = {}
  BY DEF IdleGen
<1> QED BY <1>1, <1>2, <1>3, GenKeeps

(* A stage begins, with the rows of the stages before it or with none. *)
LEMMA AtStageKeeps ==
  ASSUME IInv, NEW g \in Generators, NEW n \in 1 .. 4, NEW rows \in {{}, gen[g].mine},
         n > gen[g].stage \/ rows = {},
         gen' = [gen EXCEPT ![g] = AtStage(n, rows)],
         UNCHANGED <<due, reminder, published, sweep, crashes>>
  PROVE  IInv'
<1>1. AtStage(n, rows) \in GenRecord
  BY StagesTyped DEF IInv, TypeOK, AtStage, GenRecord
<1>2. gen'[g] = AtStage(n, rows)
  BY DEF IInv, TypeOK
<1>3. /\ AtStage(n, rows).todo = {} /\ AtStage(n, rows).want = {}
      /\ AtStage(n, rows).mine = rows
      /\ AtStage(n, rows).stage = n /\ AtStage(n, rows).pc = "select"
  BY DEF AtStage
<1>4. Ahead(g)'
  <2> SUFFICES ASSUME NEW r \in rows
               PROVE  \E m \in DOMAIN Stages : r[1].type = Stages[m] /\ m < n
    BY <1>2, <1>3, StagesTyped DEF Ahead
  <2>1. r \in gen[g].mine /\ n > gen[g].stage
    OBVIOUS
  <2>2. PICK m \in DOMAIN Stages : r[1].type = Stages[m] /\ m <= gen[g].stage
    BY <2>1 DEF IInv, Ahead
  <2>3. gen[g].stage \in 0 .. 4
    BY StagesTyped DEF IInv, TypeOK
  <2> QED BY <2>1, <2>2, <2>3, StagesTyped
<1> QED BY <1>1, <1>3, <1>4, GenKeeps

LEMMA SelectStageKeeps ==
  ASSUME IInv, NEW g \in Generators, SelectStage(g)
  PROVE  IInv'
<1>1. gen[g].stage \in DOMAIN Stages
  BY StagesTyped DEF IInv, TypeOK, SelectStage, AllStagesDone, Ahead
<1>2. OfStage(gen[g].stage) \subseteq Targets
      /\ \A x \in OfStage(gen[g].stage) : x.type = Stages[gen[g].stage]
  BY DEF IInv, TypeOK, OfStage
<1>3. gen[g].want = {}
  BY DEF IInv, SelectStage, Ahead
<1> DEFINE rec == [gen[g] EXCEPT !.pc = "insert", !.todo = OfStage(gen[g].stage)]
<1>4. /\ rec \in GenRecord
      /\ rec.pc = "insert" /\ rec.stage = gen[g].stage
      /\ rec.todo = OfStage(gen[g].stage) /\ rec.want = {} /\ rec.mine = gen[g].mine
  BY <1>2, <1>3, Records DEF GenRecord
<1>5. gen' = [gen EXCEPT ![g] = rec]
  BY DEF SelectStage, IInv, TypeOK
<1>6. gen'[g] = rec
  BY <1>5 DEF IInv, TypeOK
<1> HIDE DEF rec
<1>7. Ahead(g)'
  <2> SUFFICES ASSUME NEW r \in gen[g].mine
               PROVE  /\ r[1] \notin OfStage(gen[g].stage)
                      /\ \E n \in DOMAIN Stages : r[1].type = Stages[n] /\ n <= gen[g].stage
    BY <1>1, <1>4, <1>6, StagesTyped DEF Ahead
  <2>1. PICK n \in DOMAIN Stages : r[1].type = Stages[n] /\ n < gen[g].stage
    BY DEF IInv, Ahead, SelectStage
  <2> QED BY <1>1, <1>2, <2>1, StagesTyped
<1>8. \A x \in rec.todo \cup rec.want :
        rec.stage \in DOMAIN Stages /\ x.type = Stages[rec.stage]
  BY <1>1, <1>2, <1>4
<1>9. UNCHANGED <<due, reminder, published, sweep, crashes>>
  BY DEF SelectStage
<1> QED BY <1>4, <1>5, <1>7, <1>8, <1>9, GenKeeps

LEMMA IssueInsertKeeps ==
  ASSUME IInv, NEW g \in Generators, NEW x \in Targets, IssueInsert(g, x)
  PROVE  IInv'
<1> DEFINE rec == [gen[g] EXCEPT !.todo = @ \ {x}, !.want = {x}]
<1>1. /\ rec \in GenRecord
      /\ rec.pc = gen[g].pc /\ rec.stage = gen[g].stage
      /\ rec.todo = gen[g].todo \ {x} /\ rec.want = {x} /\ rec.mine = gen[g].mine
  BY Records DEF GenRecord
<1>2. gen' = [gen EXCEPT ![g] = rec]
  BY DEF IssueInsert, IInv, TypeOK
<1>3. gen'[g] = rec
  BY <1>2 DEF IInv, TypeOK
<1>4. x \in gen[g].todo
  BY DEF IssueInsert
<1> HIDE DEF rec
<1>5. Ahead(g)'
  BY <1>1, <1>3, <1>4 DEF IInv, Ahead
<1>6. \A y \in rec.todo \cup rec.want :
        rec.stage \in DOMAIN Stages /\ y.type = Stages[rec.stage]
  BY <1>1, <1>4 DEF IInv, TypeOK
<1> QED BY <1>1, <1>2, <1>5, <1>6, GenKeeps DEF IssueInsert

(* The row a generator inserts: nobody else has it, or a row of its target. *)
LEMMA InsertedKeeps ==
  ASSUME IInv, NEW g \in Generators, NEW r \in Rows, Inserted(g, r)
  PROVE  IInv'
<1>1. /\ r[1] \in gen[g].want /\ ~Pending(r[1]) /\ Free(r)
      /\ \A h \in Generators \ {g} : ~HeldBy(h, r[1])
  BY DEF Inserted, Inserting, Blocked, UniqueIndex
<1>2. /\ gen'[g] = [gen[g] EXCEPT !.want = {}, !.mine = @ \cup {r}]
      /\ \A h \in Generators \ {g} : gen'[h] = gen[h]
      /\ reminder' = [reminder EXCEPT ![r] = "NONE"]
      /\ published' = published \ {r}
      /\ UNCHANGED <<due, sweep, crashes>>
  BY DEF Inserted, IInv, TypeOK
<1>3. /\ gen'[g].pc = gen[g].pc /\ gen'[g].stage = gen[g].stage
      /\ gen'[g].todo = gen[g].todo /\ gen'[g].want = {}
      /\ gen'[g].mine = gen[g].mine \cup {r}
  BY <1>2 DEF IInv, TypeOK
<1>4. /\ gen[g].stage \in DOMAIN Stages /\ r[1].type = Stages[gen[g].stage]
      /\ gen[g].pc = "insert"
  BY <1>1 DEF IInv, TypeOK, Ahead
<1>5. \A q \in gen[g].mine : q[1] # r[1]
  BY <1>1 DEF IInv, Ahead
<1>6. TypeOK'
  <2>1. gen'[g] \in GenRecord
    <3>1. gen[g] \in GenRecord /\ gen[g].mine \cup {r} \subseteq Rows
      BY Records DEF GenRecord
    <3> QED BY <1>2, <3>1 DEF GenRecord
  <2>2. gen' \in [Generators -> GenRecord]
    BY <1>2, <2>1, Records DEF Inserted
  <2>3. \A h \in Generators : \A x \in gen'[h].todo \cup gen'[h].want :
          gen'[h].stage \in DOMAIN Stages /\ x.type = Stages[gen'[h].stage]
    <3>1. \A h \in Generators : /\ gen'[h].todo = gen[h].todo
                                /\ gen'[h].want \subseteq gen[h].want
                                /\ gen'[h].stage = gen[h].stage
      BY <1>2, <1>3
    <3> QED BY <3>1 DEF IInv, TypeOK
  <2> QED BY <1>2, <2>2, <2>3 DEF IInv, TypeOK, GenRecord
<1>7. \A h \in Generators : Ahead(h)' /\ HeldOnce(h)'
  <2>1. Ahead(g)'
    <3>1. Ahead(g) /\ r[1] \notin gen[g].todo
      BY <1>1 DEF IInv, Ahead
    <3>2. \A q \in gen[g].mine \cup {r} :
            /\ q[1] \notin gen[g].todo
            /\ \E n \in DOMAIN Stages : q[1].type = Stages[n] /\ n <= gen[g].stage
      BY <1>4, <3>1, StagesTyped DEF Ahead
    <3> QED BY <1>3, <1>4, <3>1, <3>2 DEF Ahead
  <2>2. HeldOnce(g)'
    BY <1>3, <1>5 DEF IInv, HeldOnce
  <2>3. ASSUME NEW h \in Generators \ {g} PROVE Ahead(h)' /\ HeldOnce(h)'
    <3>1. gen'[h] = gen[h] /\ Ahead(h) /\ HeldOnce(h)
      BY <1>2 DEF IInv
    <3> QED BY <3>1 DEF Ahead, HeldOnce
  <2> QED BY <2>1, <2>2, <2>3
<1>8. Uncommitted'
  <2>1. \A q \in Rows : reminder'[q] \in {reminder[q], "NONE"}
    BY <1>2 DEF IInv, TypeOK
  <2>2. \A x : Pending(x)' => Pending(x)
    BY <2>1 DEF Pending
  <2>3. reminder'[r] = "NONE" /\ gen[g].mine \subseteq Rows
    BY <1>2 DEF IInv, TypeOK
  <2>4. ASSUME NEW h \in Generators, NEW q \in gen'[h].mine
        PROVE  reminder'[q] = "NONE" /\ ~Pending(q[1])'
    <3>1. CASE h = g /\ q = r
      BY <1>1, <2>2, <2>3, <3>1
    <3>2. CASE q \in gen[h].mine
      <4>1. q \in Rows /\ reminder[q] = "NONE" /\ ~Pending(q[1])
        BY <3>2 DEF IInv, TypeOK, Uncommitted
      <4> QED BY <2>1, <2>2, <4>1
    <3> QED BY <1>2, <1>3, <3>1, <3>2
  <2>5. ASSUME NEW h \in Generators, NEW q \in gen'[h].mine,
               NEW k \in Generators \ {h}
        PROVE  ~HeldBy(k, q[1])'
    <3>1. CASE k # g /\ h # g
      BY <1>2, <3>1 DEF IInv, Uncommitted, HeldBy
    <3>2. CASE h = g
      <4>1. ~HeldBy(k, q[1])
        BY <1>1, <1>3, <3>2 DEF IInv, Uncommitted
      <4> QED BY <1>2, <3>2, <4>1 DEF HeldBy
    <3>3. CASE k = g
      <4>1. h # g /\ q \in gen[h].mine
        BY <1>2, <3>3
      <4>2. ~HeldBy(g, q[1]) /\ ~HeldBy(h, r[1])
        BY <1>1, <4>1 DEF IInv, Uncommitted
      <4> QED BY <1>3, <3>3, <4>1, <4>2 DEF HeldBy
    <3> QED BY <3>1, <3>2, <3>3
  <2> QED BY <2>4, <2>5 DEF Uncommitted
<1>9. SweepsCarry'
  BY <1>1, <1>2 DEF IInv, TypeOK, SweepsCarry, Free
<1>10. OnePendingPerTarget' /\ DispatchedWasPublished'
  BY <1>2 DEF IInv, TypeOK, OnePendingPerTarget, DispatchedWasPublished
<1> QED BY <1>6, <1>7, <1>8, <1>9, <1>10 DEF IInv

LEMMA DuplicatedKeeps ==
  ASSUME IInv, NEW g \in Generators, NEW x \in Targets, Duplicated(g, x)
  PROVE  IInv'
<1>1. gen[g].stage \in DOMAIN Stages
  BY DEF Duplicated, Inserting, IInv, TypeOK
<1>2. CASE gen[g].todo = {}
  <2>1. gen' = [gen EXCEPT ![g] = AtStage(gen[g].stage + 1, {})]
    BY <1>2 DEF Duplicated
  <2>2. gen[g].stage + 1 \in 1 .. 4
    BY <1>1, StagesTyped
  <2>3. UNCHANGED <<due, reminder, published, sweep, crashes>>
    BY DEF Duplicated
  <2> QED BY <2>1, <2>2, <2>3, AtStageKeeps
<1>3. CASE gen[g].todo # {}
  BY <1>3, AbandonKeeps DEF Duplicated
<1> QED BY <1>2, <1>3

LEMMA CommitGenKeeps ==
  ASSUME IInv, NEW g \in Generators, CommitGen(g)
  PROVE  IInv'
<1>1. /\ gen'[g] = IdleGen
      /\ \A h \in Generators \ {g} : gen'[h] = gen[h]
      /\ \A r \in Rows : reminder'[r] = IF r \in gen[g].mine THEN "PENDING" ELSE reminder[r]
      /\ UNCHANGED <<due, published, sweep, crashes>>
  BY DEF CommitGen, IInv, TypeOK
<1>2. TypeOK'
  <2>1. IdleGen \in GenRecord /\ IdleGen.todo = {} /\ IdleGen.want = {}
    BY StagesTyped DEF IdleGen, GenRecord
  <2> QED BY <1>1, <2>1 DEF CommitGen, IInv, TypeOK, GenRecord
<1>3. \A h \in Generators : Ahead(h)' /\ HeldOnce(h)'
  BY <1>1 DEF IInv, Ahead, HeldOnce, IdleGen
<1>4. ASSUME NEW h \in Generators, NEW q \in gen'[h].mine
      PROVE  /\ reminder'[q] = "NONE" /\ ~Pending(q[1])'
             /\ \A k \in Generators \ {h} : ~HeldBy(k, q[1])'
  <2>1. h # g /\ q \in gen[h].mine /\ q \in Rows
    BY <1>1 DEF IdleGen, IInv, TypeOK
  <2>2. reminder[q] = "NONE" /\ ~Pending(q[1]) /\ \A k \in Generators \ {h} : ~HeldBy(k, q[1])
    BY <2>1 DEF IInv, Uncommitted
  <2>3. \A r \in gen[g].mine : r[1] # q[1]
    BY <2>1, <2>2 DEF HeldBy
  <2>4. \A k \in Generators : gen'[k].mine \subseteq gen[k].mine
    BY <1>1 DEF IdleGen
  <2> QED BY <1>1, <2>1, <2>2, <2>3, <2>4 DEF Pending, HeldBy
<1>5. SweepsCarry'
  BY <1>1 DEF IInv, TypeOK, SweepsCarry
<1>6. OnePendingPerTarget'
  <2> SUFFICES ASSUME NEW r \in Rows, NEW q \in Rows, r[1] = q[1],
                      reminder'[r] = "PENDING", reminder'[q] = "PENDING"
               PROVE  r = q
    BY DEF OnePendingPerTarget
  <2>1. CASE r \in gen[g].mine /\ q \in gen[g].mine
    BY <2>1 DEF IInv, HeldOnce
  <2>2. CASE r \notin gen[g].mine /\ q \notin gen[g].mine
    BY <1>1, <2>2 DEF IInv, OnePendingPerTarget
  <2>3. CASE r \in gen[g].mine /\ q \notin gen[g].mine
    BY <1>1, <2>3 DEF IInv, Uncommitted, Pending
  <2>4. CASE r \notin gen[g].mine /\ q \in gen[g].mine
    BY <1>1, <2>4 DEF IInv, Uncommitted, Pending
  <2> QED BY <2>1, <2>2, <2>3, <2>4
<1>7. DispatchedWasPublished'
  BY <1>1 DEF IInv, DispatchedWasPublished
<1> QED BY <1>2, <1>3, <1>4, <1>5, <1>6, <1>7 DEF IInv, Uncommitted

LEMMA GenerateKeeps ==
  ASSUME IInv, NEW g \in Generators, Generate(g)
  PROVE  IInv'
<1>1. CASE StartGen(g)
  <2>1. gen' = [gen EXCEPT ![g] = AtStage(1, {})] /\ 1 \in 1 .. 4
    BY <1>1 DEF StartGen
  <2>2. UNCHANGED <<due, reminder, published, sweep, crashes>>
    BY <1>1 DEF StartGen
  <2> QED BY <2>1, <2>2, AtStageKeeps
<1>2. CASE SelectStage(g)
  BY <1>2, SelectStageKeeps
<1>3. CASE StageDone(g)
  <2>1. gen[g].stage \in 1 .. 3
    BY <1>3, StagesTyped DEF StageDone, IInv, Ahead
  <2>2. gen' = [gen EXCEPT ![g] = AtStage(gen[g].stage + 1, gen[g].mine)]
    BY <1>3 DEF StageDone
  <2>3. UNCHANGED <<due, reminder, published, sweep, crashes>>
    BY <1>3 DEF StageDone
  <2>4. gen[g].stage + 1 \in 1 .. 4 /\ gen[g].stage + 1 > gen[g].stage
    BY <2>1
  <2> QED BY <2>2, <2>3, <2>4, AtStageKeeps
<1>4. CASE CommitGen(g)
  BY <1>4, CommitGenKeeps
<1>5. ASSUME NEW x \in Targets, IssueInsert(g, x) PROVE IInv'
  BY <1>5, IssueInsertKeeps
<1>6. ASSUME NEW x \in Targets, InsertOf(g, x) PROVE IInv'
  BY <1>6, InsertedKeeps, DuplicatedKeeps DEF InsertOf
<1>7. CASE DeadlockAbort(g)
  BY <1>7, AbandonKeeps DEF DeadlockAbort
<1> QED BY <1>1, <1>2, <1>3, <1>4, <1>5, <1>6, <1>7 DEF Generate

-----------------------------------------------------------------------------
(* The table with these rows marked. *)
With(rows) == [r \in Rows |-> IF r \in rows THEN "DISPATCHED" ELSE reminder[r]]

(* A sweep's step: its record changes, rows are published, and rows it      *)
(* published become DISPATCHED.                                            *)
LEMMA SweepKeeps ==
  ASSUME IInv, NEW p \in Sweeps, NEW rec, NEW rows, NEW out,
         rec \in SweepRecord,
         \A r \in rec.todo \cup rec.done : reminder[r] # "NONE",
         out \subseteq Rows, rec.done \subseteq published \cup out,
         rows \subseteq sweep[p].done,
         sweep' = [sweep EXCEPT ![p] = rec],
         published' = published \cup out,
         reminder' = With(rows),
         UNCHANGED <<due, gen, crashes>>
  PROVE  IInv'
<1> USE DEF With
<1>1. TypeOK'
  BY DEF IInv, TypeOK, SweepRecord
<1>2. \A g \in Generators : Ahead(g)' /\ HeldOnce(g)'
  BY DEF IInv, Ahead, HeldOnce
<1>3. \A r \in rows : r \in Rows /\ reminder[r] # "NONE" /\ r \in published
  BY DEF IInv, TypeOK, SweepsCarry
<1>4. Uncommitted'
  BY <1>3 DEF IInv, TypeOK, Uncommitted, Pending, HeldBy
<1>5. SweepsCarry'
  <2> SUFFICES ASSUME NEW q \in Sweeps
               PROVE  /\ \A r \in sweep'[q].todo \cup sweep'[q].done : reminder'[r] # "NONE"
                      /\ sweep'[q].done \subseteq published'
    BY DEF SweepsCarry
  <2>1. CASE q = p
    <3>1. sweep'[q] = rec /\ rec.todo \cup rec.done \subseteq Rows
      BY <2>1, Records DEF SweepRecord
    <3> QED BY <3>1
  <2>2. CASE q # p
    BY <2>2 DEF IInv, TypeOK, SweepsCarry
  <2> QED BY <2>1, <2>2
<1>6. OnePendingPerTarget' /\ DispatchedWasPublished'
  BY <1>3 DEF IInv, TypeOK, OnePendingPerTarget, DispatchedWasPublished
<1> QED BY <1>1, <1>2, <1>4, <1>5, <1>6 DEF IInv

LEMMA SweepStepKeeps ==
  ASSUME IInv, NEW p \in Sweeps, Sweep(p)
  PROVE  IInv'
<1>0. reminder = With({})
  BY DEF IInv, TypeOK, With
<1>1. CASE StartSweep(p)
  <2> DEFINE rec == [pc |-> "sweep", done |-> {},
                     todo |-> {r \in Rows : reminder[r] = "PENDING"}]
  <2>1. rec \in SweepRecord
    BY DEF SweepRecord
  <2>2. \A r \in rec.todo \cup rec.done : reminder[r] # "NONE"
    OBVIOUS
  <2>3. rec.done = {} /\ sweep' = [sweep EXCEPT ![p] = rec]
    BY <1>1 DEF StartSweep, Listed
  <2> HIDE DEF rec
  <2>4. published' = published \cup {} /\ UNCHANGED <<due, reminder, gen, crashes>>
    BY <1>1 DEF StartSweep
  <2>5. reminder' = With({})
    BY <1>0, <2>4
  <2>6. {} \subseteq sweep[p].done /\ {} \subseteq Rows /\ rec.done \subseteq published \cup {}
    BY <2>3
  <2> QED BY <2>1, <2>2, <2>3, <2>4, <2>5, <2>6, SweepKeeps
<1>2. ASSUME NEW r \in Rows, PublishReminder(p, r) PROVE IInv'
  <2> DEFINE rec == [sweep[p] EXCEPT !.todo = @ \ {r}, !.done = @ \cup {r}]
             out == {r}
  <2>1. /\ rec \in SweepRecord
        /\ rec.todo = sweep[p].todo \ {r} /\ rec.done = sweep[p].done \cup {r}
    BY Records DEF SweepRecord
  <2>2. sweep' = [sweep EXCEPT ![p] = rec] /\ r \in sweep[p].todo
    BY <1>2 DEF PublishReminder
  <2>3. /\ \A q \in rec.todo \cup rec.done : reminder[q] # "NONE"
        /\ rec.done \subseteq published \cup out
    BY <2>1, <2>2 DEF IInv, SweepsCarry
  <2>4. published' = published \cup out /\ UNCHANGED <<due, reminder, gen, crashes>>
    BY <1>2 DEF PublishReminder
  <2>5. reminder' = With({})
    BY <1>0, <2>4
  <2>6. {} \subseteq sweep[p].done /\ out \subseteq Rows
    OBVIOUS
  <2> HIDE DEF rec, out
  <2> QED BY <2>1, <2>2, <2>3, <2>4, <2>5, <2>6, SweepKeeps
<1>3. CASE CommitSweep(p)
  <2>1. /\ IdleSweep \in SweepRecord
        /\ IdleSweep.todo = {} /\ IdleSweep.done = {}
    BY DEF IdleSweep, SweepRecord
  <2>2. published' = published \cup {}
    BY <1>3 DEF CommitSweep
  <2> QED BY <1>3, <2>1, <2>2, SweepKeeps DEF CommitSweep, Marked, With
<1> QED BY <1>1, <1>2, <1>3 DEF Sweep

LEMMA CrashKeeps == ASSUME IInv, Crash PROVE IInv'
<1>1. /\ \A g \in Generators : gen'[g] = IdleGen
      /\ \A p \in Sweeps : sweep'[p] = IdleSweep
      /\ UNCHANGED <<due, reminder, published>>
  BY DEF Crash
<1>2. TypeOK'
  BY BoundsAssumption, StagesTyped DEF Crash, IInv, TypeOK, IdleGen, IdleSweep
<1>3. \A g \in Generators : Ahead(g)' /\ HeldOnce(g)'
  BY <1>1 DEF Ahead, HeldOnce, IdleGen
<1> QED BY <1>1, <1>2, <1>3 DEF IInv, Uncommitted, SweepsCarry, IdleGen, IdleSweep,
             OnePendingPerTarget, DispatchedWasPublished

-----------------------------------------------------------------------------
LEMMA NextKeeps == IInv /\ [Next]_vars => IInv'
<1> SUFFICES ASSUME IInv, [Next]_vars PROVE IInv'
  OBVIOUS
<1>1. ASSUME UNCHANGED <<reminder, published, gen, sweep, crashes>>, due' \subseteq Targets
      PROVE  IInv'
  BY <1>1 DEF IInv, TypeOK, Ahead, HeldOnce, Uncommitted, Pending, HeldBy, SweepsCarry,
              OnePendingPerTarget, DispatchedWasPublished
<1>2. ASSUME NEW x \in Targets, BecomesDue(x) \/ Attended(x) PROVE IInv'
  BY <1>1, <1>2 DEF BecomesDue, Attended, IInv, TypeOK
<1>3. ASSUME NEW g \in Generators, Generate(g) PROVE IInv'
  BY <1>3, GenerateKeeps
<1>4. ASSUME NEW p \in Sweeps, Sweep(p) PROVE IInv'
  BY <1>4, SweepStepKeeps
<1>5. CASE Crash
  BY <1>5, CrashKeeps
<1>6. CASE UNCHANGED vars
  BY <1>1, <1>6 DEF vars, IInv, TypeOK
<1> QED BY <1>2, <1>3, <1>4, <1>5, <1>6 DEF Next

(* IInv is inductive: each overlapping run holds what its own transaction    *)
(* has claimed, whatever the other runs do (reminder_engine.py).            *)
THEOREM Invariance == Spec => []IInv
<1>1. Init => IInv
  BY InitEstablishes
<1>2. IInv /\ [Next]_vars => IInv'
  BY NextKeeps
<1> QED BY <1>1, <1>2, PTL DEF Spec

(* Every variable of the reminders keeps its type, and a generator only      *)
(* inserts what the SELECT of its stage is for.                            *)
THEOREM TypeCorrect == Spec => []TypeOK
<1>1. IInv => TypeOK
  BY DEF IInv
<1> QED BY <1>1, Invariance, PTL

(* However many runs of the reminder jobs overlap, are rolled back or die,   *)
(* a lead or task has at most one PENDING reminder.                        *)
THEOREM PendingIsUnique == Spec => []OnePendingPerTarget
<1>1. IInv => OnePendingPerTarget
  BY DEF IInv
<1> QED BY <1>1, Invariance, PTL

(* No row is ever marked DISPATCHED unless its event went out before.        *)
THEOREM DispatchedAfterPublish == Spec => []DispatchedWasPublished
<1>1. IInv => DispatchedWasPublished
  BY DEF IInv
<1> QED BY <1>1, Invariance, PTL

(* What a generator has inserted and not committed is invisible, and nobody  *)
(* else has or commits a row for its targets meanwhile.                    *)
THEOREM TransactionsApart == Spec => []Uncommitted
<1>1. IInv => Uncommitted
  BY DEF IInv
<1> QED BY <1>1, Invariance, PTL

-----------------------------------------------------------------------------
(* The refinement of ReminderBook.                                          *)

(* Nobody hears of a row before it is committed. *)
Unheard == \A g \in Generators : gen[g].mine \cap published = {}

LEMMA NextUnheard == IInv /\ Unheard /\ [Next]_vars => Unheard'
<1> SUFFICES ASSUME IInv, Unheard, [Next]_vars PROVE Unheard'
  OBVIOUS
<1>1. ASSUME \A g \in Generators : gen'[g].mine \subseteq gen[g].mine,
             published' \subseteq published
      PROVE  Unheard'
  BY <1>1 DEF Unheard
<1>2. ASSUME NEW g \in Generators, NEW rec, gen' = [gen EXCEPT ![g] = rec],
             rec.mine \subseteq gen[g].mine, UNCHANGED published
      PROVE  Unheard'
  BY <1>1, <1>2 DEF IInv, TypeOK
<1>3. ASSUME NEW g \in Generators, Generate(g) PROVE Unheard'
  <2>1. CASE StartGen(g) \/ StageDone(g) \/ CommitGen(g) \/ DeadlockAbort(g)
    BY <1>2, <2>1 DEF StartGen, StageDone, CommitGen, DeadlockAbort, AtStage, IdleGen
  <2>2. ASSUME NEW x \in Targets, Duplicated(g, x) PROVE Unheard'
    BY <1>2, <2>2 DEF Duplicated, AtStage, IdleGen
  <2>3. CASE SelectStage(g)
    BY <1>1, <2>3, Records DEF SelectStage, GenRecord
  <2>4. ASSUME NEW x \in Targets, IssueInsert(g, x) PROVE Unheard'
    BY <1>1, <2>4, Records DEF IssueInsert, GenRecord
  <2>5. ASSUME NEW r \in Rows, Inserted(g, r) PROVE Unheard'
    <3>1. /\ published' = published \ {r}
          /\ \A h \in Generators : gen'[h].mine \subseteq gen[h].mine \cup {r}
      BY <2>5, Records DEF Inserted, GenRecord
    <3> QED BY <3>1 DEF Unheard
  <2> QED BY <1>3, <2>1, <2>2, <2>3, <2>4, <2>5 DEF Generate, InsertOf
<1>4. ASSUME NEW p \in Sweeps, Sweep(p) PROVE Unheard'
  <2>1. CASE StartSweep(p) \/ CommitSweep(p)
    BY <1>1, <2>1 DEF StartSweep, CommitSweep
  <2>2. ASSUME NEW r \in Rows, PublishReminder(p, r) PROVE Unheard'
    <3>1. reminder[r] # "NONE" /\ published' = published \cup {r} /\ UNCHANGED gen
      BY <2>2 DEF PublishReminder, IInv, SweepsCarry
    <3>2. \A g \in Generators : r \notin gen[g].mine
      BY <3>1 DEF IInv, Uncommitted
    <3> QED BY <3>1, <3>2 DEF Unheard
  <2> QED BY <1>4, <2>1, <2>2 DEF Sweep
<1>5. CASE Crash
  BY <1>1, <1>5 DEF Crash, IdleGen
<1>6. ASSUME NEW x \in Targets, BecomesDue(x) \/ Attended(x) PROVE Unheard'
  BY <1>1, <1>6 DEF BecomesDue, Attended
<1>7. CASE UNCHANGED vars
  BY <1>1, <1>7 DEF vars
<1> QED BY <1>3, <1>4, <1>5, <1>6, <1>7 DEF Next

(* The refinement mapping. *)
OpenBar == {x \in Targets : Pending(x)}
ToldBar == {x \in Targets : \E r \in published : r[1] = x /\ reminder[r] = "PENDING"}

Bar == Book!Next \/ UNCHANGED <<OpenBar, ToldBar>>

LEMMA QuietStep ==
  ASSUME UNCHANGED <<reminder, published>>
  PROVE  Bar
BY DEF Bar, OpenBar, ToldBar, Pending

(* An INSERT shows in no one's book. *)
LEMMA InsertedBar ==
  ASSUME IInv, NEW g \in Generators, NEW r \in Rows, Inserted(g, r)
  PROVE  Bar
<1>1. /\ reminder[r] # "PENDING" /\ published' = published \ {r}
      /\ reminder' = [reminder EXCEPT ![r] = "NONE"]
  BY DEF Inserted, Free
<1>2. \A q \in Rows : reminder'[q] = "PENDING" <=> reminder[q] = "PENDING"
  BY <1>1 DEF IInv, TypeOK
<1>3. published \subseteq Rows
  BY DEF IInv, TypeOK
<1>4. OpenBar' = OpenBar
  BY <1>2 DEF OpenBar, Pending
<1>5. ToldBar' = ToldBar
  BY <1>1, <1>2, <1>3 DEF ToldBar
<1> QED BY <1>4, <1>5 DEF Bar

(* A generator's commit opens the reminders of its transaction. *)
LEMMA CommitGenBar ==
  ASSUME IInv, Unheard, NEW g \in Generators, CommitGen(g)
  PROVE  Bar
<1> DEFINE new == {x \in Targets : HeldBy(g, x)}
<1>1. /\ \A r \in Rows : reminder'[r] = IF r \in gen[g].mine THEN "PENDING" ELSE reminder[r]
      /\ UNCHANGED published
      /\ gen[g].mine \subseteq Rows /\ published \subseteq Rows
  BY DEF CommitGen, IInv, TypeOK
<1>2. new \cap OpenBar = {}
  BY DEF HeldBy, OpenBar, IInv, Uncommitted
<1>3. OpenBar' = OpenBar \cup new
  BY <1>1 DEF OpenBar, Pending, HeldBy
<1>4. ToldBar' = ToldBar
  <2>1. \A r \in published : reminder'[r] = reminder[r]
    BY <1>1 DEF Unheard
  <2> QED BY <1>1, <2>1 DEF ToldBar
<1>5. Book!Open(new)
  BY <1>2, <1>3, <1>4 DEF Book!Open, OpenBar, ToldBar
<1> QED BY <1>5 DEF Bar, Book!Next

(* An event goes out; for a row another sweep has closed it tells no one    *)
(* anything.                                                                *)
LEMMA PublishBar ==
  ASSUME IInv, NEW p \in Sweeps, NEW r \in Rows, PublishReminder(p, r)
  PROVE  Bar
<1>1. published' = published \cup {r} /\ UNCHANGED reminder /\ r[1] \in Targets
  BY DEF PublishReminder, Rows
<1>2. OpenBar' = OpenBar
  BY <1>1 DEF OpenBar, Pending
<1>3. CASE reminder[r] = "PENDING"
  <2>1. r[1] \in OpenBar
    BY <1>1, <1>3 DEF OpenBar, Pending
  <2>2. ToldBar' = ToldBar \cup {r[1]}
    BY <1>1, <1>3 DEF ToldBar
  <2>3. Book!Tell(r[1])
    BY <1>2, <2>1, <2>2 DEF Book!Tell, OpenBar, ToldBar
  <2> QED BY <1>1, <2>3 DEF Bar, Book!Next
<1>4. CASE reminder[r] # "PENDING"
  <2>1. ToldBar' = ToldBar
    BY <1>1, <1>4 DEF ToldBar
  <2> QED BY <1>2, <2>1 DEF Bar
<1> QED BY <1>3, <1>4

(* A sweep's commit closes those of its rows that are still open. *)
LEMMA CommitSweepBar ==
  ASSUME IInv, NEW p \in Sweeps, CommitSweep(p)
  PROVE  Bar
<1> DEFINE done == sweep[p].done
           old  == {x \in Targets : \E r \in done : r[1] = x /\ reminder[r] = "PENDING"}
<1>1. /\ \A r \in Rows : reminder'[r] = IF r \in done THEN "DISPATCHED" ELSE reminder[r]
      /\ UNCHANGED published
      /\ done \subseteq published /\ published \subseteq Rows
  BY DEF CommitSweep, Marked, IInv, TypeOK, SweepsCarry
<1>2. \A r, q \in Rows :
        r[1] = q[1] /\ reminder[r] = "PENDING" /\ reminder[q] = "PENDING" => r = q
  BY DEF IInv, OnePendingPerTarget
<1>3. \A r \in Rows : reminder'[r] = "PENDING" <=> r \notin done /\ reminder[r] = "PENDING"
  BY <1>1
<1>4. old \subseteq ToldBar
  BY <1>1 DEF ToldBar
<1>5. OpenBar' = OpenBar \ old
  BY <1>1, <1>2, <1>3 DEF OpenBar, Pending
<1>6. ToldBar' = ToldBar \ old
  BY <1>1, <1>2, <1>3 DEF ToldBar
<1>7. old \in SUBSET Targets
  OBVIOUS
<1>8. \E S \in SUBSET Targets : Book!Close(S)
  <2>1. PICK S \in SUBSET Targets : S = old
    BY <1>7
  <2> QED BY <1>4, <1>5, <1>6, <2>1 DEF Book!Close, OpenBar, ToldBar
<1> QED BY <1>8 DEF Bar, Book!Next

LEMMA StepSimulation == IInv /\ Unheard /\ [Next]_vars => Bar
<1> SUFFICES ASSUME IInv, Unheard, [Next]_vars PROVE Bar
  OBVIOUS
<1>1. ASSUME NEW g \in Generators, Generate(g) PROVE Bar
  <2>1. CASE StartGen(g) \/ SelectStage(g) \/ StageDone(g) \/ DeadlockAbort(g)
    BY <2>1, QuietStep DEF StartGen, SelectStage, StageDone, DeadlockAbort
  <2>2. ASSUME NEW x \in Targets, IssueInsert(g, x) \/ Duplicated(g, x) PROVE Bar
    BY <2>2, QuietStep DEF IssueInsert, Duplicated
  <2> QED BY <1>1, <2>1, <2>2, CommitGenBar, InsertedBar DEF Generate, InsertOf
<1>2. ASSUME NEW p \in Sweeps, Sweep(p) PROVE Bar
  <2>1. CASE StartSweep(p)
    BY <2>1, QuietStep DEF StartSweep
  <2> QED BY <1>2, <2>1, PublishBar, CommitSweepBar DEF Sweep
<1>3. ASSUME NEW x \in Targets, BecomesDue(x) \/ Attended(x) PROVE Bar
  BY <1>3, QuietStep DEF BecomesDue, Attended
<1>4. CASE Crash \/ UNCHANGED vars
  BY <1>4, QuietStep DEF Crash, vars
<1> QED BY <1>1, <1>2, <1>3, <1>4 DEF Next

(* To whoever looks at one lead or task, any number of overlapping runs,     *)
(* rollbacks and crashes look like a book in which a reminder is opened     *)
(* once, told, and only then closed (reminder_engine.py).                   *)
THEOREM BookImplemented == Spec => BookSpec
<1>1. Init => Book!Init /\ Unheard
  BY DEF Init, IdleGen, Book!Init, Unheard, Pending
<1>2. IInv /\ Unheard /\ [Next]_vars => [Book!Next]_<<OpenBar, ToldBar>>
  BY StepSimulation DEF Bar
<1> QED
  BY <1>1, <1>2, NextUnheard, Invariance, PTL DEF Spec, BookSpec, Book!Spec, OpenBar, ToldBar
=============================================================================
