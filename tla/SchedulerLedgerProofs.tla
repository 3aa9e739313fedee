------------------------ MODULE SchedulerLedgerProofs ------------------------
(***************************************************************************)
(* The scheduler implements SlotLedger: each slot of a job is started at   *)
(* most once and only its worker writes its verdict, for any number of     *)
(* instances, whatever they crash on and however stale their lists are.    *)
(***************************************************************************)
EXTENDS SchedulerProofs

(* A tick only deals with slots that were due when it looked.               *)
DueOnly(p) ==
  /\ pc[p] = "idle" => DOMAIN copy[p] = {}
  /\ (p \in Forcers /\ pc[p] = "forcing") => edit[p].row.next <= now
  /\ pc[p] = "forced" => \A j \in DOMAIN copy[p] : copy[p][j].next <= now
  /\ pc[p] = "ticking" => \A j \in todo[p] : copy[p][j].next <= now
  /\ pc[p] = "checked" => slot[p][2] <= now
  /\ pc[p] \in {"checked", "running"} =>
       \A j \in todo[p] \ {slot[p][1]} : copy[p][j].next <= now

KeyBounds == now <= MaxTime /\ \A p \in Workers : DueOnly(p)

(* The refinement mapping. *)
Work == [p \in Workers |-> IF pc[p] = "running" THEN slot[p] ELSE None]

Quiet == UNCHANGED exec /\ Work' = Work

Bar == Ledger!Next \/ Quiet

-----------------------------------------------------------------------------
LEMMA QuietStep ==
  ASSUME IInv, UNCHANGED exec,
         \A q \in Workers :
           \/ pc'[q] = pc[q] /\ slot'[q] = slot[q]
           \/ pc[q] # "running" /\ pc'[q] # "running"
  PROVE  Quiet
BY DEF Quiet, Work

LEMMA CloseSessionStep ==
  ASSUME IInv, NEW p \in Workers, CloseSession(p), UNCHANGED exec
  PROVE  Bar
<1>1. /\ pc'[p] # "running"
      /\ \A q \in Workers \ {p} : pc'[q] = pc[q] /\ slot'[q] = slot[q]
  BY DEF CloseSession, Rest, IInv, TypeOK, Procs
<1>2. CASE pc[p] # "running"
  BY <1>1, <1>2, QuietStep DEF Bar
<1>3. CASE pc[p] = "running"
  <2>1. slot[p] # None
    BY <1>3, NoneAssumption DEF IInv, Sessions, Slots, Time
  <2>2. Work[p] # None /\ Work' = [Work EXCEPT ![p] = None]
    BY <1>1, <1>3, <2>1 DEF Work
  <2>3. Ledger!Lose(p)
    BY <2>2 DEF Ledger!Lose, Work
  <2> QED BY <2>3 DEF Bar, Ledger!Next
<1> QED BY <1>2, <1>3

LEMMA StartStep ==
  ASSUME IInv, KeyBounds, NEW p \in Workers, Start(p)
  PROVE  Bar
<1>1. /\ pc[p] = "checked" /\ slot[p] \notin DOMAIN exec
      /\ exec' = Put(exec, slot[p], "RUNNING")
      /\ pc' = [pc EXCEPT ![p] = "running"]
      /\ UNCHANGED slot
  BY DEF Start, UniqueKey
<1>2. slot[p] \in Jobs \X (0 .. MaxTime)
  <2>1. slot[p] \in Jobs \X Nat /\ slot[p][2] <= now
    BY <1>1 DEF IInv, Sessions, KeyBounds, DueOnly, Slots, Time
  <2>2. now \in Nat /\ now <= MaxTime /\ MaxTime \in Nat
    BY BoundsAssumption DEF IInv, TypeOK, KeyBounds, Time
  <2> QED BY <2>1, <2>2
<1>3. Work[p] = None /\ Work' = [Work EXCEPT ![p] = slot[p]]
  BY <1>1 DEF Work, IInv, TypeOK, Procs
<1>4. \E s \in Jobs \X (0 .. MaxTime) : Ledger!Take(p, s)
  <2>1. /\ Work[p] = None
        /\ slot[p] \notin DOMAIN exec
        /\ exec' = [x \in DOMAIN exec \cup {slot[p]} |->
                      IF x = slot[p] THEN "RUNNING" ELSE exec[x]]
        /\ Work' = [Work EXCEPT ![p] = slot[p]]
    BY <1>1, <1>3 DEF Put
  <2> QED BY <1>2, <2>1 DEF Ledger!Take, Work
<1> QED BY <1>4 DEF Bar, Ledger!Next

LEMMA SettleStep ==
  ASSUME IInv, NEW p \in Workers, pc[p] = "running",
         NEW v \in {"SUCCESS", "RETRYING", "DEAD_LETTER"}, NEW new, Settle(p, v, new)
  PROVE  Bar
<1>1. /\ exec' = [exec EXCEPT ![slot[p]] = v]
      /\ slot' = [slot EXCEPT ![p] = None]
      /\ pc' = [pc EXCEPT ![p] = "ticking"]
  BY DEF Settle, Record
<1>2. slot[p] # None /\ exec[slot[p]] = "RUNNING"
  BY NoneAssumption DEF IInv, Sessions, OwnedSlots, Slots, Time
<1>3. Work[p] = slot[p] /\ Work' = [Work EXCEPT ![p] = None]
  BY <1>1 DEF Work, IInv, TypeOK, Procs
<1>4. Ledger!Conclude(p, v)
  BY <1>1, <1>2, <1>3 DEF Ledger!Conclude, Work
<1> QED BY <1>4 DEF Bar, Ledger!Next, Ledger!Verdicts

LEMMA TickStepStep ==
  ASSUME IInv, KeyBounds, NEW p \in Workers, TickStep(p)
  PROVE  Bar
<1>1. CASE Select(p)
  BY <1>1, QuietStep DEF Select, Bar, IInv, TypeOK, Procs
<1>2. ASSUME NEW j \in Jobs, DupCheck(p, j) PROVE Bar
  <2>1. /\ UNCHANGED exec /\ pc[p] = "ticking"
        /\ \/ UNCHANGED <<pc, slot>>
           \/ /\ pc' = [pc EXCEPT ![p] = "checked"]
              /\ slot' = [slot EXCEPT ![p] = <<j, copy[p][j].next>>]
    BY <1>2 DEF DupCheck
  <2>2. /\ pc'[p] # "running"
        /\ \A q \in Workers \ {p} : pc'[q] = pc[q] /\ slot'[q] = slot[q]
    BY <2>1 DEF IInv, TypeOK, Procs
  <2> QED BY <2>1, <2>2, QuietStep DEF Bar
<1>3. CASE Start(p)
  BY <1>3, StartStep
<1>4. CASE Succeed(p)
  BY <1>4, SettleStep DEF Succeed
<1>5. CASE Fail(p)
  BY <1>5, SettleStep DEF Fail
<1>6. CASE SelectNothing(p) \/ StartConflict(p) \/ RolledBack(p) \/ EndTick(p)
  BY <1>6, CloseSessionStep DEF SelectNothing, StartConflict, RolledBack, EndTick
<1> QED BY <1>1, <1>2, <1>3, <1>4, <1>5, <1>6 DEF TickStep

LEMMA StageStep ==
  ASSUME IInv, NEW p \in Requests, NEW j, NEW row,
         NEW next \in {"patching", "forcing"}, Stage(p, j, row, next)
  PROVE  Bar
BY ProcsAssumption, QuietStep DEF Stage, Bar, IInv, TypeOK, Requests, Workers, Procs

LEMMA PatchStepStep ==
  ASSUME IInv, NEW p \in Patchers, PatchStep(p)
  PROVE  Bar
<1>1. CASE PatchCommit(p)
  BY <1>1, ProcsAssumption, QuietStep
     DEF PatchCommit, CommitEdit, Bar, IInv, TypeOK, Workers, Procs
<1>2. ASSUME NEW j \in Jobs, NEW st \in JobStatus, NEW c \in Periods,
             NEW m \in RetryLimits, NEW v, PatchRead(p, j, v, st, c, m)
      PROVE  Bar
  BY <1>2, StageStep DEF PatchRead, Requests
<1> QED BY <1>1, <1>2 DEF PatchStep

LEMMA ForceStepStep ==
  ASSUME IInv, KeyBounds, NEW p \in Forcers, ForceStep(p)
  PROVE  Bar
<1>1. CASE ForceCommit(p)
  BY <1>1, QuietStep
     DEF ForceCommit, CommitEdit, Bar, IInv, TypeOK, Workers, Procs
<1>2. ASSUME NEW j \in Jobs, ForceRead(p, j) PROVE Bar
  BY <1>2, StageStep DEF ForceRead, Requests
<1>3. CASE TickStep(p)
  BY <1>3, TickStepStep DEF Workers
<1> QED BY <1>1, <1>2, <1>3 DEF ForceStep

LEMMA StepSimulation == IInv /\ KeyBounds /\ [Next]_vars => Bar
<1> SUFFICES ASSUME IInv, KeyBounds, [Next]_vars PROVE Bar
  OBVIOUS
<1>1. CASE Advance
  BY <1>1, QuietStep DEF Advance, Bar
<1>2. ASSUME NEW j \in Jobs, NEW st, NEW c, NEW m, Create(j, st, c, m) PROVE Bar
  BY <1>2, QuietStep DEF Create, Bar
<1>3. ASSUME NEW j \in Jobs, Delete(j) PROVE Bar
  BY <1>3, QuietStep DEF Delete, Bar
<1>4. ASSUME NEW p \in Pollers, TickStep(p) PROVE Bar
  BY <1>4, TickStepStep DEF Workers
<1>5. ASSUME NEW p \in Forcers, ForceStep(p) PROVE Bar
  BY <1>5, ForceStepStep
<1>6. ASSUME NEW p \in Patchers, PatchStep(p) PROVE Bar
  BY <1>6, PatchStepStep
<1>7. ASSUME NEW p \in Workers, Crash(p) PROVE Bar
  BY <1>7, CloseSessionStep DEF Crash
<1>8. CASE UNCHANGED vars
  BY <1>8, QuietStep DEF vars, Bar
<1> QED BY <1>1, <1>2, <1>3, <1>4, <1>5, <1>6, <1>7, <1>8 DEF Next

-----------------------------------------------------------------------------
(* A step of one process leaves the bounds of the others alone. *)
LEMMA BoundsFrame ==
  ASSUME KeyBounds, UNCHANGED now, NEW p,
         p \in Workers => DueOnly(p)',
         \A q \in Workers \ {p} :
           /\ pc'[q] = pc[q] /\ copy'[q] = copy[q]
           /\ todo'[q] = todo[q] /\ slot'[q] = slot[q]
           /\ q \in Forcers => edit'[q] = edit[q]
  PROVE  KeyBounds'
<1>1. ASSUME NEW q \in Workers, q # p PROVE DueOnly(q)'
  BY <1>1 DEF KeyBounds, DueOnly, Workers
<1> QED BY <1>1 DEF KeyBounds

LEMMA CloseSessionBounds ==
  ASSUME IInv, KeyBounds, NEW p \in Workers, CloseSession(p), UNCHANGED <<now, edit>>
  PROVE  KeyBounds'
<1>1. pc'[p] \in {"idle", "done"} /\ DOMAIN copy'[p] = {}
  BY DEF CloseSession, Rest, NoCopy, IInv, TypeOK, Procs
<1>2. DueOnly(p)'
  BY <1>1 DEF DueOnly
<1> QED BY <1>2, BoundsFrame DEF CloseSession, IInv, TypeOK, Procs

LEMMA SelectBounds ==
  ASSUME IInv, KeyBounds, NEW p \in Workers, Select(p)
  PROVE  KeyBounds'
<1>1. /\ pc'[p] = "ticking" /\ todo'[p] = Due /\ UNCHANGED <<now, slot, edit>>
      /\ copy'[p] = [j \in Due \cup DOMAIN copy[p] |->
                       IF j \in DOMAIN copy[p] THEN copy[p][j] ELSE job[j]]
  BY DEF Select, IInv, TypeOK, Procs
<1>2. \A j \in DOMAIN copy[p] : copy[p][j].next <= now
  BY DEF Select, KeyBounds, DueOnly
<1>3. \A j \in Due : copy'[p][j].next <= now
  BY <1>1, <1>2 DEF Due
<1>4. DueOnly(p)'
  BY <1>1, <1>3 DEF DueOnly
<1> QED BY <1>1, <1>4, BoundsFrame DEF Select, IInv, TypeOK, Procs

LEMMA DupCheckBounds ==
  ASSUME IInv, KeyBounds, NEW p \in Workers, NEW j \in Jobs, DupCheck(p, j)
  PROVE  KeyBounds'
<1> DEFINE k == copy[p][j].next
<1>1. /\ pc[p] = "ticking" /\ j \in todo[p] /\ UNCHANGED <<now, copy, edit>>
      /\ \A i \in todo[p] : copy[p][i].next <= now
  BY DEF DupCheck, KeyBounds, DueOnly
<1>2. /\ todo'[p] \subseteq todo[p]
      /\ \/ pc'[p] = "ticking"
         \/ pc'[p] = "checked" /\ slot'[p] = <<j, k>>
      /\ \A q \in Workers \ {p} :
           pc'[q] = pc[q] /\ todo'[q] = todo[q] /\ slot'[q] = slot[q]
  BY DEF DupCheck, IInv, TypeOK, Procs
<1>3. DueOnly(p)'
  BY <1>1, <1>2 DEF DueOnly
<1> QED BY <1>1, <1>2, <1>3, BoundsFrame

LEMMA StartBounds ==
  ASSUME IInv, KeyBounds, NEW p \in Workers, Start(p)
  PROVE  KeyBounds'
<1> DEFINE j == slot[p][1]
<1>1. /\ pc[p] = "checked" /\ pc' = [pc EXCEPT ![p] = "running"]
      /\ \E new : copy' = [copy EXCEPT ![p][j] = new]
      /\ UNCHANGED <<now, todo, slot, edit>>
  BY DEF Start
<1>2. /\ pc'[p] = "running"
      /\ \A i \in DOMAIN copy[p] \ {j} : copy'[p][i] = copy[p][i]
      /\ \A q \in Workers \ {p} : pc'[q] = pc[q] /\ copy'[q] = copy[q]
  BY <1>1 DEF IInv, TypeOK, Procs
<1>3. \A i \in todo[p] \ {j} : i \in DOMAIN copy[p] /\ copy[p][i].next <= now
  BY <1>1 DEF IInv, Sessions, KeyBounds, DueOnly
<1>4. DueOnly(p)'
  BY <1>1, <1>2, <1>3 DEF DueOnly
<1> QED BY <1>1, <1>2, <1>4, BoundsFrame

LEMMA SettleBounds ==
  ASSUME IInv, KeyBounds, NEW p \in Workers, pc[p] = "running",
         NEW v, NEW new, Settle(p, v, new)
  PROVE  KeyBounds'
<1> DEFINE j == slot[p][1]
<1>1. /\ pc' = [pc EXCEPT ![p] = "ticking"]
      /\ copy' = [copy EXCEPT ![p][j] = new]
      /\ todo' = [todo EXCEPT ![p] = @ \ {j}]
      /\ slot' = [slot EXCEPT ![p] = None]
      /\ UNCHANGED <<now, edit>>
  BY DEF Settle
<1>2. /\ pc'[p] = "ticking" /\ todo'[p] = todo[p] \ {j}
      /\ \A i \in DOMAIN copy[p] \ {j} : copy'[p][i] = copy[p][i]
      /\ \A q \in Workers \ {p} : /\ pc'[q] = pc[q] /\ copy'[q] = copy[q]
                                  /\ todo'[q] = todo[q] /\ slot'[q] = slot[q]
  BY <1>1 DEF IInv, TypeOK, Procs
<1>3. \A i \in todo[p] \ {j} : i \in DOMAIN copy[p] /\ copy[p][i].next <= now
  BY DEF IInv, Sessions, KeyBounds, DueOnly
<1>4. DueOnly(p)'
  BY <1>1, <1>2, <1>3 DEF DueOnly
<1> QED BY <1>1, <1>2, <1>4, BoundsFrame

LEMMA TickStepBounds ==
  ASSUME IInv, KeyBounds, NEW p \in Workers, TickStep(p)
  PROVE  KeyBounds'
<1>1. CASE SelectNothing(p) \/ StartConflict(p) \/ RolledBack(p) \/ EndTick(p)
  BY <1>1, CloseSessionBounds DEF SelectNothing, StartConflict, RolledBack, EndTick
<1>2. CASE Succeed(p) \/ Fail(p)
  BY <1>2, SettleBounds DEF Succeed, Fail
<1> QED BY <1>1, <1>2, SelectBounds, DupCheckBounds, StartBounds DEF TickStep

LEMMA ForceStepBounds ==
  ASSUME IInv, KeyBounds, NEW p \in Forcers, ForceStep(p)
  PROVE  KeyBounds'
<1>1. ASSUME NEW j \in Jobs, ForceRead(p, j) PROVE KeyBounds'
  <2>1. /\ pc'[p] = "forcing" /\ edit'[p].row = [job[j] EXCEPT !.next = now - 1]
        /\ job[j] \in Row
        /\ UNCHANGED <<now, todo, slot>>
        /\ \A q \in Workers \ {p} : /\ pc'[q] = pc[q] /\ copy'[q] = copy[q]
                                    /\ q \in Forcers => edit'[q] = edit[q]
    BY <1>1 DEF ForceRead, Stage, IInv, TypeOK, Procs, Workers, Requests
  <2>2. edit'[p].row.next <= now'
    BY <2>1 DEF Row, IInv, TypeOK, Time
  <2>3. DueOnly(p)'
    BY <2>1, <2>2 DEF DueOnly
  <2>4. \A q \in Workers \ {p} :
        /\ pc'[q] = pc[q] /\ copy'[q] = copy[q]
        /\ todo'[q] = todo[q] /\ slot'[q] = slot[q]
        /\ q \in Forcers => edit'[q] = edit[q]
    BY <2>1
  <2>5. UNCHANGED now
    BY <2>1
  <2> QED BY <2>3, <2>4, <2>5, BoundsFrame
<1>2. CASE ForceCommit(p)
  <2>1. /\ pc[p] = "forcing" /\ pc'[p] = "forced" /\ UNCHANGED <<now, todo, slot>>
        /\ copy'[p] = [j \in {edit[p].job} |-> edit[p].row]
        /\ \A q \in Workers \ {p} : /\ pc'[q] = pc[q] /\ copy'[q] = copy[q]
                                    /\ q \in Forcers => edit'[q] = edit[q]
    BY <1>2 DEF ForceCommit, CommitEdit, IInv, TypeOK, Procs, Workers, Requests
  <2>2. edit[p].row.next <= now
    BY <2>1 DEF KeyBounds, DueOnly, Workers
  <2>3. DueOnly(p)'
    BY <2>1, <2>2 DEF DueOnly
  <2>4. \A q \in Workers \ {p} :
        /\ pc'[q] = pc[q] /\ copy'[q] = copy[q]
        /\ todo'[q] = todo[q] /\ slot'[q] = slot[q]
        /\ q \in Forcers => edit'[q] = edit[q]
    BY <2>1
  <2>5. UNCHANGED now
    BY <2>1
  <2> QED BY <2>3, <2>4, <2>5, BoundsFrame
<1>3. CASE TickStep(p)
  BY <1>3, TickStepBounds DEF Workers
<1> QED BY <1>1, <1>2, <1>3 DEF ForceStep

LEMMA PatchStepBounds ==
  ASSUME IInv, KeyBounds, NEW p \in Patchers, PatchStep(p)
  PROVE  KeyBounds'
<1>1. p \notin Workers
  BY ProcsAssumption DEF Workers, Requests
<1>2. UNCHANGED <<now, todo, slot>>
  BY DEF PatchStep, PatchRead, Stage, PatchCommit, CommitEdit
<1>3. \A q \in Workers \ {p} :
        /\ pc'[q] = pc[q] /\ copy'[q] = copy[q]
        /\ todo'[q] = todo[q] /\ slot'[q] = slot[q]
        /\ q \in Forcers => edit'[q] = edit[q]
  BY <1>1, <1>2, ProcsAssumption
     DEF PatchStep, PatchRead, Stage, PatchCommit, CommitEdit, IInv, TypeOK,
         Workers, Requests, Procs
<1> QED BY <1>1, <1>2, <1>3, BoundsFrame

LEMMA AdvanceBounds ==
  ASSUME IInv, KeyBounds, Advance
  PROVE  KeyBounds'
<1>1. now' = now + 1 /\ now \in Nat /\ now' <= MaxTime
  BY BoundsAssumption DEF Advance, IInv, TypeOK, Time
<1>2. \A n \in Nat : n <= now => n <= now'
  BY <1>1
<1>3. ASSUME NEW p \in Workers PROVE DueOnly(p)'
  <2>1. \A j \in DOMAIN copy[p] : copy[p][j].next \in Nat
    BY DEF IInv, TypeOK, Row, Time, Procs
  <2>2. todo[p] \subseteq DOMAIN copy[p]
    BY DEF IInv, Sessions
  <2>3. pc[p] = "checked" => slot[p][2] \in Nat
    BY DEF IInv, Sessions, Slots, Time
  <2>4. (p \in Forcers /\ pc[p] = "forcing") => edit[p].row.next \in Nat
    BY DEF IInv, Sessions, Requests, Row, Time
  <2>5. UNCHANGED <<pc, copy, todo, slot, edit>> /\ DueOnly(p)
    BY DEF Advance, KeyBounds
  <2> QED BY <1>2, <2>1, <2>2, <2>3, <2>4, <2>5 DEF DueOnly
<1> QED BY <1>1, <1>3 DEF KeyBounds

LEMMA InitBounds == Init => KeyBounds
BY BoundsAssumption DEF Init, KeyBounds, DueOnly, NoCopy, Workers, Requests, Procs

LEMMA NextBounds == IInv /\ KeyBounds /\ [Next]_vars => KeyBounds'
<1> SUFFICES ASSUME IInv, KeyBounds, [Next]_vars PROVE KeyBounds'
  OBVIOUS
<1>1. CASE Advance
  BY <1>1, AdvanceBounds
<1>2. ASSUME UNCHANGED <<now, pc, copy, todo, slot, edit>> PROVE KeyBounds'
  BY <1>2 DEF KeyBounds, DueOnly
<1>3. ASSUME NEW j \in Jobs, NEW st, NEW c, NEW m, Create(j, st, c, m) PROVE KeyBounds'
  BY <1>2, <1>3 DEF Create
<1>4. ASSUME NEW j \in Jobs, Delete(j) PROVE KeyBounds'
  BY <1>2, <1>4 DEF Delete
<1>5. ASSUME NEW p \in Pollers, TickStep(p) PROVE KeyBounds'
  BY <1>5, TickStepBounds DEF Workers
<1>6. ASSUME NEW p \in Forcers, ForceStep(p) PROVE KeyBounds'
  BY <1>6, ForceStepBounds
<1>7. ASSUME NEW p \in Patchers, PatchStep(p) PROVE KeyBounds'
  BY <1>7, PatchStepBounds
<1>8. ASSUME NEW p \in Workers, Crash(p) PROVE KeyBounds'
  BY <1>8, CloseSessionBounds DEF Crash
<1>9. CASE UNCHANGED vars
  BY <1>2, <1>9 DEF vars
<1> QED BY <1>1, <1>3, <1>4, <1>5, <1>6, <1>7, <1>8, <1>9 DEF Next

-----------------------------------------------------------------------------
(* A worker takes up only jobs that are due by a clock that never passes    *)
(* its bound, so that every slot taken is one of the ledger's              *)
(* (scheduler_service.py, tick).                                           *)
THEOREM BoundsInvariance == Spec => []KeyBounds
<1>1. Init => KeyBounds
  BY InitBounds
<1>2. IInv /\ KeyBounds /\ [Next]_vars => KeyBounds'
  BY NextBounds
<1> QED BY <1>1, <1>2, Invariance, PTL DEF Spec

(* The scheduler is a ledger of slots: a slot is taken by one worker, once, *)
(* and no one else writes its verdict.                                      *)
THEOREM LedgerImplemented == Spec => LedgerSpec
<1>1. Init => Ledger!Init
  BY DEF Init, Ledger!Init, Workers, Procs
<1>2. IInv /\ KeyBounds /\ [Next]_vars => [Ledger!Next]_<<exec, Work>>
  BY StepSimulation DEF Bar, Quiet
<1> QED
  BY <1>1, <1>2, Invariance, BoundsInvariance, PTL DEF Spec, LedgerSpec, Ledger!Spec, Work
=============================================================================
