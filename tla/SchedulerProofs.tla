--------------------------- MODULE SchedulerProofs ---------------------------
(***************************************************************************)
(* What holds of the scheduler for any number of jobs, instances, forced   *)
(* runs and PATCHes and any schedule.  IInv: types, sessions and who owns  *)
(* which slot.  RInv, relative to it: what sessions have loaded of a job,  *)
(* the retry budget, and how far next_run_at has come.                     *)
(***************************************************************************)
EXTENDS Scheduler, TLAPS

(* What a session has in memory when it is about to use it. *)
Sessions ==
  /\ \A p \in Workers :
       /\ todo[p] \subseteq DOMAIN copy[p]
       /\ pc[p] \notin {"ticking", "checked", "running"} => todo[p] = {}
       /\ pc[p] \in {"checked", "running"} =>
            /\ slot[p] \in Slots
            /\ slot[p][1] \in DOMAIN copy[p]
  /\ \A p \in Requests : pc[p] \in {"patching", "forcing"} =>
       /\ edit[p] \in [job : Jobs, row : Row]
       /\ edit[p].job \in DOMAIN copy[p]

IInv == TypeOK /\ Sessions /\ OwnedSlots

-----------------------------------------------------------------------------
LEMMA NextSlotTyped ==
  ASSUME NEW c \in Periods, NEW t \in Nat
  PROVE  NextSlot(c, t) \in Nat
<1>1. ToMinute(t) \in Nat
  BY MinuteAssumption DEF ToMinute
<1>2. CASE Croniter
  BY <1>1, <1>2, PeriodsAssumption DEF NextSlot
<1>3. CASE ~Croniter
  BY <1>1, <1>3, MinuteAssumption DEF NextSlot
<1> QED BY <1>2, <1>3, MinuteAssumption

LEMMA RetryDelayTyped == ASSUME NEW r PROVE RetryDelay(r) \in Nat
BY BackoffAssumption DEF RetryDelay

LEMMA FlushTyped ==
  ASSUME NEW row \in Row, NEW old \in Row, NEW new \in Row
  PROVE  Flush(row, old, new) \in Row
BY DEF Flush, Column, Row, Time

LEMMA RowUpdates ==
  ASSUME NEW row \in Row, NEW n \in Nat, NEW s \in JobStatus
  PROVE  /\ [row EXCEPT !.deleted = TRUE] \in Row
         /\ [row EXCEPT !.retry = n] \in Row
         /\ [row EXCEPT !.next = n] \in Row
         /\ [row EXCEPT !.status = s] \in Row
         /\ [row EXCEPT !.version = n] \in Row
         /\ [row EXCEPT !.max = n] \in Row
         /\ \A c \in Periods : [row EXCEPT !.cron = c] \in Row
BY DEF Row, Time

LEMMA NoRowTyped == NoRow \in Row
BY PeriodsAssumption DEF NoRow, Row, Time

(* Closing a session keeps everything well typed and gives up its slot. *)
LEMMA CloseSessionKeeps ==
  ASSUME IInv, NEW p \in Workers, CloseSession(p),
         UNCHANGED <<now, job, exec, edit>>, crashes' \in Nat
  PROVE  IInv'
<1> USE ProcsAssumption DEF Workers, Requests, Procs
<1>1. TypeOK'
  BY DEF IInv, TypeOK, CloseSession, Rest, NoCopy, Unlocked, Time
<1>2. pc'[p] \in {"idle", "done"}
  BY DEF IInv, TypeOK, CloseSession, Rest
<1>3. \A q \in Procs \ {p} : pc'[q] = pc[q] /\ copy'[q] = copy[q]
  BY DEF IInv, TypeOK, CloseSession
<1>4. \A q \in Workers \ {p} : todo'[q] = todo[q] /\ slot'[q] = slot[q]
  BY DEF IInv, TypeOK, CloseSession
<1>5. todo'[p] = {}
  BY DEF IInv, TypeOK, CloseSession
<1>6. Sessions'
  BY <1>2, <1>3, <1>4, <1>5 DEF IInv, Sessions
<1>7. OwnedSlots'
  BY <1>2, <1>3, <1>4 DEF IInv, OwnedSlots
<1> QED BY <1>1, <1>6, <1>7 DEF IInv

-----------------------------------------------------------------------------
LEMMA InitEstablishes == Init => IInv
<1> SUFFICES ASSUME Init PROVE IInv
  OBVIOUS
<1> USE ProcsAssumption DEF Workers, Requests, Procs
<1>1. TypeOK
  BY NoRowTyped, BoundsAssumption DEF Init, TypeOK, NoCopy, Time
<1>2. Sessions
  BY DEF Init, Sessions
<1>3. OwnedSlots
  BY DEF Init, OwnedSlots
<1> QED BY <1>1, <1>2, <1>3 DEF IInv

(* The steps that touch only the clock or the jobs table. *)
LEMMA TableStepKeeps ==
  ASSUME IInv, job' \in [Jobs -> Row], now' \in Time \ {0},
         UNCHANGED <<exec, lock, pc, copy, todo, slot, at, edit, crashes>>
  PROVE  IInv'
BY DEF IInv, TypeOK, Sessions, OwnedSlots

LEMMA CreateKeeps ==
  ASSUME IInv, NEW j \in Jobs, NEW st \in JobStatus, NEW c \in Periods,
         NEW m \in RetryLimits, Create(j, st, c, m)
  PROVE  IInv'
<1>1. NextSlot(c, now) \in Nat
  BY NextSlotTyped DEF IInv, TypeOK, Time
<1>2. [status |-> st, next |-> NextSlot(c, now), cron |-> c, max |-> CreateLimit(m),
       retry |-> 0, version |-> 1, deleted |-> FALSE] \in Row
  BY <1>1, LimitsAssumption DEF Row, Time, CreateLimit
<1>3. job' \in [Jobs -> Row]
  BY <1>2 DEF Create, IInv, TypeOK
<1> QED BY <1>3, TableStepKeeps DEF Create, IInv, TypeOK

LEMMA DeleteKeeps ==
  ASSUME IInv, NEW j \in Jobs, Delete(j)
  PROVE  IInv'
<1>1. [job[j] EXCEPT !.deleted = TRUE] \in Row
  BY RowUpdates DEF IInv, TypeOK, JobStatus
<1>2. job' \in [Jobs -> Row]
  BY <1>1 DEF Delete, IInv, TypeOK
<1> QED BY <1>2, TableStepKeeps DEF Delete, IInv, TypeOK

LEMMA SelectKeeps ==
  ASSUME IInv, NEW p \in Workers, Select(p)
  PROVE  IInv'
<1> USE ProcsAssumption DEF Workers, Requests, Procs
<1>1. TypeOK'
  BY DEF IInv, TypeOK, Select, Due, Time
<1>2. pc'[p] = "ticking" /\ todo'[p] = Due /\ Due \subseteq DOMAIN copy'[p]
  BY DEF IInv, TypeOK, Select, Due
<1>3. \A q \in Procs \ {p} : pc'[q] = pc[q] /\ copy'[q] = copy[q]
  BY DEF IInv, TypeOK, Select
<1>4. \A q \in Workers \ {p} : todo'[q] = todo[q]
  BY DEF IInv, TypeOK, Select
<1>5. UNCHANGED <<exec, slot, edit>>
  BY DEF Select
<1>6. Sessions'
  BY <1>2, <1>3, <1>4, <1>5 DEF IInv, Sessions
<1>7. OwnedSlots'
  BY <1>2, <1>3, <1>5 DEF IInv, OwnedSlots
<1> QED BY <1>1, <1>6, <1>7 DEF IInv

LEMMA DupCheckKeeps ==
  ASSUME IInv, NEW p \in Workers, NEW j \in Jobs, DupCheck(p, j)
  PROVE  IInv'
<1> USE ProcsAssumption DEF Workers, Requests, Procs
<1> DEFINE s == <<j, copy[p][j].next>>
<1>1. j \in DOMAIN copy[p] /\ copy[p][j] \in Row
  BY DEF DupCheck, IInv, TypeOK, Sessions
<1>2. s \in Slots
  BY <1>1 DEF Slots, Row
<1>3. UNCHANGED <<now, job, exec, lock, copy, at, edit, crashes>>
  BY DEF DupCheck
<1>4. \/ todo' = [todo EXCEPT ![p] = @ \ {j}] /\ UNCHANGED <<pc, slot>>
      \/ /\ pc' = [pc EXCEPT ![p] = "checked"]
         /\ slot' = [slot EXCEPT ![p] = s]
         /\ UNCHANGED todo
  BY DEF DupCheck
<1>5. TypeOK'
  <2>1. todo' \in [Workers -> SUBSET Jobs]
    BY <1>4 DEF IInv, TypeOK
  <2>2. slot' \in [Workers -> Slots \cup {None}]
    BY <1>2, <1>4 DEF IInv, TypeOK
  <2>3. pc' \in [Procs -> {"new", "idle", "patching", "forcing", "forced",
                          "ticking", "checked", "running", "done"}]
    BY <1>4 DEF IInv, TypeOK
  <2> QED BY <1>3, <2>1, <2>2, <2>3 DEF IInv, TypeOK
<1>6. \A q \in Workers : todo'[q] \subseteq todo[q]
  BY <1>4 DEF IInv, TypeOK
<1>7. /\ \A q \in Procs \ {p} : pc'[q] = pc[q]
      /\ \A q \in Workers \ {p} : slot'[q] = slot[q]
  BY <1>4 DEF IInv, TypeOK
<1>8. /\ pc[p] = "ticking"
      /\ \/ pc'[p] = "ticking"
         \/ pc'[p] = "checked" /\ slot'[p] = s
  BY <1>4 DEF DupCheck, IInv, TypeOK
<1>9. Sessions'
  BY <1>1, <1>2, <1>3, <1>6, <1>7, <1>8 DEF IInv, Sessions
<1>10. OwnedSlots'
  BY <1>3, <1>7, <1>8 DEF IInv, OwnedSlots
<1> QED BY <1>5, <1>9, <1>10 DEF IInv

(* The unique index is what keeps two workers out of one slot. *)
LEMMA StartKeeps ==
  ASSUME IInv, NEW p \in Workers, Start(p)
  PROVE  IInv'
<1> USE ProcsAssumption DEF Workers, Requests, Procs
<1> DEFINE j == slot[p][1]
           old == copy[p][j]
           new == [old EXCEPT !.next = NextSlot(old.cron, old.next)]
<1>1. pc[p] = "checked" /\ slot[p] \in Slots /\ j \in DOMAIN copy[p]
  BY DEF Start, IInv, Sessions
<1>2. j \in Jobs /\ old \in Row
  BY <1>1 DEF IInv, TypeOK, Slots
<1>3. new \in Row
  <2>1. NextSlot(old.cron, old.next) \in Nat
    BY <1>2, NextSlotTyped DEF Row, Time
  <2> QED BY <1>2, <2>1 DEF Row, Time
<1>4. /\ slot[p] \notin DOMAIN exec
      /\ job' = [job EXCEPT ![j] = Flush(@, old, new)]
      /\ copy' = [copy EXCEPT ![p][j] = new]
      /\ exec' = Put(exec, slot[p], "RUNNING")
      /\ lock' = Unlocked(p)
      /\ pc' = [pc EXCEPT ![p] = "running"]
      /\ UNCHANGED <<now, todo, slot, at, edit, crashes>>
  BY DEF Start, UniqueKey
<1>5. job' \in [Jobs -> Row]
  BY <1>2, <1>3, <1>4, FlushTyped DEF IInv, TypeOK
<1>6. /\ DOMAIN copy' = Procs
      /\ \A q \in Procs : DOMAIN copy'[q] = DOMAIN copy[q]
      /\ \A q \in Procs : \A i \in DOMAIN copy'[q] : copy'[q][i] \in Row
  BY <1>1, <1>3, <1>4 DEF IInv, TypeOK
<1>7. /\ DOMAIN exec' = DOMAIN exec \cup {slot[p]}
      /\ exec'[slot[p]] = "RUNNING"
      /\ \A s \in DOMAIN exec : exec'[s] = exec[s]
  BY <1>4 DEF Put
<1>8. TypeOK'
  <2>1. /\ DOMAIN exec' \subseteq Slots
        /\ \A s \in DOMAIN exec' : exec'[s] \in ExecStatus
    BY <1>1, <1>7 DEF IInv, TypeOK, ExecStatus
  <2>2. lock' \in [Jobs -> Workers \cup {None}]
    BY <1>4 DEF IInv, TypeOK, Unlocked
  <2>3. pc' \in [Procs -> {"new", "idle", "patching", "forcing", "forced",
                          "ticking", "checked", "running", "done"}]
    BY <1>4 DEF IInv, TypeOK
  <2> QED BY <1>4, <1>5, <1>6, <2>1, <2>2, <2>3 DEF IInv, TypeOK
<1>9. \A q \in Procs \ {p} : pc'[q] = pc[q]
  BY <1>4 DEF IInv, TypeOK
<1>10. Sessions'
  BY <1>1, <1>4, <1>6, <1>9 DEF IInv, Sessions
<1>11. OwnedSlots'
  BY <1>4, <1>7, <1>9 DEF IInv, OwnedSlots
<1> QED BY <1>8, <1>10, <1>11 DEF IInv

LEMMA SettleKeeps ==
  ASSUME IInv, NEW p \in Workers, pc[p] = "running",
         NEW v \in ExecStatus, NEW new \in Row, Settle(p, v, new)
  PROVE  IInv'
<1> USE ProcsAssumption DEF Workers, Requests, Procs
<1> DEFINE j == slot[p][1]
<1>1. slot[p] \in Slots /\ j \in DOMAIN copy[p] /\ slot[p] \in DOMAIN exec
  BY DEF IInv, Sessions, OwnedSlots
<1>2. j \in Jobs /\ copy[p][j] \in Row
  BY <1>1 DEF IInv, TypeOK
<1>3. /\ job' = [job EXCEPT ![j] = Flush(@, copy[p][j], new)]
      /\ copy' = [copy EXCEPT ![p][j] = new]
      /\ exec' = [exec EXCEPT ![slot[p]] = v]
      /\ todo' = [todo EXCEPT ![p] = @ \ {j}]
      /\ slot' = [slot EXCEPT ![p] = None]
      /\ pc' = [pc EXCEPT ![p] = "ticking"]
      /\ UNCHANGED <<now, lock, at, edit, crashes>>
  BY DEF Settle, Record
<1>4. job' \in [Jobs -> Row]
  BY <1>2, <1>3, FlushTyped DEF IInv, TypeOK
<1>5. /\ DOMAIN copy' = Procs
      /\ \A q \in Procs : DOMAIN copy'[q] = DOMAIN copy[q]
      /\ \A q \in Procs : \A i \in DOMAIN copy'[q] : copy'[q][i] \in Row
  BY <1>1, <1>3 DEF IInv, TypeOK
<1>6. /\ DOMAIN exec' = DOMAIN exec
      /\ exec'[slot[p]] = v
      /\ \A s \in DOMAIN exec : s # slot[p] => exec'[s] = exec[s]
  BY <1>1, <1>3
<1>7. TypeOK'
  BY <1>3, <1>4, <1>5, <1>6 DEF IInv, TypeOK
<1>8. /\ pc'[p] = "ticking"
      /\ \A q \in Procs \ {p} : pc'[q] = pc[q]
      /\ \A q \in Workers \ {p} : slot'[q] = slot[q]
      /\ \A q \in Workers : todo'[q] \subseteq todo[q]
  BY <1>3 DEF IInv, TypeOK
<1>9. Sessions'
  BY <1>3, <1>5, <1>8 DEF IInv, Sessions
<1>10. OwnedSlots'
  BY <1>6, <1>8 DEF IInv, OwnedSlots
<1> QED BY <1>7, <1>9, <1>10 DEF IInv

LEMMA SucceedKeeps ==
  ASSUME IInv, NEW p \in Workers, Succeed(p)
  PROVE  IInv'
<1> DEFINE old == copy[p][slot[p][1]]
<1>1. old \in Row
  BY DEF Succeed, IInv, TypeOK, Sessions, Workers, Procs
<1>2. [old EXCEPT !.retry = 0] \in Row
  BY <1>1 DEF Row
<1> QED BY <1>2, SettleKeeps DEF Succeed, ExecStatus

LEMMA FailKeeps ==
  ASSUME IInv, NEW p \in Workers, Fail(p)
  PROVE  IInv'
<1> DEFINE old == copy[p][slot[p][1]]
           r == old.retry + 1
<1>1. old \in Row
  BY DEF Fail, IInv, TypeOK, Sessions, Workers, Procs
<1> DEFINE counted == [old EXCEPT !.retry = r]
<1>2. counted \in Row
  <2>1. r \in Nat
    BY <1>1 DEF Row
  <2> QED BY <1>1, <2>1, RowUpdates DEF JobStatus
<1>3. [old EXCEPT !.retry = r, !.status = "DISABLED"] \in Row
  <2>1. [counted EXCEPT !.status = "DISABLED"] \in Row
    BY <1>2, RowUpdates DEF JobStatus
  <2> QED BY <2>1
<1>4. [old EXCEPT !.retry = r, !.next = at[p] + RetryDelay(r)] \in Row
  <2>1. at[p] + RetryDelay(r) \in Nat
    BY RetryDelayTyped DEF IInv, TypeOK, Time
  <2>2. [counted EXCEPT !.next = at[p] + RetryDelay(r)] \in Row
    BY <1>2, <2>1, RowUpdates DEF JobStatus
  <2> QED BY <2>2
<1> QED BY <1>3, <1>4, SettleKeeps DEF Fail, ExecStatus

LEMMA TickStepKeeps ==
  ASSUME IInv, NEW p \in Workers, TickStep(p)
  PROVE  IInv'
<1>1. ASSUME SelectNothing(p) \/ StartConflict(p) \/ RolledBack(p) \/ EndTick(p)
      PROVE  IInv'
  BY <1>1, CloseSessionKeeps
     DEF SelectNothing, StartConflict, RolledBack, EndTick, IInv, TypeOK
<1> QED
  BY <1>1, SelectKeeps, DupCheckKeeps, StartKeeps, SucceedKeeps, FailKeeps
     DEF TickStep

LEMMA CrashKeeps ==
  ASSUME IInv, NEW p \in Workers, Crash(p)
  PROVE  IInv'
BY CloseSessionKeeps DEF Crash, IInv, TypeOK

LEMMA StageKeeps ==
  ASSUME IInv, NEW p \in Requests, NEW j \in Jobs, NEW row \in Row,
         NEW next \in {"patching", "forcing"}, Stage(p, j, row, next)
  PROVE  IInv'
<1> USE ProcsAssumption DEF Workers, Requests, Procs
<1>1. TypeOK'
  BY DEF IInv, TypeOK, Stage
<1>2. /\ edit'[p] = [job |-> j, row |-> row]
      /\ copy'[p] = [i \in {j} |-> job[j]]
      /\ pc'[p] = next
      /\ p \in Workers => todo[p] = {}
      /\ \A q \in Procs \ {p} : pc'[q] = pc[q] /\ copy'[q] = copy[q]
      /\ \A q \in Requests \ {p} : edit'[q] = edit[q]
      /\ UNCHANGED <<todo, slot, exec>>
  BY DEF IInv, TypeOK, Sessions, Stage
<1>3. Sessions'
  BY <1>2 DEF IInv, Sessions
<1>4. OwnedSlots'
  BY <1>2 DEF IInv, OwnedSlots
<1> QED BY <1>1, <1>3, <1>4 DEF IInv

LEMMA PatchReadKeeps ==
  ASSUME IInv, NEW p \in Patchers, NEW j \in Jobs, NEW v, NEW st \in JobStatus,
         NEW c \in Periods, NEW m \in RetryLimits, PatchRead(p, j, v, st, c, m)
  PROVE  IInv'
<1> DEFINE old == job[j]
           new == Patched(old, st, c, m)
<1>1. old \in Row /\ now \in Nat
  BY DEF IInv, TypeOK, Time
<1>2. NextSlot(c, now) \in Nat
  BY <1>1, NextSlotTyped
<1> DEFINE next == IF (st # old.status \/ c # old.cron) /\ st = "ACTIVE"
                   THEN NextSlot(c, now) ELSE old.next
<1> DEFINE a1 == [old EXCEPT !.status = st]
           a2 == [a1 EXCEPT !.cron = c]
           a3 == [a2 EXCEPT !.max = m]
           a4 == [a3 EXCEPT !.version = old.version + 1]
           a5 == [a4 EXCEPT !.next = next]
<1>3. a5 \in Row
  <2>1. m \in Nat /\ old.version + 1 \in Nat /\ next \in Nat
    BY <1>1, <1>2, LimitsAssumption DEF Row, Time
  <2>2. a1 \in Row
    BY <1>1, RowUpdates
  <2>3. a2 \in Row
    <3> HIDE DEF a1
    <3> QED BY <2>2, RowUpdates
  <2>4. a3 \in Row
    <3> HIDE DEF a2
    <3> QED BY <2>1, <2>3, RowUpdates
  <2>5. a4 \in Row
    <3> HIDE DEF a3
    <3> QED BY <2>1, <2>4, RowUpdates
  <2> HIDE DEF a4
  <2> QED BY <2>1, <2>5, RowUpdates
<1>4. new \in Row
  <2>1. new = a5
    BY <1>1 DEF Patched, Row
  <2> QED BY <1>3, <2>1
<1> QED BY <1>4, StageKeeps DEF PatchRead, Requests

LEMMA ForceReadKeeps ==
  ASSUME IInv, NEW p \in Forcers, NEW j \in Jobs, ForceRead(p, j)
  PROVE  IInv'
<1>1. now - 1 \in Nat /\ job[j] \in Row
  BY DEF IInv, TypeOK, Time
<1>2. [job[j] EXCEPT !.next = now - 1] \in Row
  BY <1>1, RowUpdates DEF JobStatus
<1> QED BY <1>2, StageKeeps DEF ForceRead, Requests

(* Both commits of a staged row. *)
LEMMA CommitEditKeeps ==
  ASSUME IInv, NEW p \in Requests, pc[p] \in {"patching", "forcing"}, CommitEdit(p),
         NEW after \in {"done", "forced"}, pc' = [pc EXCEPT ![p] = after],
         NEW rows, copy' = [copy EXCEPT ![p] = rows],
         DOMAIN rows \subseteq Jobs, \A i \in DOMAIN rows : rows[i] \in Row
  PROVE  IInv'
<1> USE ProcsAssumption DEF Workers, Requests, Procs
<1>1. /\ edit[p] \in [job : Jobs, row : Row]
      /\ edit[p].job \in DOMAIN copy[p]
  BY DEF IInv, Sessions
<1>2. edit[p].job \in Jobs /\ edit[p].row \in Row /\ copy[p][edit[p].job] \in Row
  BY <1>1 DEF IInv, TypeOK
<1>3. job' \in [Jobs -> Row]
  BY <1>2, FlushTyped DEF CommitEdit, IInv, TypeOK
<1>4. TypeOK'
  BY <1>3 DEF IInv, TypeOK, CommitEdit
<1>5. /\ pc'[p] = after
      /\ p \in Workers => todo[p] = {}
      /\ \A q \in Procs \ {p} : pc'[q] = pc[q] /\ copy'[q] = copy[q]
      /\ \A q \in Requests \ {p} : edit'[q] = edit[q]
      /\ UNCHANGED <<todo, slot, exec>>
  BY DEF IInv, TypeOK, Sessions, CommitEdit
<1>6. Sessions'
  BY <1>5 DEF IInv, Sessions
<1>7. OwnedSlots'
  BY <1>5 DEF IInv, OwnedSlots
<1> QED BY <1>4, <1>6, <1>7 DEF IInv

LEMMA PatchCommitKeeps ==
  ASSUME IInv, NEW p \in Patchers, PatchCommit(p)
  PROVE  IInv'
<1>1. /\ p \in Requests /\ pc[p] = "patching" /\ CommitEdit(p)
      /\ pc' = [pc EXCEPT ![p] = "done"]
      /\ copy' = [copy EXCEPT ![p] = NoCopy]
  BY DEF PatchCommit, Requests
<1>2. DOMAIN NoCopy \subseteq Jobs /\ \A i \in DOMAIN NoCopy : NoCopy[i] \in Row
  BY DEF NoCopy
<1> QED BY <1>1, <1>2, CommitEditKeeps

LEMMA ForceCommitKeeps ==
  ASSUME IInv, NEW p \in Forcers, ForceCommit(p)
  PROVE  IInv'
<1> DEFINE rows == [j \in {edit[p].job} |-> edit[p].row]
<1>1. /\ p \in Requests /\ pc[p] = "forcing" /\ CommitEdit(p)
      /\ pc' = [pc EXCEPT ![p] = "forced"]
      /\ copy' = [copy EXCEPT ![p] = rows]
  BY DEF ForceCommit, Requests
<1>2. DOMAIN rows \subseteq Jobs /\ \A i \in DOMAIN rows : rows[i] \in Row
  BY <1>1 DEF IInv, Sessions
<1> QED BY <1>1, <1>2, CommitEditKeeps

-----------------------------------------------------------------------------
LEMMA NextKeeps == IInv /\ [Next]_vars => IInv'
<1> SUFFICES ASSUME IInv, [Next]_vars PROVE IInv'
  OBVIOUS
<1>1. CASE Advance
  BY <1>1, TableStepKeeps DEF Advance, IInv, TypeOK, Time
<1>2. ASSUME NEW j \in Jobs, NEW st \in JobStatus, NEW c \in Periods,
             NEW m \in RetryLimits, Create(j, st, c, m)
      PROVE  IInv'
  BY <1>2, CreateKeeps
<1>3. ASSUME NEW j \in Jobs, Delete(j) PROVE IInv'
  BY <1>3, DeleteKeeps
<1>4. ASSUME NEW p \in Pollers, TickStep(p) PROVE IInv'
  BY <1>4, TickStepKeeps DEF Workers
<1>5. ASSUME NEW p \in Forcers, ForceStep(p) PROVE IInv'
  BY <1>5, TickStepKeeps, ForceReadKeeps, ForceCommitKeeps DEF ForceStep, Workers
<1>6. ASSUME NEW p \in Patchers, PatchStep(p) PROVE IInv'
  BY <1>6, PatchReadKeeps, PatchCommitKeeps DEF PatchStep
<1>7. ASSUME NEW p \in Workers, Crash(p) PROVE IInv'
  BY <1>7, CrashKeeps
<1>8. CASE UNCHANGED vars
  BY <1>8 DEF vars, IInv, TypeOK, Sessions, OwnedSlots
<1> QED BY <1>1, <1>2, <1>3, <1>4, <1>5, <1>6, <1>7, <1>8 DEF Next

(* IInv is inductive: types, what each session has loaded and still has to  *)
(* run, and whose slots are whose, whatever the others do                  *)
(* (scheduler_service.py, tick).                                           *)
THEOREM Invariance == Spec => []IInv
<1>1. Init => IInv
  BY InitEstablishes
<1>2. IInv /\ [Next]_vars => IInv'
  BY NextKeeps
<1> QED BY <1>1, <1>2, PTL DEF Spec

(* Every variable keeps its type in every reachable state.                  *)
THEOREM TypeCorrect == Spec => []TypeOK
<1>1. IInv => TypeOK
  BY DEF IInv
<1> QED BY <1>1, Invariance, PTL

(* However many instances and forced runs overlap, two workers never hold   *)
(* one slot and the row of a running slot is its worker's RUNNING row.      *)
THEOREM SlotsAreOwned == Spec => []OwnedSlots
<1>1. IInv => OwnedSlots
  BY DEF IInv
<1> QED BY <1>1, Invariance, PTL

-----------------------------------------------------------------------------
(* What sessions hold of a job, relative to the tables: rows that exist,    *)
(* edits built from the session's own copy, and the slot of that copy.      *)
Tables ==
  /\ \A s \in DOMAIN exec : Exists(s[1])
  /\ \A j \in Jobs : Exists(j) <=> job[j].version > 0

Held(p) ==
  /\ \A j \in DOMAIN copy[p] :
       Exists(j) /\ copy[p][j].version > 0 /\ copy[p][j].status # "NONE"
  /\ p \in Forcers /\ pc[p] = "forcing" =>
       edit[p].row = [copy[p][edit[p].job] EXCEPT !.next = edit[p].row.next]
  /\ p \in Patchers /\ pc[p] = "patching" =>
       /\ edit[p].row.version = copy[p][edit[p].job].version + 1
       /\ edit[p].row.status # "NONE"
       /\ edit[p].row.deleted = copy[p][edit[p].job].deleted
  /\ p \in Workers /\ pc[p] = "checked" =>
       slot[p][2] = copy[p][slot[p][1]].next

Loads == Tables /\ \A p \in Procs : Held(p)

DeadLettered(j) == \E s \in DOMAIN exec : s[1] = j /\ exec[s] = "DEAD_LETTER"

(* Nothing but a PATCH changes max_retries and cron_expression, so until    *)
(* there is one every copy of them is right, and the retry counter is kept  *)
(* below the limit or the job is DISABLED.                                  *)
Original(j) ==
  job[j].version = 1 =>
    /\ job[j].max > 0
    /\ job[j].status = "ACTIVE" => job[j].retry < job[j].max
    /\ \A p \in Procs : j \in DOMAIN copy[p] =>
         /\ copy[p][j].max = job[j].max
         /\ copy[p][j].cron = job[j].cron
         /\ copy[p][j].status = "DISABLED" => job[j].status = "DISABLED"
    /\ DeadLettered(j) => job[j].status = "DISABLED"

(* A session whose copy of a steady job is stale  has a slot that is   *)
(* already taken: only a fresh copy can start one.                          *)
Passed(j) ==
  Steady(j) =>
    /\ \A s \in DOMAIN exec : s[1] = j => s[2] < job[j].next
    /\ \A p \in Workers : j \in DOMAIN copy[p] =>
         copy[p][j].next = job[j].next \/ <<j, copy[p][j].next>> \in DOMAIN exec

(* Slots of a steady schedule, as far as one is told from another: without   *)
(* croniter they need only be whole minutes.                                 *)
OnGrid(c, t) == IF Croniter THEN t % c = 0 ELSE t % Minute = 0

(* next_run_at is a whole number of steps after every slot with a row, and   *)
(* no step in between lacks one.                                             *)
CaughtUp(j) ==
  Steady(j) =>
    /\ OnGrid(job[j].cron, job[j].next)
    /\ \A s \in DOMAIN exec : s[1] = j =>
         /\ \E k \in Nat : job[j].next = s[2] + k * Step(job[j].cron)
         /\ \A t \in s[2] .. job[j].next - 1 :
              (t - s[2]) % Step(job[j].cron) = 0 => <<j, t>> \in DOMAIN exec

About(j) == Original(j) /\ Passed(j) /\ CaughtUp(j)

RInv == Loads /\ \A j \in Jobs : About(j)

-----------------------------------------------------------------------------
LEMMA StepTyped == \A c \in Periods : Step(c) \in Nat /\ Step(c) > 0
BY PeriodsAssumption, MinuteAssumption DEF Step

(* A steady schedule reaches its grid at once and then moves along it.       *)
LEMMA NextOnGrid ==
  ASSUME NEW c \in Periods, NEW t \in Nat, MovesOn(c)
  PROVE  /\ OnGrid(c, NextSlot(c, t))
         /\ OnGrid(c, t) => NextSlot(c, t) = t + Step(c)
<1>1. /\ c \in Nat /\ c > 0 /\ Minute \in Nat /\ Minute > 0
      /\ FallbackMinutes \in Nat
  BY PeriodsAssumption, MinuteAssumption
<1>2. PICK q \in Nat : ToMinute(t) = q * Minute /\ q * Minute <= t /\ t < q * Minute + Minute
  <2> DEFINE q == t \div Minute
  <2>1. q \in Nat
    BY <1>1
  <2>2. t = Minute * q + (t % Minute) /\ t % Minute \in 0 .. Minute - 1
    BY <1>1
  <2>3. ToMinute(t) = q * Minute
    BY DEF ToMinute
  <2> HIDE DEF q
  <2>4. q * Minute = Minute * q /\ q * Minute \in Nat
    BY <1>1, <2>1
  <2> QED BY <1>1, <2>1, <2>2, <2>3, <2>4
<1>3. ToMinute(t) \in Nat
  BY <1>1, <1>2
<1>4. t % Minute = 0 => ToMinute(t) = t
  BY <1>1 DEF ToMinute
<1>5. CASE Croniter
  <2>1. PICK m \in Nat : c = m * Minute
    BY <1>1, <1>5 DEF MovesOn
  <2>2. PICK n \in Nat : NextSlot(c, t) = (n + 1) * c /\ n = ToMinute(t) \div c
    BY <1>1, <1>3, <1>5 DEF NextSlot
  <2>3. ((n + 1) * c) % c = 0
    BY <1>1
  <2>4. ASSUME t % c = 0 PROVE NextSlot(c, t) = t + c
    <3>1. PICK k \in Nat : t = k * c
      <4> DEFINE k == t \div c
      <4>1. t = c * k + (t % c) /\ k \in Nat
        BY <1>1
      <4> HIDE DEF k
      <4>2. t = k * c
        BY <1>1, <2>4, <4>1
      <4> QED BY <4>1, <4>2
    <3>2. t = (k * m) * Minute
      BY <1>1, <2>1, <3>1
    <3>3. t % Minute = 0
      BY <1>1, <3>2
    <3>4. n = k
      BY <1>1, <1>4, <2>2, <3>1, <3>3
    <3> QED BY <1>1, <2>2, <3>1, <3>4
  <2> QED BY <1>5, <2>2, <2>3, <2>4 DEF OnGrid, Step
<1>6. CASE ~Croniter
  <2>1. NextSlot(c, t) = (q + FallbackMinutes) * Minute
    BY <1>1, <1>2, <1>6 DEF NextSlot
  <2>2. ((q + FallbackMinutes) * Minute) % Minute = 0
    BY <1>1
  <2>3. t % Minute = 0 => NextSlot(c, t) = t + FallbackMinutes * Minute
    BY <1>4, <1>6 DEF NextSlot
  <2> QED BY <1>6, <2>1, <2>2, <2>3 DEF OnGrid, Step
<1> QED BY <1>5, <1>6

(* Steps counted from one slot: before the next one there is nothing new.    *)
LEMMA NoSlotSkipped ==
  ASSUME NEW d \in Nat \ {0}, NEW s \in Nat, NEW n \in Nat, NEW t \in Nat,
         \E k \in Nat : n = s + k * d,
         s <= t, t < n + d, (t - s) % d = 0
  PROVE  t <= n
<1>1. PICK k \in Nat : n = s + k * d
  OBVIOUS
<1>2. PICK m \in Nat : t - s = m * d
  OBVIOUS
<1>3. CASE m <= k
  <2>1. k * d = m * d + (k - m) * d /\ (k - m) * d >= 0
    BY <1>3
  <2> QED BY <1>1, <1>2, <2>1
<1>4. CASE m >= k + 1
  <2>1. m * d = k * d + d + (m - (k + 1)) * d /\ (m - (k + 1)) * d >= 0
    BY <1>4
  <2> QED BY <1>1, <1>2, <2>1
<1> QED BY <1>3, <1>4

(* The rows of a job's executions are as they were. *)
RowsKept(j) ==
  \A s \in Slots : s[1] = j =>
    /\ s \in DOMAIN exec' <=> s \in DOMAIN exec
    /\ s \in DOMAIN exec => exec'[s] = exec[s]

(* Copies of j come from the table or were there before. *)
CopiesKept(j) ==
  \A q \in Procs : j \in DOMAIN copy'[q] =>
    \/ j \in DOMAIN copy[q] /\ copy'[q][j] = copy[q][j]
    \/ copy'[q][j] = job[j]

ForcedStay ==
  \A f \in Forcers : pc'[f] \in {"new", "forcing"} => pc[f] \in {"new", "forcing"}

LEMMA SameRow ==
  ASSUME IInv, IInv', NEW j \in Jobs, About(j), job'[j] = job[j],
         RowsKept(j), CopiesKept(j), ForcedStay
  PROVE  About(j)'
<1>1. /\ \A s \in DOMAIN exec : s \in Slots
      /\ \A s \in DOMAIN exec' : s \in Slots
  BY DEF IInv, TypeOK
<1>2. \A s \in DOMAIN exec' : s[1] = j => s \in DOMAIN exec /\ exec'[s] = exec[s]
  BY <1>1 DEF RowsKept
<1>3. \A s \in DOMAIN exec : s[1] = j => s \in DOMAIN exec' /\ exec'[s] = exec[s]
  BY <1>1 DEF RowsKept
<1>4. \A n \in Nat : <<j, n>> \in DOMAIN exec => <<j, n>> \in DOMAIN exec'
  BY <1>3, <1>1
<1>5. Steady(j)' => Steady(j)
  BY <1>3 DEF Steady, MovesOn, Undisturbed, Retried, ForcedStay
<1>6. DeadLettered(j)' => DeadLettered(j)
  BY <1>2 DEF DeadLettered
<1>7. Original(j)'
  BY <1>6 DEF About, Original, CopiesKept
<1>8. Passed(j)'
  <2> SUFFICES ASSUME Steady(j)'
               PROVE  /\ \A s \in DOMAIN exec' : s[1] = j => s[2] < job'[j].next
                      /\ \A p \in Workers : j \in DOMAIN copy'[p] =>
                           \/ copy'[p][j].next = job'[j].next
                           \/ <<j, copy'[p][j].next>> \in DOMAIN exec'
    BY DEF Passed
  <2>1. /\ \A s \in DOMAIN exec : s[1] = j => s[2] < job[j].next
        /\ \A p \in Workers : j \in DOMAIN copy[p] =>
             copy[p][j].next = job[j].next \/ <<j, copy[p][j].next>> \in DOMAIN exec
    BY <1>5 DEF About, Passed
  <2>2. \A p \in Workers : j \in DOMAIN copy[p] => copy[p][j].next \in Nat
    BY DEF IInv, TypeOK, Row, Time, Procs
  <2> QED BY <1>2, <1>4, <2>1, <2>2 DEF CopiesKept, Procs
<1>9. CaughtUp(j)'
  <2> SUFFICES ASSUME Steady(j)'
               PROVE  /\ OnGrid(job'[j].cron, job'[j].next)
                      /\ \A s \in DOMAIN exec' : s[1] = j =>
                           /\ \E k \in Nat : job'[j].next = s[2] + k * Step(job'[j].cron)
                           /\ \A t \in s[2] .. job'[j].next - 1 :
                                (t - s[2]) % Step(job'[j].cron) = 0 => <<j, t>> \in DOMAIN exec'
    BY DEF CaughtUp, Step, OnGrid
  <2>1. /\ OnGrid(job[j].cron, job[j].next)
        /\ \A s \in DOMAIN exec : s[1] = j =>
             /\ \E k \in Nat : job[j].next = s[2] + k * Step(job[j].cron)
             /\ \A t \in s[2] .. job[j].next - 1 :
                  (t - s[2]) % Step(job[j].cron) = 0 => <<j, t>> \in DOMAIN exec
    BY <1>5 DEF About, CaughtUp
  <2>2. \A s \in DOMAIN exec' : \A t \in s[2] .. job[j].next - 1 : t \in Nat
    BY <1>1 DEF Slots, Time, IInv, TypeOK, Row
  <2> QED BY <1>2, <1>4, <2>1, <2>2
<1> QED BY <1>7, <1>8, <1>9 DEF About

(* Sessions that took no part in a step still hold what they held. *)
LEMMA HeldFrame ==
  ASSUME IInv, Loads, \A j \in Jobs : Exists(j) => Exists(j)',
         NEW p, p \in Procs => Held(p)',
         \A q \in Procs \ {p} :
           /\ pc'[q] = pc[q] /\ copy'[q] = copy[q]
           /\ q \in Workers => slot'[q] = slot[q]
           /\ q \in Requests => edit'[q] = edit[q]
  PROVE  \A q \in Procs : Held(q)'
<1> SUFFICES ASSUME NEW q \in Procs, q # p PROVE Held(q)'
  OBVIOUS
<1>1. Held(q) /\ DOMAIN copy[q] \subseteq Jobs
  BY DEF Loads, IInv, TypeOK
<1>2. \A j \in DOMAIN copy[q] : Exists(j)'
  BY <1>1 DEF Held
<1> QED BY <1>1, <1>2 DEF Held, Requests, Workers

(* A step of a session that changes neither table. *)
LEMMA QuietRows ==
  ASSUME IInv, IInv', RInv, UNCHANGED <<job, exec>>,
         \A j \in Jobs : CopiesKept(j), ForcedStay,
         \A p \in Procs : Held(p)'
  PROVE  RInv'
<1>1. Tables'
  BY DEF RInv, Loads, Tables, Exists
<1>2. ASSUME NEW j \in Jobs PROVE About(j)'
  BY SameRow DEF RInv, RowsKept
<1> QED BY <1>1, <1>2 DEF RInv, Loads

LEMMA CloseSessionRows ==
  ASSUME IInv, IInv', RInv, NEW p \in Workers, CloseSession(p),
         UNCHANGED <<job, exec, edit>>
  PROVE  RInv'
<1> USE ProcsAssumption DEF Workers, Requests, Procs
<1>1. pc'[p] \in {"idle", "done"} /\ DOMAIN copy'[p] = {}
  BY DEF CloseSession, Rest, NoCopy, IInv, TypeOK
<1>2. \A q \in Procs \ {p} :
        /\ pc'[q] = pc[q] /\ copy'[q] = copy[q]
        /\ q \in Workers => slot'[q] = slot[q]
  BY DEF CloseSession, IInv, TypeOK
<1>3. Held(p)'
  BY <1>1 DEF Held
<1>4. \A q \in Procs : Held(q)'
  BY <1>2, <1>3, HeldFrame DEF RInv, Exists
<1>5. \A j \in Jobs : CopiesKept(j)
  BY <1>1, <1>2 DEF CopiesKept
<1>6. ForcedStay
  BY <1>1, <1>2 DEF ForcedStay
<1> QED BY <1>4, <1>5, <1>6, QuietRows

LEMMA SelectRows ==
  ASSUME IInv, IInv', RInv, NEW p \in Workers, Select(p)
  PROVE  RInv'
<1> USE ProcsAssumption DEF Workers, Requests, Procs
<1>1. /\ pc[p] \notin {"new", "forcing"} /\ pc'[p] = "ticking"
      /\ copy'[p] = [j \in Due \cup DOMAIN copy[p] |->
                       IF j \in DOMAIN copy[p] THEN copy[p][j] ELSE job[j]]
      /\ \A q \in Procs \ {p} : pc'[q] = pc[q] /\ copy'[q] = copy[q]
      /\ UNCHANGED <<job, exec, slot, edit>>
  BY DEF Select, IInv, TypeOK
<1>2. \A j \in Due : Exists(j) /\ job[j].version > 0
  BY DEF Due, Exists, RInv, Loads, Tables
<1>3. Held(p)'
  <2>1. \A j \in DOMAIN copy[p] : Exists(j) /\ copy[p][j].version > 0 /\ copy[p][j].status # "NONE"
    BY DEF RInv, Loads, Held
  <2>2. \A j \in DOMAIN copy'[p] :
          Exists(j)' /\ copy'[p][j].version > 0 /\ copy'[p][j].status # "NONE"
    BY <1>1, <1>2, <2>1 DEF Exists
  <2> QED BY <1>1, <2>2 DEF Held
<1>4. \A q \in Procs : Held(q)'
  BY <1>1, <1>3, HeldFrame DEF RInv, Exists
<1>5. \A j \in Jobs : CopiesKept(j)
  BY <1>1 DEF CopiesKept
<1>6. ForcedStay
  BY <1>1 DEF ForcedStay
<1> QED BY <1>1, <1>4, <1>5, <1>6, QuietRows

LEMMA DupCheckRows ==
  ASSUME IInv, IInv', RInv, NEW p \in Workers, NEW j \in Jobs, DupCheck(p, j)
  PROVE  RInv'
<1> USE ProcsAssumption DEF Workers, Requests, Procs
<1>1. /\ pc[p] = "ticking" /\ UNCHANGED <<job, exec, copy, edit>>
      /\ \/ pc'[p] = "ticking"
         \/ pc'[p] = "checked" /\ slot'[p] = <<j, copy[p][j].next>>
      /\ \A q \in Procs \ {p} : /\ pc'[q] = pc[q]
                                /\ q \in Workers => slot'[q] = slot[q]
  BY DEF DupCheck, IInv, TypeOK
<1>2. Held(p)'
  BY <1>1 DEF Held, RInv, Loads, Exists
<1>3. \A q \in Procs : Held(q)'
  BY <1>1, <1>2, HeldFrame DEF RInv, Exists
<1>4. \A i \in Jobs : CopiesKept(i)
  BY <1>1 DEF CopiesKept
<1>5. ForcedStay
  BY <1>1 DEF ForcedStay
<1> QED BY <1>1, <1>3, <1>4, <1>5, QuietRows

LEMMA StageRows ==
  ASSUME IInv, IInv', RInv, NEW p \in Requests, NEW j \in Jobs, NEW row,
         NEW next \in {"patching", "forcing"}, Stage(p, j, row, next),
         p \in Forcers => next = "forcing" /\ row = [job[j] EXCEPT !.next = row.next],
         p \in Patchers => /\ next = "patching"
                           /\ row.version = job[j].version + 1 /\ row.status # "NONE"
                           /\ row.deleted = job[j].deleted
  PROVE  RInv'
<1> USE ProcsAssumption DEF Workers, Requests, Procs
<1>1. /\ pc[p] = "new" /\ pc'[p] = next /\ Exists(j)
      /\ copy'[p] = [i \in {j} |-> job[j]]
      /\ edit'[p] = [job |-> j, row |-> row]
      /\ \A q \in Procs \ {p} : /\ pc'[q] = pc[q] /\ copy'[q] = copy[q]
                                /\ q \in Requests => edit'[q] = edit[q]
      /\ UNCHANGED <<job, exec, slot>>
  BY DEF Stage, Visible, IInv, TypeOK
<1>2. job[j].version > 0 /\ job[j].status # "NONE"
  BY <1>1 DEF RInv, Loads, Tables, Exists
<1>3. Held(p)'
  BY <1>1, <1>2 DEF Held, Exists
<1>4. \A q \in Procs : Held(q)'
  BY <1>1, <1>3, HeldFrame DEF RInv, Exists
<1>5. \A i \in Jobs : CopiesKept(i)
  BY <1>1 DEF CopiesKept
<1>6. ForcedStay
  BY <1>1 DEF ForcedStay
<1> QED BY <1>1, <1>4, <1>5, <1>6, QuietRows

-----------------------------------------------------------------------------
(* A commit to the row of job j leaves the other jobs alone. *)
LEMMA OneRowChanges ==
  ASSUME IInv, IInv', RInv, NEW j \in Jobs, About(j)',
         \A i \in Jobs \ {j} : job'[i] = job[i] /\ RowsKept(i) /\ CopiesKept(i),
         ForcedStay,
         \A s \in DOMAIN exec' : s \in DOMAIN exec \/ s[1] = j,
         Exists(j)', job'[j].version > 0, \A p \in Procs : Held(p)'
  PROVE  RInv'
<1>1. ASSUME NEW i \in Jobs, i # j PROVE About(i)'
  BY <1>1, SameRow DEF RInv
<1>2. Tables'
  <2>1. \A s \in DOMAIN exec' : Exists(s[1])'
    <3> SUFFICES ASSUME NEW s \in DOMAIN exec' PROVE Exists(s[1])'
      OBVIOUS
    <3>1. s[1] \in Jobs
      BY DEF IInv, TypeOK, Slots
    <3> QED BY <3>1 DEF RInv, Loads, Tables, Exists
  <2>2. \A i \in Jobs : Exists(i)' <=> job'[i].version > 0
    BY DEF RInv, Loads, Tables, Exists
  <2> QED BY <2>1, <2>2 DEF Tables
<1> QED BY <1>1, <1>2 DEF RInv, Loads

LEMMA CreateRows ==
  ASSUME IInv, IInv', RInv, NEW j \in Jobs, NEW st \in JobStatus, NEW c \in Periods,
         NEW m \in RetryLimits, Create(j, st, c, m)
  PROVE  RInv'
<1>1. /\ ~Exists(j) /\ UNCHANGED <<exec, pc, copy, slot, edit>>
      /\ job'[j].status = st /\ job'[j].max = CreateLimit(m)
      /\ job'[j].retry = 0 /\ job'[j].version = 1
      /\ \A i \in Jobs \ {j} : job'[i] = job[i]
  BY DEF Create, IInv, TypeOK
<1>2. \A s \in DOMAIN exec : s[1] # j
  BY <1>1 DEF RInv, Loads, Tables
<1>3. \A q \in Procs : j \notin DOMAIN copy[q]
  BY <1>1 DEF RInv, Loads, Held
<1>4. CreateLimit(m) > 0
  BY LimitsAssumption DEF CreateLimit
<1>5. About(j)'
  <2>1. Original(j)' /\ Passed(j)'
    BY <1>1, <1>2, <1>3, <1>4
       DEF Original, Passed, DeadLettered, Workers, Procs
  <2>2. job'[j].cron = c /\ job'[j].next = NextSlot(c, now) /\ now \in Nat
    BY DEF Create, IInv, TypeOK, Time
  <2>3. Steady(j)' => MovesOn(c)
    BY <2>2 DEF Steady, MovesOn
  <2>4. Steady(j)' => OnGrid(job'[j].cron, job'[j].next)
    BY <2>2, <2>3, NextOnGrid
  <2>5. CaughtUp(j)'
    BY <1>1, <1>2, <2>4 DEF CaughtUp, OnGrid
  <2> QED BY <2>1, <2>5 DEF About
<1>6. \A i \in Jobs : Exists(i) => Exists(i)'
  BY <1>1 DEF Exists
<1>7. \A q \in Procs : Held(q)'
  <2>1. ASSUME NEW q \in Procs PROVE Held(q)'
    <3>1. Held(q) /\ DOMAIN copy[q] \subseteq Jobs
      BY DEF RInv, Loads, IInv, TypeOK
    <3> QED BY <1>1, <1>6, <3>1 DEF Held
  <2> QED BY <2>1
<1>8. ForcedStay /\ \A i \in Jobs : RowsKept(i) /\ CopiesKept(i)
  BY <1>1 DEF ForcedStay, RowsKept, CopiesKept
<1>9. Exists(j)'
  BY <1>1 DEF Exists, JobStatus
<1> QED BY <1>1, <1>5, <1>7, <1>8, <1>9, OneRowChanges

LEMMA DeleteRows ==
  ASSUME IInv, IInv', RInv, NEW j \in Jobs, Delete(j)
  PROVE  RInv'
<1>1. /\ Exists(j) /\ UNCHANGED <<exec, pc, copy, slot, edit>>
      /\ job'[j] = [job[j] EXCEPT !.deleted = TRUE]
      /\ \A i \in Jobs \ {j} : job'[i] = job[i]
  BY DEF Delete, Visible, IInv, TypeOK
<1>2. /\ job'[j].status = job[j].status /\ job'[j].max = job[j].max
      /\ job'[j].retry = job[j].retry /\ job'[j].version = job[j].version
      /\ job'[j].next = job[j].next /\ job'[j].cron = job[j].cron
  BY <1>1 DEF IInv, TypeOK, Row
<1>3. About(j)
  BY DEF RInv
<1>4. Steady(j)' <=> Steady(j)
  BY <1>1, <1>2 DEF Steady, MovesOn, Undisturbed, Retried
<1>5. Original(j)'
  BY <1>1, <1>2, <1>3 DEF About, Original, DeadLettered
<1>6. Passed(j)' /\ CaughtUp(j)'
  BY <1>1, <1>2, <1>3, <1>4 DEF About, Passed, CaughtUp, OnGrid, Step
<1>7. \A i \in Jobs : Exists(i) => Exists(i)'
  BY <1>1, <1>2 DEF Exists
<1>8. \A q \in Procs : Held(q)'
  <2>1. ASSUME NEW q \in Procs PROVE Held(q)'
    <3>1. Held(q) /\ DOMAIN copy[q] \subseteq Jobs
      BY DEF RInv, Loads, IInv, TypeOK
    <3> QED BY <1>1, <1>7, <3>1 DEF Held
  <2> QED BY <2>1
<1>9. ForcedStay /\ \A i \in Jobs : RowsKept(i) /\ CopiesKept(i)
  BY <1>1 DEF ForcedStay, RowsKept, CopiesKept
<1>10. Exists(j)' /\ job'[j].version > 0
  BY <1>1, <1>2, <1>7 DEF RInv, Loads, Tables
<1> QED BY <1>1, <1>5, <1>6, <1>8, <1>9, <1>10, OneRowChanges DEF About

LEMMA StartRows ==
  ASSUME IInv, IInv', RInv, NEW p \in Workers, Start(p)
  PROVE  RInv'
<1> USE ProcsAssumption DEF Workers, Requests, Procs
<1>0. PICK j \in Jobs : j = slot[p][1]
  BY DEF Start, IInv, Sessions, Slots
<1> DEFINE old == copy[p][j]
           n == NextSlot(old.cron, old.next)
           new == [old EXCEPT !.next = n]
<1>1. /\ pc[p] = "checked" /\ slot[p] \in Slots /\ j \in DOMAIN copy[p]
      /\ slot[p] \notin DOMAIN exec
  BY <1>0 DEF Start, UniqueKey, IInv, Sessions
<1>2. old \in Row /\ job[j] \in Row
  BY <1>1 DEF IInv, TypeOK
<1>3. old.cron \in Periods /\ old.next \in Nat /\ n \in Nat
  BY <1>2, NextSlotTyped DEF Row, Time
<1>4. /\ job' = [job EXCEPT ![j] = Flush(@, old, new)]
      /\ copy' = [copy EXCEPT ![p][j] = new]
      /\ exec' = Put(exec, slot[p], "RUNNING")
      /\ pc' = [pc EXCEPT ![p] = "running"]
      /\ UNCHANGED <<slot, edit>>
  BY <1>0 DEF Start
<1>5. /\ new.status = old.status /\ new.cron = old.cron /\ new.max = old.max
      /\ new.retry = old.retry /\ new.version = old.version
      /\ new.deleted = old.deleted /\ new.next = n
  BY <1>2 DEF Row
<1> HIDE DEF n
<1>6. /\ job'[j].status = job[j].status /\ job'[j].cron = job[j].cron
      /\ job'[j].max = job[j].max /\ job'[j].retry = job[j].retry
      /\ job'[j].version = job[j].version
      /\ n # old.next => job'[j].next = n
  BY <1>2, <1>3, <1>4, <1>5 DEF Flush, Column, IInv, TypeOK
<1>7. /\ copy'[p][j] = new
      /\ DOMAIN copy'[p] = DOMAIN copy[p]
      /\ \A i \in DOMAIN copy[p] \ {j} : copy'[p][i] = copy[p][i]
      /\ \A q \in Procs \ {p} : copy'[q] = copy[q] /\ pc'[q] = pc[q]
      /\ \A i \in Jobs \ {j} : job'[i] = job[i]
      /\ pc'[p] = "running"
  BY <1>1, <1>2, <1>4 DEF IInv, TypeOK
<1> HIDE DEF new
<1>8. /\ DOMAIN exec' = DOMAIN exec \cup {slot[p]}
      /\ exec'[slot[p]] = "RUNNING"
      /\ \A s \in DOMAIN exec : exec'[s] = exec[s]
  BY <1>1, <1>4 DEF Put
<1>9. slot[p] = <<j, old.next>>
  <2>1. slot[p][2] = old.next
    BY <1>0, <1>1 DEF RInv, Loads, Held
  <2> QED BY <1>0, <1>1, <2>1 DEF Slots
<1>10. About(j)
  BY <1>2 DEF RInv
<1>11. Steady(j)' => /\ Steady(j) /\ old.next = job[j].next /\ old.cron = job[j].cron
                     /\ n = old.next + Step(old.cron)
                     /\ Step(old.cron) \in Nat /\ Step(old.cron) > 0
                     /\ OnGrid(old.cron, n) /\ job'[j].next = n
  <2> SUFFICES ASSUME Steady(j)'
               PROVE  /\ Steady(j) /\ old.next = job[j].next /\ old.cron = job[j].cron
                      /\ n = old.next + Step(old.cron)
                      /\ Step(old.cron) \in Nat /\ Step(old.cron) > 0
                      /\ OnGrid(old.cron, n) /\ job'[j].next = n
    OBVIOUS
  <2>1. Steady(j)
    BY <1>1, <1>6, <1>7, <1>8 DEF Steady, MovesOn, Undisturbed, Retried
  <2>2. old.next = job[j].next
    BY <1>1, <1>9, <1>10, <2>1 DEF About, Passed
  <2>3. old.cron = job[j].cron
    BY <1>1, <1>10, <2>1 DEF About, Original, Steady, Undisturbed
  <2>4. MovesOn(old.cron) /\ OnGrid(old.cron, old.next)
    BY <1>10, <2>1, <2>2, <2>3 DEF About, CaughtUp, Steady
  <2>5. n = old.next + Step(old.cron) /\ OnGrid(old.cron, n)
    BY <1>3, <2>4, NextOnGrid DEF n
  <2>6. Step(old.cron) \in Nat /\ Step(old.cron) > 0
    BY <1>3, StepTyped
  <2>7. job'[j].next = n
    BY <1>3, <1>6, <2>5, <2>6
  <2> QED BY <2>1, <2>2, <2>3, <2>5, <2>6, <2>7
<1>12. Original(j)'
  BY <1>1, <1>5, <1>6, <1>7, <1>8, <1>10 DEF About, Original, DeadLettered
<1>13. Passed(j)'
  <2> SUFFICES ASSUME Steady(j)'
               PROVE  /\ \A s \in DOMAIN exec' : s[1] = j => s[2] < job'[j].next
                      /\ \A q \in Workers : j \in DOMAIN copy'[q] =>
                           \/ copy'[q][j].next = job'[j].next
                           \/ <<j, copy'[q][j].next>> \in DOMAIN exec'
    BY <1>4 DEF Passed
  <2>1. /\ \A s \in DOMAIN exec : s[1] = j => s[2] < old.next
        /\ \A q \in Workers : j \in DOMAIN copy[q] =>
             copy[q][j].next = old.next \/ <<j, copy[q][j].next>> \in DOMAIN exec
    BY <1>10, <1>11 DEF About, Passed
  <2>2. \A s \in DOMAIN exec : s[2] \in Nat
    BY DEF IInv, TypeOK, Slots, Time
  <2>3. old.next < n
    BY <1>3, <1>11
  <2>4. \A s \in DOMAIN exec' : s[1] = j => s[2] < n
    BY <1>3, <1>8, <1>9, <2>1, <2>2, <2>3
  <2>5. ASSUME NEW q \in Workers, j \in DOMAIN copy'[q]
        PROVE  copy'[q][j].next = n \/ <<j, copy'[q][j].next>> \in DOMAIN exec'
    <3>1. CASE q = p
      BY <1>5, <1>7, <3>1
    <3>2. CASE q # p
      BY <1>7, <1>8, <1>9, <2>1, <2>5, <3>2
    <3> QED BY <3>1, <3>2
  <2> QED BY <1>11, <2>4, <2>5
<1>14. CaughtUp(j)'
  <2> DEFINE d == Step(old.cron)
  <2> SUFFICES ASSUME Steady(j)'
               PROVE  /\ OnGrid(job'[j].cron, job'[j].next)
                      /\ \A s \in DOMAIN exec' : s[1] = j =>
                           /\ \E k \in Nat : job'[j].next = s[2] + k * Step(job'[j].cron)
                           /\ \A t \in s[2] .. job'[j].next - 1 :
                                (t - s[2]) % Step(job'[j].cron) = 0 => <<j, t>> \in DOMAIN exec'
    BY DEF CaughtUp, OnGrid, Step
  <2>1. /\ job'[j].next = n /\ job'[j].cron = old.cron
        /\ d \in Nat \ {0} /\ n = old.next + d /\ OnGrid(old.cron, n)
    BY <1>6, <1>11
  <2>2. \A s \in DOMAIN exec : s[1] = j =>
          /\ s[2] \in Nat
          /\ \E k \in Nat : old.next = s[2] + k * d
          /\ \A t \in s[2] .. old.next - 1 : (t - s[2]) % d = 0 => <<j, t>> \in DOMAIN exec
    BY <1>10, <1>11 DEF About, CaughtUp, IInv, TypeOK, Slots, Time
  <2> HIDE DEF d
  <2>3. ASSUME NEW s \in DOMAIN exec', s[1] = j
        PROVE  \E k \in Nat : s[2] \in Nat /\ old.next = s[2] + k * d
    <3>1. CASE s \in DOMAIN exec
      BY <2>2, <2>3, <3>1
    <3>2. CASE s = <<j, old.next>>
      <4>1. old.next = s[2] + 0 * d
        BY <1>3, <2>1, <3>2
      <4> QED BY <1>3, <3>2, <4>1
    <3> QED BY <1>8, <1>9, <3>1, <3>2
  <2>4. ASSUME NEW s \in DOMAIN exec', s[1] = j
        PROVE  \E k \in Nat : n = s[2] + k * d
    <3>1. PICK k \in Nat : s[2] \in Nat /\ old.next = s[2] + k * d
      BY <2>3, <2>4
    <3>2. n = s[2] + (k + 1) * d
      BY <2>1, <3>1
    <3> QED BY <3>2
  <2>5. ASSUME NEW s \in DOMAIN exec', s[1] = j, NEW t \in s[2] .. n - 1, (t - s[2]) % d = 0
        PROVE  <<j, t>> \in DOMAIN exec'
    <3>1. s[2] \in Nat /\ t \in Nat /\ s[2] <= t /\ t < old.next + d
      BY <1>3, <2>1, <2>3, <2>5
    <3>2. t <= old.next
      BY <1>3, <2>1, <2>3, <2>5, <3>1, NoSlotSkipped
    <3>3. CASE t = old.next
      BY <1>8, <1>9, <3>3
    <3>4. CASE t < old.next
      <4>1. s \in DOMAIN exec
        BY <1>3, <1>8, <1>9, <3>1, <3>4
      <4>2. t \in s[2] .. old.next - 1
        BY <1>3, <3>1, <3>4
      <4> QED BY <1>8, <2>2, <2>5, <4>1, <4>2
    <3> QED BY <1>3, <3>1, <3>2, <3>3, <3>4
  <2> QED BY <2>1, <2>4, <2>5 DEF d
<1>15. \A i \in Jobs : Exists(i) => Exists(i)'
  BY <1>6, <1>7 DEF Exists
<1>16. Held(p)'
  <2>1. \A i \in DOMAIN copy[p] : i \in Jobs /\ Exists(i)
                               /\ copy[p][i].version > 0 /\ copy[p][i].status # "NONE"
    BY DEF RInv, Loads, Held, IInv, TypeOK
  <2>2. \A i \in DOMAIN copy'[p] :
          Exists(i)' /\ copy'[p][i].version > 0 /\ copy'[p][i].status # "NONE"
    BY <1>5, <1>7, <1>15, <2>1
  <2> QED BY <1>7, <2>2 DEF Held
<1>17. \A q \in Procs : Held(q)'
  BY <1>4, <1>7, <1>15, <1>16, HeldFrame DEF RInv
<1>18. ForcedStay
  BY <1>1, <1>7 DEF ForcedStay
<1>19. \A i \in Jobs \ {j} : RowsKept(i) /\ CopiesKept(i)
  BY <1>0, <1>7, <1>8 DEF RowsKept, CopiesKept
<1>20. Exists(j)' /\ job'[j].version > 0
  <2>1. Exists(j) /\ job[j].version > 0
    BY <1>1, <1>2 DEF RInv, Loads, Held, Tables
  <2>2. Exists(j)'
    BY <1>15, <2>1
  <2> QED BY <1>6, <2>1, <2>2
<1> QED BY <1>0, <1>7, <1>8, <1>12, <1>13, <1>14, <1>17, <1>18, <1>19, <1>20,
           OneRowChanges DEF About

(* What both verdicts have in common; the retry budget is the caller's.     *)
LEMMA SettleRows ==
  ASSUME IInv, IInv', RInv, NEW p \in Workers, pc[p] = "running",
         NEW j \in Jobs, j = slot[p][1],
         NEW v \in ExecStatus, NEW new \in Row, Settle(p, v, new),
         new.cron = copy[p][j].cron, new.max = copy[p][j].max,
         new.version = copy[p][j].version,
         v # "RETRYING" => new.next = copy[p][j].next,
         new.status \in {copy[p][j].status, "DISABLED"},
         job[j].version = 1 =>
           /\ job'[j].status = "ACTIVE" => job'[j].retry < job[j].max
           /\ new.status = "DISABLED" => job'[j].status = "DISABLED",
         v = "DEAD_LETTER" => new.status = "DISABLED"
  PROVE  RInv'
<1> USE ProcsAssumption DEF Workers, Requests, Procs
<1> DEFINE old == copy[p][j]
<1>1. /\ slot[p] \in Slots /\ j \in DOMAIN copy[p] /\ slot[p] \in DOMAIN exec
      /\ exec[slot[p]] = "RUNNING"
  BY DEF IInv, Sessions, OwnedSlots
<1>2. old \in Row /\ job[j] \in Row
  BY <1>1 DEF IInv, TypeOK
<1>3. /\ job' = [job EXCEPT ![j] = Flush(@, old, new)]
      /\ copy' = [copy EXCEPT ![p][j] = new]
      /\ exec' = [exec EXCEPT ![slot[p]] = v]
      /\ slot' = [slot EXCEPT ![p] = None]
      /\ pc' = [pc EXCEPT ![p] = "ticking"]
      /\ UNCHANGED edit
  BY DEF Settle, Record
<1>4. /\ job'[j].status \in {job[j].status, "DISABLED"}
      /\ job'[j].cron = job[j].cron /\ job'[j].max = job[j].max
      /\ job'[j].version = job[j].version
      /\ v # "RETRYING" => job'[j].next = job[j].next
  <2>1. job'[j] = Flush(job[j], old, new)
    BY <1>3 DEF IInv, TypeOK
  <2> QED BY <2>1 DEF Flush, Column
<1>5. /\ copy'[p][j] = new
      /\ DOMAIN copy'[p] = DOMAIN copy[p]
      /\ \A i \in DOMAIN copy[p] \ {j} : copy'[p][i] = copy[p][i]
      /\ \A q \in Procs \ {p} : copy'[q] = copy[q] /\ pc'[q] = pc[q]
      /\ \A q \in Workers \ {p} : slot'[q] = slot[q]
      /\ \A i \in Jobs \ {j} : job'[i] = job[i]
      /\ pc'[p] = "ticking"
  BY <1>1, <1>3 DEF IInv, TypeOK
<1>6. /\ DOMAIN exec' = DOMAIN exec
      /\ exec'[slot[p]] = v
      /\ \A s \in DOMAIN exec : s # slot[p] => exec'[s] = exec[s]
  BY <1>1, <1>3
<1>7. About(j)
  BY DEF RInv
<1>8. Original(j)'
  <2> SUFFICES ASSUME job[j].version = 1
               PROVE  /\ job'[j].max > 0
                      /\ job'[j].status = "ACTIVE" => job'[j].retry < job'[j].max
                      /\ \A q \in Procs : j \in DOMAIN copy'[q] =>
                           /\ copy'[q][j].max = job'[j].max
                           /\ copy'[q][j].cron = job'[j].cron
                           /\ copy'[q][j].status = "DISABLED" => job'[j].status = "DISABLED"
                      /\ DeadLettered(j)' => job'[j].status = "DISABLED"
    BY <1>4 DEF Original
  <2>1. /\ job[j].max > 0
        /\ \A q \in Procs : j \in DOMAIN copy[q] =>
             /\ copy[q][j].max = job[j].max
             /\ copy[q][j].cron = job[j].cron
             /\ copy[q][j].status = "DISABLED" => job[j].status = "DISABLED"
        /\ DeadLettered(j) => job[j].status = "DISABLED"
    BY <1>7 DEF About, Original
  <2>2. DeadLettered(j)' => job'[j].status = "DISABLED"
    <3>1. CASE v = "DEAD_LETTER"
      BY <3>1
    <3>2. CASE v # "DEAD_LETTER"
      BY <1>4, <1>6, <2>1, <3>2 DEF DeadLettered
    <3> QED BY <3>1, <3>2
  <2>3. ASSUME NEW q \in Procs, j \in DOMAIN copy'[q]
        PROVE  /\ copy'[q][j].max = job'[j].max
               /\ copy'[q][j].cron = job'[j].cron
               /\ copy'[q][j].status = "DISABLED" => job'[j].status = "DISABLED"
    <3>1. CASE q = p
      BY <1>1, <1>4, <1>5, <2>1, <3>1
    <3>2. CASE q # p
      BY <1>4, <1>5, <2>1, <2>3, <3>2
    <3> QED BY <3>1, <3>2
  <2> QED BY <1>4, <2>1, <2>2, <2>3
<1>9. Steady(j)' => Steady(j) /\ v # "RETRYING"
  BY <1>1, <1>4, <1>5, <1>6 DEF Steady, MovesOn, Undisturbed, Retried
<1>10. Passed(j)'
  <2> SUFFICES ASSUME Steady(j)'
               PROVE  /\ \A s \in DOMAIN exec' : s[1] = j => s[2] < job'[j].next
                      /\ \A q \in Workers : j \in DOMAIN copy'[q] =>
                           \/ copy'[q][j].next = job'[j].next
                           \/ <<j, copy'[q][j].next>> \in DOMAIN exec'
    BY DEF Passed
  <2>1. /\ \A s \in DOMAIN exec : s[1] = j => s[2] < job[j].next
        /\ \A q \in Workers : j \in DOMAIN copy[q] =>
             copy[q][j].next = job[j].next \/ <<j, copy[q][j].next>> \in DOMAIN exec
    BY <1>7, <1>9 DEF About, Passed
  <2>2. \A q \in Workers : j \in DOMAIN copy'[q] =>
          j \in DOMAIN copy[q] /\ copy'[q][j].next = copy[q][j].next
    BY <1>5, <1>9
  <2> QED BY <1>4, <1>6, <1>9, <2>1, <2>2
<1>11. CaughtUp(j)'
  <2> SUFFICES ASSUME Steady(j)'
               PROVE  /\ OnGrid(job'[j].cron, job'[j].next)
                      /\ \A s \in DOMAIN exec' : s[1] = j =>
                           /\ \E k \in Nat : job'[j].next = s[2] + k * Step(job'[j].cron)
                           /\ \A t \in s[2] .. job'[j].next - 1 :
                                (t - s[2]) % Step(job'[j].cron) = 0 => <<j, t>> \in DOMAIN exec'
    BY DEF CaughtUp, OnGrid, Step
  <2>1. /\ job'[j].next = job[j].next /\ job'[j].cron = job[j].cron
        /\ DOMAIN exec' = DOMAIN exec
    BY <1>4, <1>6, <1>9
  <2> QED BY <1>7, <1>9, <2>1 DEF About, CaughtUp
<1>12. \A i \in Jobs : Exists(i) => Exists(i)'
  BY <1>4, <1>5 DEF Exists
<1>13. Held(p)'
  <2>1. \A i \in DOMAIN copy[p] : i \in Jobs /\ Exists(i)
                               /\ copy[p][i].version > 0 /\ copy[p][i].status # "NONE"
    BY DEF RInv, Loads, Held, IInv, TypeOK
  <2>2. \A i \in DOMAIN copy'[p] :
          Exists(i)' /\ copy'[p][i].version > 0 /\ copy'[p][i].status # "NONE"
    BY <1>1, <1>5, <1>12, <2>1
  <2> QED BY <1>5, <2>2 DEF Held
<1>14. \A q \in Procs : Held(q)'
  BY <1>3, <1>5, <1>12, <1>13, HeldFrame DEF RInv
<1>15. ForcedStay
  BY <1>5 DEF ForcedStay
<1>16. \A i \in Jobs \ {j} : RowsKept(i) /\ CopiesKept(i)
  BY <1>5, <1>6 DEF RowsKept, CopiesKept
<1>17. Exists(j)' /\ job'[j].version > 0
  <2>1. Exists(j) /\ job[j].version > 0
    BY <1>1 DEF RInv, Loads, Held, Tables
  <2>2. Exists(j)'
    BY <1>12, <2>1
  <2> QED BY <1>4, <2>1, <2>2
<1> QED BY <1>5, <1>6, <1>8, <1>10, <1>11, <1>14, <1>15, <1>16, <1>17,
           OneRowChanges DEF About

LEMMA SucceedRows ==
  ASSUME IInv, IInv', RInv, NEW p \in Workers, Succeed(p)
  PROVE  RInv'
<1>1. PICK j \in Jobs : j = slot[p][1] /\ j \in DOMAIN copy[p]
  BY DEF Succeed, IInv, Sessions, Slots
<1> DEFINE old == copy[p][j]
           new == [old EXCEPT !.retry = 0]
<1>2. old \in Row /\ job[j] \in Row
  BY <1>1 DEF IInv, TypeOK, Workers, Procs
<1>3. /\ new \in Row /\ new.status = old.status /\ new.cron = old.cron
      /\ new.max = old.max /\ new.version = old.version /\ new.next = old.next
      /\ new.retry = 0
  BY <1>2 DEF Row
<1>4. pc[p] = "running" /\ Settle(p, "SUCCESS", new)
  BY <1>1 DEF Succeed
<1>5. job' = [job EXCEPT ![j] = Flush(@, old, new)]
  BY <1>1, <1>4 DEF Settle
<1> HIDE DEF new
<1>6. job'[j].status = job[j].status /\ job'[j].retry \in {job[j].retry, 0}
  BY <1>3, <1>5 DEF Flush, Column, IInv, TypeOK
<1>7. job[j].version = 1 =>
        /\ job[j].max > 0
        /\ job[j].status = "ACTIVE" => job[j].retry < job[j].max
        /\ old.status = "DISABLED" => job[j].status = "DISABLED"
  BY <1>1 DEF RInv, About, Original, Workers, Procs
<1> QED BY <1>1, <1>3, <1>4, <1>6, <1>7, SettleRows DEF ExecStatus

LEMMA FailRows ==
  ASSUME IInv, IInv', RInv, NEW p \in Workers, Fail(p)
  PROVE  RInv'
<1>1. PICK j \in Jobs : j = slot[p][1] /\ j \in DOMAIN copy[p]
  BY DEF Fail, IInv, Sessions, Slots
<1> DEFINE old == copy[p][j]
           r == old.retry + 1
           dead == [old EXCEPT !.retry = r, !.status = "DISABLED"]
           again == [old EXCEPT !.retry = r, !.next = at[p] + RetryDelay(r)]
<1>2. old \in Row /\ job[j] \in Row /\ pc[p] = "running"
  BY <1>1 DEF Fail, IInv, TypeOK, Workers, Procs
<1>3. job[j].version = 1 =>
        /\ old.max = job[j].max
        /\ old.status = "DISABLED" => job[j].status = "DISABLED"
  BY <1>1 DEF RInv, About, Original, Workers, Procs
<1>4. CASE OutOfRetries(r, old.max)
  <2>1. Settle(p, "DEAD_LETTER", dead)
    BY <1>1, <1>4 DEF Fail
  <2>2. /\ dead \in Row /\ dead.status = "DISABLED" /\ dead.cron = old.cron
        /\ dead.max = old.max /\ dead.version = old.version /\ dead.next = old.next
    <3>1. r \in Nat
      BY <1>2 DEF Row
    <3> HIDE DEF r
    <3> QED BY <1>2, <3>1 DEF Row, JobStatus
  <2>3. job' = [job EXCEPT ![j] = Flush(@, old, dead)]
    BY <1>1, <2>1 DEF Settle
  <2> HIDE DEF dead
  <2>4. job[j].version = 1 => job'[j].status = "DISABLED"
    BY <1>3, <2>2, <2>3 DEF Flush, Column, IInv, TypeOK
  <2> QED BY <1>1, <1>2, <2>1, <2>2, <2>4, SettleRows DEF ExecStatus
<1>5. CASE ~OutOfRetries(r, old.max)
  <2>1. Settle(p, "RETRYING", again)
    BY <1>1, <1>5 DEF Fail
  <2>2. at[p] + RetryDelay(r) \in Nat
    BY RetryDelayTyped DEF IInv, TypeOK, Time
  <2>3. /\ again \in Row /\ again.status = old.status /\ again.cron = old.cron
        /\ again.max = old.max /\ again.version = old.version /\ again.retry = r
    <3>1. r \in Nat
      BY <1>2 DEF Row
    <3> HIDE DEF r
    <3> QED BY <1>2, <2>2, <3>1 DEF Row, Time
  <2>4. job' = [job EXCEPT ![j] = Flush(@, old, again)]
    BY <1>1, <2>1 DEF Settle
  <2> HIDE DEF again
  <2>5. job'[j].status = job[j].status /\ job'[j].retry = r
    BY <1>2, <2>3, <2>4 DEF Flush, Column, IInv, TypeOK, Row
  <2>6. job[j].version = 1 => r < job[j].max
    BY <1>2, <1>3, <1>5 DEF OutOfRetries, Row
  <2> QED BY <1>1, <1>2, <1>3, <2>1, <2>3, <2>5, <2>6, SettleRows DEF ExecStatus
<1> QED BY <1>4, <1>5

(* What the commits of a PATCH and of a forced run do to the row. *)
LEMMA EditedRow ==
  ASSUME IInv, RInv, NEW p \in Requests, pc[p] \in {"patching", "forcing"},
         p \in Forcers <=> pc[p] = "forcing", CommitEdit(p)
  PROVE  \E j \in Jobs :
           /\ j = edit[p].job /\ j \in DOMAIN copy[p] /\ Exists(j)
           /\ copy[p][j] \in Row /\ edit[p].row \in Row
           /\ copy[p][j].version > 0 /\ edit[p].row.status # "NONE"
           /\ \A i \in Jobs \ {j} : job'[i] = job[i]
           /\ job'[j] \in Row
           /\ Exists(j)'
           /\ pc[p] = "forcing" =>
                /\ job'[j] = [job[j] EXCEPT !.next = job'[j].next]
                /\ edit[p].row = [copy[p][j] EXCEPT !.next = edit[p].row.next]
           /\ pc[p] = "patching" =>
                /\ job'[j].version = copy[p][j].version + 1
                /\ job'[j].deleted = job[j].deleted
<1> USE ProcsAssumption DEF Workers, Requests, Procs
<1>1. PICK j \in Jobs : j = edit[p].job /\ j \in DOMAIN copy[p]
  BY DEF IInv, Sessions
<1>2. copy[p][j] \in Row /\ edit[p].row \in Row /\ job[j] \in Row
  BY <1>1 DEF IInv, TypeOK, Sessions
<1> DEFINE old == copy[p][j]
           new == edit[p].row
<1>3. /\ job' = [job EXCEPT ![j] = Flush(@, old, new)]
      /\ \A i \in Jobs \ {j} : job'[i] = job[i]
      /\ job'[j] = Flush(job[j], old, new)
  BY <1>1 DEF CommitEdit, IInv, TypeOK
<1>4. /\ Held(p) /\ Exists(j) /\ old.version > 0 /\ old.status # "NONE"
      /\ job[j].status # "NONE"
  BY <1>1 DEF RInv, Loads, Held, Exists
<1>5. job'[j] \in Row
  BY <1>2, <1>3, FlushTyped
<1>6. CASE pc[p] = "forcing"
  <2>1. new = [old EXCEPT !.next = new.next]
    BY <1>1, <1>4, <1>6 DEF Held
  <2>2. new.status # "NONE"
    BY <1>2, <1>4, <2>1 DEF Row
  <2>3. job'[j] = [job[j] EXCEPT !.next = job'[j].next]
    BY <1>2, <1>3, <2>1 DEF Flush, Column, Row
  <2>4. Exists(j)'
    BY <1>2, <1>4, <2>3 DEF Exists, Row
  <2> QED BY <1>1, <1>2, <1>3, <1>4, <1>5, <1>6, <2>1, <2>2, <2>3, <2>4
<1>7. CASE pc[p] = "patching"
  <2>1. /\ new.version = old.version + 1 /\ new.status # "NONE"
        /\ new.deleted = old.deleted
    BY <1>1, <1>4, <1>7 DEF Held
  <2>2. new.version # old.version
    BY <1>2, <2>1 DEF Row
  <2>3. job'[j].version = old.version + 1 /\ job'[j].deleted = job[j].deleted
    BY <1>3, <2>1, <2>2 DEF Flush, Column
  <2>4. Exists(j)'
    BY <1>3, <1>4, <2>1 DEF Exists, Flush, Column
  <2> QED BY <1>1, <1>2, <1>3, <1>4, <1>5, <1>7, <2>1, <2>3, <2>4
<1> QED BY <1>6, <1>7

LEMMA PatchCommitRows ==
  ASSUME IInv, IInv', RInv, NEW p \in Patchers, PatchCommit(p)
  PROVE  RInv'
<1> USE ProcsAssumption DEF Workers, Requests, Procs
<1>1. /\ pc[p] = "patching" /\ CommitEdit(p) /\ p \notin Forcers
      /\ pc'[p] = "done" /\ DOMAIN copy'[p] = {}
      /\ \A q \in Procs \ {p} : /\ pc'[q] = pc[q] /\ copy'[q] = copy[q]
                                /\ q \in Requests => edit'[q] = edit[q]
      /\ UNCHANGED <<exec, slot>>
  BY DEF PatchCommit, CommitEdit, NoCopy, IInv, TypeOK
<1>2. PICK j \in Jobs :
        /\ copy[p][j].version > 0 /\ copy[p][j] \in Row
        /\ \A i \in Jobs \ {j} : job'[i] = job[i]
        /\ Exists(j)' /\ job'[j].version = copy[p][j].version + 1
  BY <1>1, EditedRow
<1>3. job'[j].version > 1 /\ job'[j].version > 0
  BY <1>2 DEF Row
<1>4. About(j)'
  BY <1>3 DEF About, Original, Passed, CaughtUp, Steady, Undisturbed
<1>5. \A i \in Jobs : Exists(i) => Exists(i)'
  BY <1>2 DEF Exists
<1>6. Held(p)'
  BY <1>1 DEF Held
<1>7. \A q \in Procs : Held(q)'
  BY <1>1, <1>5, <1>6, HeldFrame DEF RInv
<1>8. ForcedStay
  BY <1>1 DEF ForcedStay
<1>9. \A i \in Jobs \ {j} : RowsKept(i) /\ CopiesKept(i)
  BY <1>1 DEF RowsKept, CopiesKept
<1> QED BY <1>1, <1>2, <1>3, <1>4, <1>7, <1>8, <1>9, OneRowChanges

LEMMA ForceCommitRows ==
  ASSUME IInv, IInv', RInv, NEW p \in Forcers, ForceCommit(p)
  PROVE  RInv'
<1> USE ProcsAssumption DEF Workers, Requests, Procs
<1>1. /\ pc[p] = "forcing" /\ CommitEdit(p)
      /\ pc'[p] = "forced"
      /\ copy'[p] = [j \in {edit[p].job} |-> edit[p].row]
      /\ \A q \in Procs \ {p} : /\ pc'[q] = pc[q] /\ copy'[q] = copy[q]
                                /\ q \in Requests => edit'[q] = edit[q]
      /\ UNCHANGED <<exec, slot>>
  BY DEF ForceCommit, CommitEdit, IInv, TypeOK
<1>2. PICK j \in Jobs :
        /\ j = edit[p].job /\ j \in DOMAIN copy[p] /\ Exists(j)
        /\ copy[p][j] \in Row /\ edit[p].row \in Row
        /\ copy[p][j].version > 0 /\ edit[p].row.status # "NONE"
        /\ \A i \in Jobs \ {j} : job'[i] = job[i]
        /\ Exists(j)'
        /\ job'[j] = [job[j] EXCEPT !.next = job'[j].next]
        /\ edit[p].row = [copy[p][j] EXCEPT !.next = edit[p].row.next]
  BY <1>1, EditedRow
<1>3. job[j] \in Row /\ job[j].version > 0
  BY <1>2 DEF IInv, TypeOK, RInv, Loads, Tables
<1>4. /\ job'[j].status = job[j].status /\ job'[j].max = job[j].max
      /\ job'[j].cron = job[j].cron /\ job'[j].retry = job[j].retry
      /\ job'[j].version = job[j].version
  BY <1>2, <1>3 DEF Row
<1>5. /\ edit[p].row.status = copy[p][j].status /\ edit[p].row.max = copy[p][j].max
      /\ edit[p].row.cron = copy[p][j].cron
      /\ edit[p].row.version = copy[p][j].version
  BY <1>2 DEF Row
<1>6. Original(j)'
  <2>1. Original(j)
    BY DEF RInv, About
  <2>2. DOMAIN copy'[p] = {j} /\ copy'[p][j] = edit[p].row
    BY <1>1, <1>2
  <2>3. DeadLettered(j)' <=> DeadLettered(j)
    BY <1>1 DEF DeadLettered
  <2>4. ASSUME NEW q \in Procs, j \in DOMAIN copy'[q]
        PROVE  \E i \in {p, q} : /\ j \in DOMAIN copy[i]
                                 /\ copy'[q][j].max = copy[i][j].max
                                 /\ copy'[q][j].cron = copy[i][j].cron
                                 /\ copy'[q][j].status = copy[i][j].status
    BY <1>1, <1>2, <1>5, <2>2, <2>4
  <2> QED BY <1>4, <2>1, <2>3, <2>4 DEF Original
<1>7. \A i \in Jobs : ~ Undisturbed(i)'
  BY <1>1 DEF Undisturbed
<1>8. About(j)'
  BY <1>6, <1>7 DEF About, Passed, CaughtUp, Steady
<1>9. \A i \in Jobs : Exists(i) => Exists(i)'
  BY <1>2 DEF Exists
<1>10. Held(p)'
  BY <1>1, <1>2, <1>5, <1>9 DEF Held
<1>11. \A q \in Procs : Held(q)'
  BY <1>1, <1>9, <1>10, HeldFrame DEF RInv
<1>12. ForcedStay
  BY <1>1 DEF ForcedStay
<1>13. \A i \in Jobs \ {j} : RowsKept(i) /\ CopiesKept(i)
  BY <1>1, <1>2 DEF RowsKept, CopiesKept
<1> QED BY <1>1, <1>2, <1>3, <1>4, <1>8, <1>11, <1>12, <1>13, OneRowChanges

LEMMA PatchReadRows ==
  ASSUME IInv, IInv', RInv, NEW p \in Patchers, NEW j \in Jobs, NEW v,
         NEW st \in JobStatus, NEW c \in Periods, NEW m \in RetryLimits,
         PatchRead(p, j, v, st, c, m)
  PROVE  RInv'
<1> DEFINE row == Patched(job[j], st, c, m)
<1>1. /\ row.version = job[j].version + 1 /\ row.status # "NONE"
      /\ row.deleted = job[j].deleted
  BY DEF Patched, JobStatus, IInv, TypeOK, Row
<1> QED BY <1>1, ProcsAssumption, StageRows DEF PatchRead, Requests

LEMMA ForceReadRows ==
  ASSUME IInv, IInv', RInv, NEW p \in Forcers, NEW j \in Jobs, ForceRead(p, j)
  PROVE  RInv'
<1> DEFINE row == [job[j] EXCEPT !.next = now - 1]
<1>1. row = [job[j] EXCEPT !.next = row.next]
  BY DEF IInv, TypeOK, Row
<1> QED BY <1>1, ProcsAssumption, StageRows DEF ForceRead, Requests

LEMMA TickStepRows ==
  ASSUME IInv, IInv', RInv, NEW p \in Workers, TickStep(p)
  PROVE  RInv'
<1>1. ASSUME SelectNothing(p) \/ StartConflict(p) \/ RolledBack(p) \/ EndTick(p)
      PROVE  RInv'
  BY <1>1, CloseSessionRows DEF SelectNothing, StartConflict, RolledBack, EndTick
<1> QED
  BY <1>1, SelectRows, DupCheckRows, StartRows, SucceedRows, FailRows DEF TickStep

LEMMA InitRows == Init => RInv
<1> SUFFICES ASSUME Init PROVE RInv
  OBVIOUS
<1> USE ProcsAssumption DEF Workers, Requests, Procs
<1>1. \A j \in Jobs : job[j].version = 0 /\ job[j].status = "NONE"
  BY DEF Init, NoRow
<1>2. DOMAIN exec = {} /\ \A p \in Procs : DOMAIN copy[p] = {} /\ pc[p] \in {"idle", "new"}
  BY DEF Init, NoCopy
<1>3. Loads
  BY <1>1, <1>2 DEF Loads, Tables, Held, Exists
<1>4. \A j \in Jobs : About(j)
  BY <1>1 DEF About, Original, Passed, CaughtUp, Steady, Undisturbed
<1> QED BY <1>3, <1>4 DEF RInv

LEMMA NextRows == IInv /\ IInv' /\ RInv /\ [Next]_vars => RInv'
<1> SUFFICES ASSUME IInv, IInv', RInv, [Next]_vars PROVE RInv'
  OBVIOUS
<1>1. ASSUME UNCHANGED <<job, exec, pc, copy, slot, edit>> PROVE RInv'
  <2>1. \A q \in Procs : Held(q)'
    BY <1>1 DEF RInv, Loads, Held, Exists
  <2>2. ForcedStay /\ \A j \in Jobs : CopiesKept(j)
    BY <1>1 DEF ForcedStay, CopiesKept
  <2> QED BY <1>1, <2>1, <2>2, QuietRows
<1>2. CASE Advance
  BY <1>1, <1>2 DEF Advance
<1>3. ASSUME NEW j \in Jobs, NEW st \in JobStatus, NEW c \in Periods,
             NEW m \in RetryLimits, Create(j, st, c, m)
      PROVE  RInv'
  BY <1>3, CreateRows
<1>4. ASSUME NEW j \in Jobs, Delete(j) PROVE RInv'
  BY <1>4, DeleteRows
<1>5. ASSUME NEW p \in Pollers, TickStep(p) PROVE RInv'
  BY <1>5, TickStepRows DEF Workers
<1>6. ASSUME NEW p \in Forcers, ForceStep(p) PROVE RInv'
  BY <1>6, TickStepRows, ForceReadRows, ForceCommitRows DEF ForceStep, Workers
<1>7. ASSUME NEW p \in Patchers, PatchStep(p) PROVE RInv'
  BY <1>7, PatchReadRows, PatchCommitRows DEF PatchStep
<1>8. ASSUME NEW p \in Workers, Crash(p) PROVE RInv'
  BY <1>8, CloseSessionRows DEF Crash
<1>9. CASE UNCHANGED vars
  BY <1>1, <1>9 DEF vars
<1> QED BY <1>2, <1>3, <1>4, <1>5, <1>6, <1>7, <1>8, <1>9 DEF Next

(* RInv is inductive relative to IInv: what sessions hold of a job, and how *)
(* far next_run_at of a steady job has come (scheduler_service.py, tick).   *)
THEOREM RowsInvariance == Spec => []RInv
<1>1. Init => RInv
  BY InitRows
<1>2. IInv /\ IInv' /\ RInv /\ [Next]_vars => RInv'
  BY NextRows
<1> QED BY <1>1, <1>2, Invariance, PTL DEF Spec

(* Whatever ticks overlap, next_run_at of a job nobody retried, patched or  *)
(* forced, whose schedule has no seconds field, is past every slot that     *)
(* ran: the duplicate check never skips the slot the job stands on.         *)
THEOREM NextIsFresh == Spec => []NextSlotFresh
<1>1. IInv /\ RInv => NextSlotFresh
  BY DEF IInv, TypeOK, Slots, RInv, About, Passed, NextSlotFresh
<1> QED BY <1>1, Invariance, RowsInvariance, PTL

(* Whatever ticks overlap, such a job has a row for every slot of its       *)
(* schedule from the first one that was started up to next_run_at.          *)
THEOREM CatchesUp == Spec => []CatchUpComplete
<1>1. IInv /\ RInv => CatchUpComplete
  BY DEF IInv, TypeOK, Slots, RInv, About, CaughtUp, CatchUpComplete
<1> QED BY <1>1, Invariance, RowsInvariance, PTL

(* Stale retry counters never give a job more attempts than max_retries: an *)
(* ACTIVE job has some left, a dead-lettered one is DISABLED.               *)
THEOREM BudgetIsKept == Spec => []RetryBudget
<1>1. RInv => RetryBudget
  BY DEF RInv, About, Original, DeadLettered, RetryBudget
<1> QED BY <1>1, RowsInvariance, PTL

-----------------------------------------------------------------------------
(* A row that keeps its configuration. *)
ConfigKept(j) ==
  /\ job'[j].cron = job[j].cron
  /\ job'[j].max = job[j].max
  /\ job'[j].version = job[j].version
  /\ job'[j].status \in {job[j].status, "DISABLED"}
  /\ job[j].deleted => job'[j].deleted

(* A tick and a forced run write at most "DISABLED" into the configuration. *)
LEMMA WorkerKeepsConfig ==
  ASSUME IInv, RInv, NEW p \in Workers, Start(p) \/ Succeed(p) \/ Fail(p),
         NEW i \in Jobs
  PROVE  ConfigKept(i)
<1>1. PICK j \in Jobs : j = slot[p][1] /\ j \in DOMAIN copy[p]
  BY DEF Start, Succeed, Fail, IInv, Sessions, Slots
<1> DEFINE old == copy[p][j]
<1>2. old \in Row
  BY <1>1 DEF IInv, TypeOK, Workers, Procs
<1>3. ASSUME NEW new, job' = [job EXCEPT ![j] = Flush(@, old, new)],
             new.cron = old.cron, new.max = old.max, new.deleted = old.deleted,
             new.version = old.version,
             new.status \in {old.status, "DISABLED"}
      PROVE  ConfigKept(i)
  BY <1>3 DEF ConfigKept, Flush, Column, IInv, TypeOK
<1>4. CASE Start(p)
  <2> DEFINE n == NextSlot(old.cron, old.next)
             new == [old EXCEPT !.next = n]
  <2>1. job' = [job EXCEPT ![j] = Flush(@, old, new)]
    BY <1>1, <1>4 DEF Start
  <2> HIDE DEF n
  <2>2. /\ new.cron = old.cron /\ new.max = old.max /\ new.deleted = old.deleted
        /\ new.status = old.status /\ new.version = old.version
    BY <1>2 DEF Row
  <2> HIDE DEF new
  <2> QED BY <1>3, <2>1, <2>2
<1>5. CASE Succeed(p)
  <2> DEFINE new == [old EXCEPT !.retry = 0]
  <2>1. job' = [job EXCEPT ![j] = Flush(@, old, new)]
    BY <1>1, <1>5 DEF Succeed, Settle
  <2>2. /\ new.cron = old.cron /\ new.max = old.max /\ new.deleted = old.deleted
        /\ new.status = old.status /\ new.version = old.version
    BY <1>2 DEF Row
  <2> HIDE DEF new
  <2> QED BY <1>3, <2>1, <2>2
<1>6. CASE Fail(p)
  <2> DEFINE r == old.retry + 1
             n == at[p] + RetryDelay(r)
             dead == [old EXCEPT !.retry = r, !.status = "DISABLED"]
             again == [old EXCEPT !.retry = r, !.next = n]
  <2>1. \/ job' = [job EXCEPT ![j] = Flush(@, old, dead)]
        \/ job' = [job EXCEPT ![j] = Flush(@, old, again)]
    BY <1>1, <1>6 DEF Fail, Settle
  <2> HIDE DEF n, r
  <2>2. /\ dead.cron = old.cron /\ dead.max = old.max /\ dead.deleted = old.deleted
        /\ dead.status = "DISABLED" /\ dead.version = old.version
    BY <1>2 DEF Row
  <2>3. /\ again.cron = old.cron /\ again.max = old.max
        /\ again.deleted = old.deleted /\ again.status = old.status
        /\ again.version = old.version
    BY <1>2 DEF Row
  <2> HIDE DEF dead, again
  <2>4. CASE job' = [job EXCEPT ![j] = Flush(@, old, dead)]
    BY <1>3, <2>2, <2>4
  <2>5. CASE job' = [job EXCEPT ![j] = Flush(@, old, again)]
    BY <1>3, <2>3, <2>5
  <2> QED BY <2>1, <2>4, <2>5
<1> QED BY <1>4, <1>5, <1>6

LEMMA NextKeepsConfig ==
  ASSUME IInv, RInv, [Next]_vars, NEW i \in Jobs,
         Exists(i)
  PROVE  /\ job[i].deleted => job'[i].deleted
         /\ ConfigKept(i) \/ Patching(i)
<1> USE ProcsAssumption DEF Workers, Requests, Procs
<1>1. ASSUME UNCHANGED job PROVE ConfigKept(i)
  BY <1>1 DEF ConfigKept
<1>2. CASE Advance \/ UNCHANGED vars
  BY <1>1, <1>2 DEF Advance, vars
<1>3. ASSUME NEW j \in Jobs, NEW st, NEW c, NEW m, Create(j, st, c, m)
      PROVE  ConfigKept(i)
  BY <1>3 DEF Create, ConfigKept, IInv, TypeOK
<1>4. ASSUME NEW j \in Jobs, Delete(j) PROVE ConfigKept(i)
  BY <1>4 DEF Delete, ConfigKept, IInv, TypeOK, Row
<1>5. ASSUME NEW p \in Workers, TickStep(p) PROVE ConfigKept(i)
  <2>1. CASE Start(p) \/ Succeed(p) \/ Fail(p)
    BY <2>1, WorkerKeepsConfig
  <2>2. ASSUME Select(p) \/ SelectNothing(p) \/ (\E j \in Jobs : DupCheck(p, j))
                 \/ StartConflict(p) \/ RolledBack(p) \/ EndTick(p)
        PROVE  ConfigKept(i)
    BY <1>1, <2>2
       DEF Select, SelectNothing, DupCheck, StartConflict, RolledBack, EndTick
  <2> QED BY <1>5, <2>1, <2>2 DEF TickStep
<1>6. ASSUME NEW p \in Requests, NEW j, NEW row, NEW next, Stage(p, j, row, next)
      PROVE  ConfigKept(i)
  BY <1>1, <1>6 DEF Stage
<1>7. ASSUME NEW p \in Forcers, ForceCommit(p) PROVE ConfigKept(i)
  <2>1. pc[p] = "forcing" /\ CommitEdit(p)
    BY <1>7 DEF ForceCommit
  <2>2. PICK j \in Jobs : /\ \A k \in Jobs \ {j} : job'[k] = job[k]
                         /\ job'[j] = [job[j] EXCEPT !.next = job'[j].next]
    BY <1>7, <2>1, EditedRow
  <2>3. ConfigKept(j)
    BY <2>2 DEF ConfigKept, IInv, TypeOK, Row
  <2>4. CASE i # j
    BY <2>2, <2>4 DEF ConfigKept
  <2> QED BY <2>3, <2>4
<1>8. ASSUME NEW p \in Patchers, PatchCommit(p)
      PROVE  /\ job[i].deleted => job'[i].deleted
             /\ ConfigKept(i) \/ Patching(i)
  <2>1. pc[p] = "patching" /\ CommitEdit(p) /\ pc'[p] = "done" /\ p \notin Forcers
    BY <1>8 DEF PatchCommit, IInv, TypeOK
  <2>2. p \in Requests /\ pc[p] # "forcing"
    BY <1>8, <2>1
  <2>3. PICK j \in Jobs : /\ j = edit[p].job
                          /\ \A k \in Jobs \ {j} : job'[k] = job[k]
                          /\ job'[j].deleted = job[j].deleted
    BY <2>1, <2>2, EditedRow
  <2>4. CASE i = j
    BY <1>8, <2>1, <2>3, <2>4 DEF Patching
  <2>5. CASE i # j
    BY <2>3, <2>5 DEF ConfigKept
  <2> QED BY <2>4, <2>5
<1>9. ASSUME NEW p \in Workers, Crash(p) PROVE ConfigKept(i)
  BY <1>1, <1>9 DEF Crash
<1>10. ConfigKept(i) => (job[i].deleted => job'[i].deleted)
  BY DEF ConfigKept
<1> QED BY <1>2, <1>3, <1>4, <1>5, <1>6, <1>7, <1>8, <1>9, <1>10
           DEF Next, ForceStep, PatchStep, ForceRead, PatchRead

(* However many ticks, forced runs, DELETEs and PATCHes overlap, only the   *)
(* commit of a PATCH changes a job's configuration or its version, and      *)
(* nothing brings a deleted job back.                                       *)
THEOREM ConfigIsKept == Spec => ConfigOnlyPatched
<1> DEFINE Kept == \A j \in Jobs : Exists(j) =>
                     /\ job[j].deleted => job'[j].deleted
                     /\ Patching(j) \/ /\ job'[j].cron = job[j].cron
                                       /\ job'[j].max = job[j].max
                                       /\ job'[j].version = job[j].version
                                       /\ job'[j].status \in {job[j].status, "DISABLED"}
<1>1. IInv /\ RInv /\ [Next]_vars => [Kept]_vars
  BY NextKeepsConfig DEF ConfigKept
<1> QED BY <1>1, Invariance, RowsInvariance, PTL DEF Spec, ConfigOnlyPatched

-----------------------------------------------------------------------------
(* Only the commit that settles a RUNNING row writes a verdict. *)
LEMMA NextKeepsVerdicts ==
  ASSUME IInv, [Next]_vars, NEW s \in DOMAIN exec, exec[s] # "RUNNING"
  PROVE  exec'[s] = exec[s]
<1>1. ASSUME UNCHANGED exec PROVE exec'[s] = exec[s]
  BY <1>1
<1>2. ASSUME NEW p \in Workers, TickStep(p) PROVE exec'[s] = exec[s]
  <2>1. CASE Start(p)
    BY <2>1 DEF Start, UniqueKey, Put
  <2>2. CASE Succeed(p) \/ Fail(p)
    <3>1. s # slot[p] /\ \E v : exec' = [exec EXCEPT ![slot[p]] = v]
      BY <2>2 DEF Succeed, Fail, Settle, Record, IInv, OwnedSlots
    <3> QED BY <3>1
  <2>3. ASSUME Select(p) \/ SelectNothing(p) \/ (\E j \in Jobs : DupCheck(p, j))
                 \/ StartConflict(p) \/ RolledBack(p) \/ EndTick(p)
        PROVE  exec'[s] = exec[s]
    BY <1>1, <2>3
       DEF Select, SelectNothing, DupCheck, StartConflict, RolledBack, EndTick
  <2> QED BY <1>2, <2>1, <2>2, <2>3 DEF TickStep
<1>3. ASSUME Advance \/ (\E j \in Jobs : Delete(j))
               \/ (\E j \in Jobs, st \in JobStatus, c \in Periods, m \in RetryLimits :
                     Create(j, st, c, m))
               \/ (\E p \in Workers : Crash(p)) \/ UNCHANGED vars
      PROVE  exec'[s] = exec[s]
  BY <1>1, <1>3 DEF Advance, Delete, Create, Crash, vars
<1>4. ASSUME NEW p, PatchStep(p) \/ ForceCommit(p) \/ (\E j \in Jobs : ForceRead(p, j))
      PROVE  exec'[s] = exec[s]
  BY <1>1, <1>4
     DEF PatchStep, PatchRead, PatchCommit, ForceCommit, ForceRead, CommitEdit, Stage
<1> QED BY <1>2, <1>3, <1>4 DEF Next, ForceStep, Workers

(* A verdict once written stays, however late a worker comes.               *)
THEOREM VerdictsStay == Spec => VerdictsAreFinal
<1> DEFINE Final == \A s \in DOMAIN exec : exec[s] # "RUNNING" => exec'[s] = exec[s]
<1>1. IInv /\ [Next]_vars => [Final]_vars
  BY NextKeepsVerdicts
<1> QED BY <1>1, Invariance, PTL DEF Spec, VerdictsAreFinal

-----------------------------------------------------------------------------
(* A worker that closes its session was running nothing. *)
LEMMA RestingLosesNothing ==
  ASSUME IInv, RunningIsOwned, UNCHANGED exec, NEW p,
         p \in Workers => pc[p] # "running",
         \A q \in Workers \ {p} : pc'[q] = pc[q] /\ slot'[q] = slot[q]
  PROVE  RunningIsOwned'
BY DEF RunningIsOwned

LEMMA NextKeepsOwners ==
  ASSUME IInv, RunningIsOwned, [Next]_vars, MaxCrashes = 0, "rollback" \notin Faults
  PROVE  RunningIsOwned'
<1> USE ProcsAssumption DEF Workers, Requests, Procs
<1>1. ASSUME UNCHANGED <<exec, pc, slot>> PROVE RunningIsOwned'
  BY <1>1 DEF RunningIsOwned
<1>2. ASSUME NEW p \in Workers, TickStep(p) PROVE RunningIsOwned'
  <2>1. CASE Start(p)
    <3>1. /\ pc' = [pc EXCEPT ![p] = "running"] /\ UNCHANGED slot
          /\ pc[p] = "checked"
          /\ exec' = Put(exec, slot[p], "RUNNING")
      BY <2>1 DEF Start
    <3>2. pc'[p] = "running" /\ \A q \in Workers \ {p} : pc'[q] = pc[q]
      BY <3>1 DEF IInv, TypeOK
    <3>3. \A s \in DOMAIN exec' : s # slot[p] => s \in DOMAIN exec /\ exec'[s] = exec[s]
      BY <3>1 DEF Put
    <3> QED BY <3>1, <3>2, <3>3 DEF RunningIsOwned
  <2>2. CASE Succeed(p) \/ Fail(p)
    <3>1. PICK v \in ExecStatus \ {"RUNNING"} : exec' = [exec EXCEPT ![slot[p]] = v]
      BY <2>2 DEF Succeed, Fail, Settle, Record, ExecStatus
    <3>2. \A q \in Workers \ {p} : pc'[q] = pc[q] /\ slot'[q] = slot[q]
      BY <2>2 DEF Succeed, Fail, Settle, IInv, TypeOK
    <3>3. \A s \in DOMAIN exec' : exec'[s] = "RUNNING" =>
            s # slot[p] /\ s \in DOMAIN exec /\ exec[s] = "RUNNING"
      BY <2>2, <3>1 DEF Succeed, Fail, IInv, OwnedSlots
    <3> QED BY <3>2, <3>3 DEF RunningIsOwned
  <2>3. CASE SelectNothing(p) \/ StartConflict(p) \/ EndTick(p)
    <3>1. UNCHANGED exec /\ pc[p] # "running" /\ CloseSession(p)
      BY <2>3 DEF SelectNothing, StartConflict, EndTick
    <3>2. \A q \in Workers \ {p} : pc'[q] = pc[q] /\ slot'[q] = slot[q]
      BY <3>1 DEF CloseSession, IInv, TypeOK
    <3> QED BY <3>1, <3>2, RestingLosesNothing
  <2>4. CASE Select(p) \/ \E j \in Jobs : DupCheck(p, j)
    <3>1. UNCHANGED exec /\ pc[p] # "running"
      BY <2>4 DEF Select, DupCheck
    <3>2. \A q \in Workers \ {p} : pc'[q] = pc[q] /\ slot'[q] = slot[q]
      BY <2>4 DEF Select, DupCheck, IInv, TypeOK
    <3> QED BY <3>1, <3>2, RestingLosesNothing
  <2>5. ~RolledBack(p)
    BY DEF RolledBack
  <2> QED BY <1>2, <2>1, <2>2, <2>3, <2>4, <2>5 DEF TickStep
<1>3. ASSUME Advance \/ (\E j \in Jobs : Delete(j))
               \/ (\E j \in Jobs, st \in JobStatus, c \in Periods, m \in RetryLimits :
                     Create(j, st, c, m)) \/ UNCHANGED vars
      PROVE  RunningIsOwned'
  BY <1>1, <1>3 DEF Advance, Delete, Create, vars
<1>4. ASSUME NEW p \in Requests,
             PatchStep(p) \/ ForceCommit(p) \/ (\E j \in Jobs : ForceRead(p, j))
      PROVE  RunningIsOwned'
  <2>1. /\ UNCHANGED <<exec, slot>> /\ pc[p] # "running"
        /\ \A q \in Workers \ {p} : pc'[q] = pc[q]
    BY <1>4 DEF PatchStep, PatchRead, PatchCommit, ForceCommit, ForceRead,
                CommitEdit, Stage, IInv, TypeOK
  <2> QED BY <2>1, RestingLosesNothing
<1>5. \A p : ~Crash(p)
  BY DEF Crash, IInv, TypeOK
<1> QED BY <1>2, <1>3, <1>4, <1>5 DEF Next, ForceStep

(* No RUNNING row is orphaned by a schedule: without crashes and rolled     *)
(* back sessions every one has a worker that will settle it.                *)
THEOREM RunningHasOwner ==
  ASSUME MaxCrashes = 0, "rollback" \notin Faults
  PROVE  Spec => []RunningIsOwned
<1>1. Init => RunningIsOwned
  BY DEF Init, RunningIsOwned
<1>2. IInv /\ RunningIsOwned /\ [Next]_vars => RunningIsOwned'
  BY NextKeepsOwners
<1> QED BY <1>1, <1>2, Invariance, PTL DEF Spec
=============================================================================
