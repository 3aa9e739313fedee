------------------------------ MODULE Scheduler ------------------------------
(***************************************************************************)
(* The multi-tenant job scheduler: SchedulerService.tick run by the        *)
(* polling loop of several backend instances, and the HTTP routes that     *)
(* create, patch, delete and force-run a scheduled job, over the tables    *)
(* scheduled_jobs and job_executions.                                      *)
(*                                                                         *)
(* Every process works in a database session of its own.  A session keeps  *)
(* the attribute values it loaded (expire_on_commit is off), so a process  *)
(* decides on its `copy' of a row and the flush writes only the columns it *)
(* changed.  Time is counted in seconds, the resolution of execution_key.  *)
(***************************************************************************)
EXTENDS Integers, FiniteSets

CONSTANTS
  Jobs,         \* identities a scheduled job can be created under
  Pollers,      \* backend instances, each with its polling loop
  Forcers,      \* "run now" requests, one call each
  Patchers,     \* PATCH requests, one call each
  Periods,      \* cron expressions, as the distance between two slots
  Minute,       \* 60 in the code
  Croniter,     \* whether croniter is installed: no requirements file lists it
  FallbackMinutes, \* 5 in the code: the step of DummyCroniter
  RetryLimits,  \* values of max_retries
  BackoffUnit,  \* 60 in the code
  MaxBackoff,   \* 3600 in the code
  Faults,       \* which of "error", "rollback" a job handler may end in
  MaxCrashes,   \* bound: instance crashes
  MaxTime,      \* bound: the clock
  None          \* no owner, no slot, no edit

Requests == Forcers \cup Patchers
Workers  == Pollers \cup Forcers
Procs    == Workers \cup Patchers

ASSUME MinuteAssumption  == /\ Minute \in Nat \ {0} /\ FallbackMinutes \in Nat \ {0}
                            /\ Croniter \in BOOLEAN
ASSUME PeriodsAssumption == /\ Periods \subseteq Nat \ {0} /\ Periods # {}
                            /\ \A c \in Periods : c % Minute = 0 \/ Minute % c = 0
ASSUME LimitsAssumption  == RetryLimits \subseteq Nat
ASSUME BackoffAssumption == BackoffUnit \in Nat \ {0} /\ MaxBackoff \in Nat \ {0}
ASSUME BoundsAssumption  == MaxCrashes \in Nat /\ MaxTime \in Nat \ {0}
ASSUME ProcsAssumption   == Pollers \cap Requests = {} /\ Forcers \cap Patchers = {}
ASSUME NoneAssumption    == None \notin Procs /\ None \notin Jobs \X Nat

VARIABLES
  now,      \* the clock
  job,      \* table scheduled_jobs, committed contents
  exec,     \* table job_executions: <<job, execution_key>> -> status
  lock,     \* row locks of SELECT ... FOR UPDATE: job -> session
  pc,       \* where each process is
  copy,     \* rows each session has loaded, as the session sees them
  todo,     \* rest of the due list of a tick
  slot,     \* <<job, key>> a tick is dealing with
  at,       \* `now' as the tick read it
  edit,     \* row a request is about to commit
  crashes

vars == <<now, job, exec, lock, pc, copy, todo, slot, at, edit, crashes>>

-----------------------------------------------------------------------------
(* PAUSED stands for SYSTEM as well: the code only asks for ACTIVE. *)
JobStatus  == {"ACTIVE", "PAUSED", "DISABLED"}
ExecStatus == {"RUNNING", "SUCCESS", "RETRYING", "DEAD_LETTER"}

Time  == Nat
Slots == Jobs \X Time

Row == [status : JobStatus \cup {"NONE"}, next : Time, cron : Periods,
        max : Nat, retry : Nat, version : Nat, deleted : BOOLEAN]

NoRow == [status |-> "NONE", next |-> 0, cron |-> CHOOSE c \in Periods : TRUE,
          max |-> 0, retry |-> 0, version |-> 0, deleted |-> FALSE]

Exists(j)  == job[j].status # "NONE"
Visible(j) == Exists(j) /\ ~job[j].deleted   \* what the routes can find

NoCopy == [j \in {} |-> NoRow]

ToMinute(t) == (t \div Minute) * Minute

NextSlotAtOrAfter(c, t) == ((ToMinute(t) + c - 1) \div c) * c   \* mutant
NextSlotFromNow(c, t)   == (ToMinute(now) \div c + 1) * c       \* mutant

(* get_next_run: the base is cut to the minute before croniter is asked for *)
(* the slot after it, so an expression with a seconds field (a period that  *)
(* divides the minute) may be given the slot it stands on, or an earlier    *)
(* one.  Without croniter DummyCroniter ignores the expression.             *)
NextSlot(c, t) == IF Croniter THEN (ToMinute(t) \div c + 1) * c
                  ELSE ToMinute(t) + FallbackMinutes * Minute

RetryDelay(r) == LET d == BackoffUnit * 2^r
                 IN IF d \in 0 .. MaxBackoff THEN d ELSE MaxBackoff

(* An UPDATE of the columns that differ between the loaded row `old' and    *)
(* the session's row `new', applied to the committed row.                   *)
Column(row, old, new) == IF new # old THEN new ELSE row

FlushWholeRow(row, old, new) == new   \* mutant

Flush(row, old, new) ==
  [status  |-> Column(row.status, old.status, new.status),
   next    |-> Column(row.next, old.next, new.next),
   cron    |-> Column(row.cron, old.cron, new.cron),
   max     |-> Column(row.max, old.max, new.max),
   retry   |-> Column(row.retry, old.retry, new.retry),
   version |-> Column(row.version, old.version, new.version),
   deleted |-> Column(row.deleted, old.deleted, new.deleted)]

(* An UPDATE waits while another session holds the row. *)
Writable(p, j) == lock[j] \in {None, p}

Unlocked(p) == [j \in Jobs |-> IF lock[j] = p THEN None ELSE lock[j]]

NoUniqueKey(s) == TRUE   \* mutant

(* uq_job_executions_key lets the slot in. *)
UniqueKey(s) == s \notin DOMAIN exec

RecordSuccessOnly(s, v) == IF v = "SUCCESS" THEN [exec EXCEPT ![s] = v] ELSE exec  \* mutant
RecordFailed(s, v) == [exec EXCEPT ![s] = IF v = "SUCCESS" THEN v ELSE "FAILED"]   \* mutant

Record(s, v) == [exec EXCEPT ![s] = v]

MoreThanMax(r, max) == r > max   \* mutant

OutOfRetries(r, max) == r >= max

DuplicateJob(s) == \E x \in DOMAIN exec : x[1] = s[1]   \* mutant

(* What the duplicate check finds: a row with this job and execution_key. *)
Duplicate(s) == s \in DOMAIN exec

Put(f, x, v) == [y \in DOMAIN f \cup {x} |-> IF y = x THEN v ELSE f[y]]

-----------------------------------------------------------------------------
(* Where a process goes when its tick is over; the session is closed. *)
Rest(p) == IF p \in Pollers THEN "idle" ELSE "done"

CloseSession(p) ==
  /\ pc' = [pc EXCEPT ![p] = Rest(p)]
  /\ lock' = Unlocked(p)
  /\ copy' = [copy EXCEPT ![p] = NoCopy]
  /\ todo' = [todo EXCEPT ![p] = {}]
  /\ slot' = [slot EXCEPT ![p] = None]
  /\ at' = [at EXCEPT ![p] = 0]

Init ==
  /\ now = 1
  /\ job = [j \in Jobs |-> NoRow]
  /\ exec = [s \in {} |-> "RUNNING"]
  /\ lock = [j \in Jobs |-> None]
  /\ pc = [p \in Procs |-> IF p \in Pollers THEN "idle" ELSE "new"]
  /\ copy = [p \in Procs |-> NoCopy]
  /\ todo = [p \in Workers |-> {}]
  /\ slot = [p \in Workers |-> None]
  /\ at = [p \in Workers |-> 0]
  /\ edit = [p \in Requests |-> None]
  /\ crashes = 0

Advance ==
  /\ now < MaxTime
  /\ now' = now + 1
  /\ UNCHANGED <<job, exec, lock, pc, copy, todo, slot, at, edit, crashes>>

-----------------------------------------------------------------------------
(* The tick.                                                                *)

Due == {j \in Jobs : /\ job[j].status = "ACTIVE"
                     /\ job[j].next <= now
                     /\ lock[j] = None}

(* SELECT ... FOR UPDATE SKIP LOCKED.  A row the session already holds in   *)
(* its identity map keeps the values it was loaded with.                    *)
Select(p) ==
  /\ pc[p] = IF p \in Pollers THEN "idle" ELSE "forced"
  /\ Due # {}
  /\ pc' = [pc EXCEPT ![p] = "ticking"]
  /\ lock' = [j \in Jobs |-> IF j \in Due THEN p ELSE lock[j]]
  /\ copy' = [copy EXCEPT ![p] =
                [j \in Due \cup DOMAIN copy[p] |->
                   IF j \in DOMAIN copy[p] THEN copy[p][j] ELSE job[j]]]
  /\ todo' = [todo EXCEPT ![p] = Due]
  /\ at' = [at EXCEPT ![p] = now]
  /\ UNCHANGED <<now, job, exec, slot, edit, crashes>>

(* Nothing due: the poller sleeps on, the request answers. *)
SelectNothing(p) ==
  /\ p \in Forcers
  /\ pc[p] = "forced"
  /\ Due = {}
  /\ CloseSession(p)
  /\ UNCHANGED <<now, job, exec, edit, crashes>>

(* The select on (job_id, execution_key): a slot that has a row is skipped. *)
DupCheck(p, j) ==
  /\ pc[p] = "ticking"
  /\ j \in todo[p]
  /\ LET s == <<j, copy[p][j].next>>
     IN IF Duplicate(s)
        THEN /\ todo' = [todo EXCEPT ![p] = @ \ {j}]
             /\ UNCHANGED <<pc, slot>>
        ELSE /\ pc' = [pc EXCEPT ![p] = "checked"]
             /\ slot' = [slot EXCEPT ![p] = s]
             /\ UNCHANGED todo
  /\ UNCHANGED <<now, job, exec, lock, copy, at, edit, crashes>>

(* INSERT the RUNNING row, move next_run_at, commit: the first commit of a  *)
(* tick releases every row the select locked.                               *)
Start(p) ==
  /\ pc[p] = "checked"
  /\ UniqueKey(slot[p])
  /\ LET j   == slot[p][1]
         old == copy[p][j]
         new == [old EXCEPT !.next = NextSlot(old.cron, old.next)]
     IN /\ Writable(p, j)
        /\ job' = [job EXCEPT ![j] = Flush(@, old, new)]
        /\ copy' = [copy EXCEPT ![p][j] = new]
  /\ exec' = Put(exec, slot[p], "RUNNING")
  /\ lock' = Unlocked(p)
  /\ pc' = [pc EXCEPT ![p] = "running"]
  /\ UNCHANGED <<now, todo, slot, at, edit, crashes>>

(* The INSERT hits uq_job_executions_key: the exception leaves the tick.    *)
StartConflict(p) ==
  /\ pc[p] = "checked"
  /\ Writable(p, slot[p][1])
  /\ ~UniqueKey(slot[p])
  /\ CloseSession(p)
  /\ UNCHANGED <<now, job, exec, edit, crashes>>

(* The commit that ends an execution: the row of its slot gets its verdict, *)
(* the job the columns of `new' that changed.                               *)
Settle(p, verdict, new) ==
  LET j == slot[p][1]
  IN /\ new # copy[p][j] => Writable(p, j)
     /\ job' = [job EXCEPT ![j] = Flush(@, copy[p][j], new)]
     /\ copy' = [copy EXCEPT ![p][j] = new]
     /\ exec' = Record(slot[p], verdict)
     /\ todo' = [todo EXCEPT ![p] = @ \ {j}]
     /\ slot' = [slot EXCEPT ![p] = None]
     /\ pc' = [pc EXCEPT ![p] = "ticking"]
     /\ UNCHANGED <<now, lock, at, edit, crashes>>

Succeed(p) ==
  /\ pc[p] = "running"
  /\ Settle(p, "SUCCESS", [copy[p][slot[p][1]] EXCEPT !.retry = 0])

Fail(p) ==
  /\ pc[p] = "running"
  /\ "error" \in Faults
  /\ LET old == copy[p][slot[p][1]]
         r   == old.retry + 1
     IN IF OutOfRetries(r, old.max)
        THEN Settle(p, "DEAD_LETTER",
                    [old EXCEPT !.retry = r, !.status = "DISABLED"])
        ELSE Settle(p, "RETRYING",
                    [old EXCEPT !.retry = r, !.next = at[p] + RetryDelay(r)])

(* The handler rolled the tick's session back (a reminder hit its unique    *)
(* index): every loaded object is expired, reading job.retry_count fails    *)
(* again inside the except block, and the tick is abandoned.                *)
RolledBack(p) ==
  /\ pc[p] = "running"
  /\ "rollback" \in Faults
  /\ CloseSession(p)
  /\ UNCHANGED <<now, job, exec, edit, crashes>>

EndTick(p) ==
  /\ pc[p] = "ticking"
  /\ todo[p] = {}
  /\ CloseSession(p)
  /\ UNCHANGED <<now, job, exec, edit, crashes>>

(* The instance dies; the database rolls its transaction back.  A poller is *)
(* started again.                                                           *)
Crash(p) ==
  /\ pc[p] \in {"ticking", "checked", "running"}
  /\ crashes < MaxCrashes
  /\ crashes' = crashes + 1
  /\ CloseSession(p)
  /\ UNCHANGED <<now, job, exec, edit>>

TickStep(p) ==
  \/ Select(p)
  \/ SelectNothing(p)
  \/ \E j \in Jobs : DupCheck(p, j)
  \/ Start(p)
  \/ StartConflict(p)
  \/ Succeed(p)
  \/ Fail(p)
  \/ RolledBack(p)
  \/ EndTick(p)

-----------------------------------------------------------------------------
(* The routes.                                                              *)

(* max_retries = 0 is replaced by the default 3 (`req.max_retries or 3'). *)
CreateLimit(m) == IF m = 0 THEN 3 ELSE m

Create(j, st, c, m) ==
  /\ ~Exists(j)
  /\ job' = [job EXCEPT ![j] =
       [status |-> st, next |-> NextSlot(c, now), cron |-> c,
        max |-> CreateLimit(m), retry |-> 0, version |-> 1, deleted |-> FALSE]]
  /\ UNCHANGED <<now, exec, lock, pc, copy, todo, slot, at, edit, crashes>>

Delete(j) ==
  /\ Visible(j)
  /\ lock[j] = None
  /\ job' = [job EXCEPT ![j].deleted = TRUE]
  /\ UNCHANGED <<now, exec, lock, pc, copy, todo, slot, at, edit, crashes>>

(* A request loads the row and changes it in its session. *)
Stage(p, j, row, next) ==
  /\ pc[p] = "new"
  /\ Visible(j)
  /\ pc' = [pc EXCEPT ![p] = next]
  /\ copy' = [copy EXCEPT ![p] = [i \in {j} |-> job[j]]]
  /\ edit' = [edit EXCEPT ![p] = [job |-> j, row |-> row]]
  /\ UNCHANGED <<now, job, exec, lock, todo, slot, at, crashes>>

(* ... and commits it; the UPDATE is by primary key only. *)
CommitEdit(p) ==
  LET j == edit[p].job
  IN /\ Writable(p, j)
     /\ job' = [job EXCEPT ![j] = Flush(@, copy[p][j], edit[p].row)]
     /\ edit' = [edit EXCEPT ![p] = None]
     /\ UNCHANGED <<now, exec, lock, todo, slot, at, crashes>>

(* PATCH: the client's version must be the one just read.  A new cron or    *)
(* status recomputes next_run_at if the job is ACTIVE.                      *)
Patched(old, st, c, m) ==
  [old EXCEPT !.status = st, !.cron = c, !.max = m, !.version = @ + 1,
              !.next = IF (st # old.status \/ c # old.cron) /\ st = "ACTIVE"
                       THEN NextSlot(c, now) ELSE @]

PatchRead(p, j, v, st, c, m) ==
  /\ v = job[j].version
  /\ Stage(p, j, Patched(job[j], st, c, m), "patching")

PatchCommit(p) ==
  /\ pc[p] = "patching"
  /\ CommitEdit(p)
  /\ pc' = [pc EXCEPT ![p] = "done"]
  /\ copy' = [copy EXCEPT ![p] = NoCopy]

(* POST .../run: next_run_at goes one second into the past, then a tick     *)
(* runs in the request's session.                                           *)
ForceRead(p, j) == Stage(p, j, [job[j] EXCEPT !.next = now - 1], "forcing")

ForceCommit(p) ==
  /\ pc[p] = "forcing"
  /\ CommitEdit(p)
  /\ pc' = [pc EXCEPT ![p] = "forced"]
  /\ copy' = [copy EXCEPT ![p] = [j \in {edit[p].job} |-> edit[p].row]]

ForceStep(p) == (\E j \in Jobs : ForceRead(p, j)) \/ ForceCommit(p) \/ TickStep(p)

PatchStep(p) ==
  \/ \E j \in Jobs, st \in JobStatus, c \in Periods, m \in RetryLimits :
       \E v \in 1 .. job[j].version : PatchRead(p, j, v, st, c, m)
  \/ PatchCommit(p)

-----------------------------------------------------------------------------
Next ==
  \/ Advance
  \/ \E j \in Jobs, st \in JobStatus, c \in Periods, m \in RetryLimits :
       Create(j, st, c, m)
  \/ \E j \in Jobs : Delete(j)
  \/ \E p \in Pollers : TickStep(p)
  \/ \E p \in Forcers : ForceStep(p)
  \/ \E p \in Patchers : PatchStep(p)
  \/ \E p \in Workers : Crash(p)

Spec == Init /\ [][Next]_vars

(* The loop of every instance keeps ticking, a forced tick runs to its end, *)
(* and a handler returns or fails.                                          *)
Fairness == \A p \in Workers : WF_vars(TickStep(p))

FairSpec == Spec /\ Fairness

-----------------------------------------------------------------------------
(* Properties.                                                              *)

Running(p) == p \in Workers /\ pc[p] = "running"

(* Every variable has its type: the tables, the sessions and the locks.     *)
TypeOK ==
  /\ now \in Time \ {0}
  /\ job \in [Jobs -> Row]
  /\ DOMAIN exec \subseteq Slots
  /\ \A s \in DOMAIN exec : exec[s] \in ExecStatus
  /\ lock \in [Jobs -> Workers \cup {None}]
  /\ pc \in [Procs -> {"new", "idle", "patching", "forcing", "forced",
                       "ticking", "checked", "running", "done"}]
  /\ DOMAIN copy = Procs
  /\ \A p \in Procs : /\ DOMAIN copy[p] \subseteq Jobs
                      /\ \A j \in DOMAIN copy[p] : copy[p][j] \in Row
  /\ todo \in [Workers -> SUBSET Jobs]
  /\ slot \in [Workers -> Slots \cup {None}]
  /\ at \in [Workers -> Time]
  /\ edit \in [Requests -> [job : Jobs, row : Row] \cup {None}]
  /\ crashes \in Nat

(* No two instances ever work on the same slot of a job, and whoever works  *)
(* on a slot finds its own RUNNING row there: the unique index and the      *)
(* commit before the handler are what make the stale due lists harmless.    *)
OwnedSlots ==
  \A p \in Workers : pc[p] = "running" =>
    /\ slot[p] \in DOMAIN exec
    /\ exec[slot[p]] = "RUNNING"
    /\ \A q \in Workers \ {p} : pc[q] = "running" => slot[q] # slot[p]

(* A settled execution is history: no late worker rewrites its verdict.     *)
VerdictsAreFinal ==
  [][\A s \in DOMAIN exec : exec[s] # "RUNNING" => exec'[s] = exec[s]]_vars

(* A PATCH of job j commits. *)
Patching(j) ==
  \E p \in Patchers : pc[p] = "patching" /\ pc'[p] = "done" /\ edit[p].job = j

(* Only the commit of a PATCH changes cron_expression, max_retries or        *)
(* version, and only it gives a job another status than DISABLED: ticks,    *)
(* forced runs and DELETEs write from rows they loaded before the PATCH and *)
(* never take any of it back.  Nothing, a PATCH from a row read before the  *)
(* DELETE included, brings a deleted job back.                              *)
ConfigOnlyPatched ==
  [][\A j \in Jobs : Exists(j) =>
       /\ job[j].deleted => job'[j].deleted
       /\ Patching(j) \/ /\ job'[j].cron = job[j].cron
                         /\ job'[j].max = job[j].max
                         /\ job'[j].version = job[j].version
                         /\ job'[j].status \in {job[j].status, "DISABLED"}]_vars

(* Until it is PATCHed, a job that is still ACTIVE has attempts left, and    *)
(* one with a dead-lettered execution is DISABLED, however ticks overlap.   *)
RetryBudget ==
  \A j \in Jobs : job[j].version = 1 =>
    /\ job[j].status = "ACTIVE" => job[j].retry < job[j].max
    /\ (\E s \in DOMAIN exec : s[1] = j /\ exec[s] = "DEAD_LETTER")
         => job[j].status = "DISABLED"

Retried(j) == \E s \in DOMAIN exec : s[1] = j /\ exec[s] = "RETRYING"

(* Nobody has retried, patched or forced: next_run_at is what ticks made it. *)
Undisturbed(j) == /\ job[j].version = 1
                  /\ ~Retried(j)
                  /\ \A f \in Forcers : pc[f] \in {"new", "forcing"}

(* Schedules that leave the minute they are in: all without a seconds field, *)
(* and all where croniter is missing.                                        *)
MovesOn(c) == Croniter => c % Minute = 0

Steady(j) == Undisturbed(j) /\ MovesOn(job[j].cron)

(* The distance between two slots of such a schedule, as the code steps.    *)
Step(c) == IF Croniter THEN c ELSE FallbackMinutes * Minute

(* Until a job is retried, patched or forced, and unless its expression has *)
(* a seconds field, next_run_at is past every slot that has a row, however  *)
(* ticks overlap: the duplicate check, which skips such a slot without      *)
(* moving next_run_at, never leaves the job stuck on one.                   *)
NextSlotFresh ==
  \A s \in DOMAIN exec : Steady(s[1]) => s[2] < job[s[1]].next

(* Catch-up after an outage skips no slot: from the first slot of such a    *)
(* job that was started to next_run_at every slot of its schedule has a row *)
(* (whether that row is ever settled is another matter).                    *)
CatchUpComplete ==
  \A s \in DOMAIN exec : Steady(s[1]) =>
    \A t \in s[2] .. job[s[1]].next - 1 :
      (t - s[2]) % Step(job[s[1]].cron) = 0 => <<s[1], t>> \in DOMAIN exec

(* While no handler rolls back and no instance dies, a RUNNING row has a    *)
(* worker that will settle it.                                              *)
RunningIsOwned ==
  \A s \in DOMAIN exec : exec[s] = "RUNNING" =>
    \E p \in Workers : pc[p] = "running" /\ slot[p] = s

(* The due slot of an ACTIVE job, if it has no row yet, gets one, whatever  *)
(* retries, PATCHes and forced runs come in between, unless next_run_at     *)
(* moves or the job stops being ACTIVE.  Of a due slot that has a row       *)
(* nothing is promised: the duplicate check skips it and leaves it due.     *)
DueSlotRuns ==
  \A j \in Jobs, t \in 0 .. MaxTime :
    (job[j].status = "ACTIVE" /\ job[j].next = t /\ t <= now /\ <<j, t>> \notin DOMAIN exec)
      ~> \/ <<j, t>> \in DOMAIN exec
         \/ job[j].status # "ACTIVE"
         \/ job[j].next # t

(* ADR-008: instances do not execute the same job simultaneously.           *)
OneRunnerPerJob ==
  \A p, q \in Workers :
    (pc[p] = "running" /\ pc[q] = "running" /\ p # q) => slot[p][1] # slot[q][1]

(* What the job_executions table promises its readers, and how the          *)
(* scheduler implements it.                                                 *)
Ledger == INSTANCE SlotLedger WITH
            Slots <- Jobs \X (0 .. MaxTime),
            rows <- exec,
            work <- [p \in Workers |-> IF pc[p] = "running" THEN slot[p] ELSE None]

LedgerSpec == Ledger!Spec
=============================================================================
