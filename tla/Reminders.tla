------------------------------ MODULE Reminders ------------------------------
(***************************************************************************)
(* Reminders (ReminderEngine): generate_reminders writes PENDING rows for  *)
(* leads and tasks that need attention, process_reminders publishes a      *)
(* domain event for each and marks it DISPATCHED.  Both are handlers of    *)
(* scheduler jobs: they run in the session of a tick, and overlapping      *)
(* ticks run several of them at a time (see Scheduler).  What subscribers  *)
(* make of an event (Workflows) reaches the reminders through `due' only.  *)
(***************************************************************************)
EXTENDS Naturals, Sequences, FiniteSets

CONSTANTS
  Generators,  \* runs of generate_reminders that may overlap
  Sweeps,      \* runs of process_reminders that may overlap
  Targets,     \* [type, entity]: what a reminder may be about
  Copies,      \* bound: rows kept of one target
  MaxCrashes   \* bound: restarts of the process

Stages == <<"INACTIVITY", "DUE_TASK", "FOLLOW_UP">>
Rows   == Targets \X (1 .. Copies)

ASSUME TargetsAssumption == \A x \in Targets : \E n \in DOMAIN Stages : x.type = Stages[n]
ASSUME BoundsAssumption  == Copies \in Nat /\ MaxCrashes \in Nat

VARIABLES
  due,        \* targets that the SELECTs of the generator would return now
  reminder,   \* table reminders, committed; "NONE": no such row
  published,  \* rows whose event was published since they were inserted
  gen,        \* each generator: stage, rest of its list, the target of its
              \* INSERT in progress, uncommitted rows
  sweep,      \* each sweep: rest of its list, rows changed in its session
  crashes

vars == <<due, reminder, published, gen, sweep, crashes>>

IdleGen   == [pc |-> "idle", stage |-> 0, todo |-> {}, want |-> {}, mine |-> {}]
IdleSweep == [pc |-> "idle", todo |-> {}, done |-> {}]

Init ==
  /\ due       = {}
  /\ reminder  = [r \in Rows |-> "NONE"]
  /\ published = {}
  /\ gen       = [g \in Generators |-> IdleGen]
  /\ sweep     = [p \in Sweeps |-> IdleSweep]
  /\ crashes   = 0

-----------------------------------------------------------------------------
(* Time passes, leads and tasks are worked on. *)
BecomesDue(x) ==
  /\ x \notin due
  /\ due' = due \cup {x}
  /\ UNCHANGED <<reminder, published, gen, sweep, crashes>>

Attended(x) ==
  /\ x \in due
  /\ due' = due \ {x}
  /\ UNCHANGED <<reminder, published, gen, sweep, crashes>>

-----------------------------------------------------------------------------
(* ReminderEngine.generate_reminders. *)

Pending(x) == \E r \in Rows : r[1] = x /\ reminder[r] = "PENDING"

(* uq_pending_reminders lets a row in. *)
NoUniqueIndex(x) == TRUE   \* mutant
UniqueIndex(x)   == ~Pending(x)

HeldBy(h, x) == \E r \in gen[h].mine : r[1] = x

(* The INSERT waits for the end of a transaction that has a row of its own.  *)
NeverBlocked(g) == FALSE   \* mutant
Blocked(g)      == \E h \in Generators \ {g}, x \in gen[g].want : HeldBy(h, x)

Inserting(g, x) == x \in gen[g].want /\ ~Blocked(g)

(* A row nobody has in a list or a transaction stands for a new one. *)
Free(r) == /\ reminder[r] # "PENDING"
           /\ \A p \in Sweeps : r \notin sweep[p].todo \cup sweep[p].done
           /\ \A h \in Generators : r \notin gen[h].mine

AtStage(n, mine) ==
  [pc |-> "select", stage |-> n, todo |-> {}, want |-> {}, mine |-> mine]

StartGen(g) ==
  /\ gen[g].pc = "idle"
  /\ gen' = [gen EXCEPT ![g] = AtStage(1, {})]
  /\ UNCHANGED <<due, reminder, published, sweep, crashes>>

(* The stages: one SELECT and one loop each. *)
NoFollowUp(n)    == n = Len(Stages)   \* mutant
AllStagesDone(n) == n = Len(Stages) + 1

AllDue(n)  == due   \* mutant
OfStage(n) == {x \in due : x.type = Stages[n]}

SelectStage(g) ==
  /\ gen[g].pc = "select"
  /\ ~AllStagesDone(gen[g].stage)
  /\ gen' = [gen EXCEPT ![g].pc = "insert", ![g].todo = OfStage(gen[g].stage)]
  /\ UNCHANGED <<due, reminder, published, sweep, crashes>>

(* The lists are in no order. *)
IssueInsert(g, x) ==
  /\ x \in gen[g].todo
  /\ gen[g].want = {}
  /\ gen' = [gen EXCEPT ![g].todo = @ \ {x}, ![g].want = {x}]
  /\ UNCHANGED <<due, reminder, published, sweep, crashes>>

StageDone(g) ==
  /\ gen[g].pc = "insert"
  /\ gen[g].todo \cup gen[g].want = {}
  /\ gen' = [gen EXCEPT ![g] = AtStage(@.stage + 1, @.mine)]
  /\ UNCHANGED <<due, reminder, published, sweep, crashes>>

Inserted(g, r) ==
  /\ Inserting(g, r[1])
  /\ UniqueIndex(r[1])
  /\ Free(r)
  /\ \A m \in 1 .. r[2] - 1 : ~Free(<<r[1], m>>)
  /\ gen'       = [gen EXCEPT ![g].want = {}, ![g].mine = @ \cup {r}]
  /\ published' = published \ {r}
  /\ reminder'  = [reminder EXCEPT ![r] = "NONE"]
  /\ UNCHANGED <<due, sweep, crashes>>

(* A duplicate: the rollback takes the rows inserted before with it, and it *)
(* expires the list: reading the next lead or task raises MissingGreenlet   *)
(* out of the handler.                                                     *)
Duplicated(g, x) ==
  /\ Inserting(g, x)
  /\ ~UniqueIndex(x)
  /\ gen' = [gen EXCEPT ![g] = IF @.todo = {} THEN AtStage(@.stage + 1, {})
                                              ELSE IdleGen]
  /\ UNCHANGED <<due, reminder, published, sweep, crashes>>

(* Generators that wait for a row of each other: the database aborts one,   *)
(* and its error is not an IntegrityError.                                 *)
WaitsFor(g, h) == \E x \in gen[g].want : HeldBy(h, x)

DeadlockAbort(g) ==
  /\ \E h \in Generators \ {g} : WaitsFor(g, h) /\ WaitsFor(h, g)
  /\ gen' = [gen EXCEPT ![g] = IdleGen]
  /\ UNCHANGED <<due, reminder, published, sweep, crashes>>

CommitGen(g) ==
  /\ gen[g].pc = "select"
  /\ AllStagesDone(gen[g].stage)
  /\ reminder' = [r \in Rows |-> IF r \in gen[g].mine THEN "PENDING" ELSE reminder[r]]
  /\ gen'      = [gen EXCEPT ![g] = IdleGen]
  /\ UNCHANGED <<due, published, sweep, crashes>>

InsertOf(g, x) ==
  \/ \E r \in Rows : r[1] = x /\ Inserted(g, r)
  \/ Duplicated(g, x)

Generate(g) ==
  \/ StartGen(g) \/ SelectStage(g) \/ StageDone(g) \/ CommitGen(g)
  \/ \E x \in Targets : IssueInsert(g, x) \/ InsertOf(g, x)
  \/ DeadlockAbort(g)

-----------------------------------------------------------------------------
(* ReminderEngine.process_reminders. *)

(* Every type of reminder has an event. *)
SomeTypes(rows) == {r \in rows : r[1].type # "FOLLOW_UP"}   \* mutant
Listed(rows)    == rows

StartSweep(p) ==
  /\ sweep[p].pc = "idle"
  /\ sweep' = [sweep EXCEPT ![p] =
                 [pc |-> "sweep", done |-> {},
                  todo |-> Listed({r \in Rows : reminder[r] = "PENDING"})]]
  /\ UNCHANGED <<due, reminder, published, gen, crashes>>

(* The status changes in the session and the event goes out; an exception   *)
(* of a subscriber stays with the publisher.                               *)
PublishReminder(p, r) ==
  /\ sweep[p].pc = "sweep"
  /\ r \in sweep[p].todo
  /\ sweep'     = [sweep EXCEPT ![p].todo = @ \ {r}, ![p].done = @ \cup {r}]
  /\ published' = published \cup {r}
  /\ UNCHANGED <<due, reminder, gen, crashes>>

(* The rows the one commit of a sweep writes. *)
MarkedInBulk(p) == {r \in Rows : reminder[r] = "PENDING"}   \* mutant
Marked(p)       == sweep[p].done

CommitSweep(p) ==
  /\ sweep[p].pc = "sweep"
  /\ sweep[p].todo = {}
  /\ reminder' = [r \in Rows |-> IF r \in Marked(p) THEN "DISPATCHED" ELSE reminder[r]]
  /\ sweep'    = [sweep EXCEPT ![p] = IdleSweep]
  /\ UNCHANGED <<due, published, gen, crashes>>

Sweep(p) ==
  \/ StartSweep(p) \/ CommitSweep(p)
  \/ \E r \in Rows : PublishReminder(p, r)

Crash ==
  /\ crashes < MaxCrashes
  /\ crashes' = crashes + 1
  /\ gen'   = [g \in Generators |-> IdleGen]
  /\ sweep' = [p \in Sweeps |-> IdleSweep]
  /\ UNCHANGED <<due, reminder, published>>

Next ==
  \/ \E x \in Targets : BecomesDue(x) \/ Attended(x)
  \/ \E g \in Generators : Generate(g)
  \/ \E p \in Sweeps : Sweep(p)
  \/ Crash

Spec == Init /\ [][Next]_vars

(* The jobs recur; an INSERT that waits for another transaction goes on when *)
(* that ends, before one that comes later.                                 *)
FairSpec == /\ Spec
            /\ \A g \in Generators :
                 WF_vars(Generate(g)) /\ \A x \in Targets : SF_vars(InsertOf(g, x))
            /\ \A p \in Sweeps : WF_vars(Sweep(p))
-----------------------------------------------------------------------------
(* Type correctness; a generator inserts what the SELECT of its stage is for. *)
TypeOK ==
  /\ due \subseteq Targets
  /\ reminder \in [Rows -> {"NONE", "PENDING", "DISPATCHED"}]
  /\ published \subseteq Rows
  /\ gen \in [Generators -> [pc : {"idle", "select", "insert"},
                             stage : 0 .. Len(Stages) + 1,
                             todo : SUBSET Targets, want : SUBSET Targets,
                             mine : SUBSET Rows]]
  /\ sweep \in [Sweeps -> [pc : {"idle", "sweep"}, todo : SUBSET Rows, done : SUBSET Rows]]
  /\ \A g \in Generators : \A x \in gen[g].todo \cup gen[g].want :
       gen[g].stage \in DOMAIN Stages /\ x.type = Stages[gen[g].stage]
  /\ crashes \in 0 .. MaxCrashes

(* Only one active reminder can exist per target, however generators and     *)
(* sweeps overlap.                                                         *)
OnePendingPerTarget ==
  \A r, q \in Rows :
    r[1] = q[1] /\ reminder[r] = "PENDING" /\ reminder[q] = "PENDING" => r = q

(* No reminder is marked DISPATCHED without its event: not one that arrived  *)
(* after the sweep's SELECT, and not one a crash took from it.             *)
DispatchedWasPublished ==
  \A r \in Rows : reminder[r] = "DISPATCHED" => r \in published

(* A generator's row reaches the table in one piece with the others of its   *)
(* transaction, and only if nobody has committed one for its target.       *)
Uncommitted ==
  \A g \in Generators : \A r \in gen[g].mine :
    /\ reminder[r] = "NONE"
    /\ ~Pending(r[1])
    /\ \A h \in Generators \ {g} : ~HeldBy(h, r[1])

(* A lead or task that needs attention gets a reminder, unless it is         *)
(* attended to: duplicates of others, which roll the generator back, do not *)
(* hold it up for ever.                                                    *)
DueIsReminded == \A x \in Targets : (x \in due) ~> (x \notin due \/ Pending(x))

(* Every reminder's event is published. *)
Published(x) == \E r \in published : r[1] = x

PendingIsPublished == \A x \in Targets : Pending(x) ~> Published(x)

(* A lead or task has at most one open reminder, which is closed only after  *)
(* its event: what overlapping runs and crashes leave of the table.        *)
Book == INSTANCE ReminderBook WITH
          open <- {x \in Targets : Pending(x)},
          told <- {x \in Targets : \E r \in published :
                                     r[1] = x /\ reminder[r] = "PENDING"}

BookSpec == Book!Spec
=============================================================================
