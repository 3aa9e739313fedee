-------------------------------- MODULE Crm --------------------------------
(* Leads, their tags and their tasks: lead_service.py and task_service.py.  *)
(* A request reads in one step and writes and commits in a later one; what  *)
(* it read is in its call. Every write is one statement followed by the     *)
(* commit, so a request that would wait for a row lock is one whose write   *)
(* step comes later; only the row of lead numbers is locked across steps.   *)
EXTENDS Integers, FiniteSets, Sequences

CONSTANTS Lead, Task, Tag,   \* identifiers still to be drawn
          Contact,           \* normalized e-mail addresses and phone numbers
          TagName, Request, None

CONSTANT MaxCalls            \* bound: calls started

VARIABLES
  lead,       \* rows of leads
  task,       \* rows of tasks
  tag,        \* names of lead_tags
  tagged,     \* rows of lead_tag_assignments
  history,    \* lead_activities of each lead, oldest first
  timeline,   \* task_activities of each task, oldest first
  sequence,   \* organization_sequences.next_lead_number, None: no row yet
  call,       \* what each request has in hand
  calls       \* calls started so far

vars == <<lead, task, tag, tagged, history, timeline, sequence, call, calls>>
leadVars == <<lead, history, sequence>>
tagVars  == <<tag, tagged>>
taskVars == <<task, timeline>>

TaskStatus == {"OPEN", "IN_PROGRESS", "COMPLETED", "CANCELLED"}

(* The statuses that update_task lets a task take. *)
ValidTransitions ==
  [s \in TaskStatus |->
     CASE s = "OPEN"        -> {"IN_PROGRESS", "COMPLETED", "CANCELLED"}
       [] s = "IN_PROGRESS" -> {"COMPLETED", "CANCELLED"}
       [] OTHER             -> {"OPEN"}]

FirstNumber == 1001

LeadRow == [number : Nat, contact : Contact, version : Nat, deleted : BOOLEAN]

TaskRow == [lead : Lead, status : TaskStatus, completed : BOOLEAN,
            version : Nat, deleted : BOOLEAN]

LeadEntry == [type : {"CREATED", "UPDATED", "NOTE_ADDED"}]
               \cup [type : {"TAG_ADDED", "TAG_REMOVED"}, tag : Tag]

TaskEntry == [type : {"CREATED", "UPDATED", "COMPLETED", "REOPENED", "CANCELLED"},
              from : TaskStatus, to : TaskStatus]

TaskOp == {"update", "complete", "reopen", "cancel"}

Idle == [at |-> "idle"]

Creation == [at : {"numbering", "first"}, contact : Contact]
Numbered == [at : {"numbered"}, contact : Contact, number : Nat]
Patch    == [at : {"patching"}, lead : Lead, version : Nat, contact : Contact]
Naming   == [at : {"naming"}, name : TagName]
Tagging  == [at : {"tagging", "untagging"}, lead : Lead, tag : Tag]
Addition == [at : {"adding"}, lead : Lead]
Change   == [at : {"changing"}, task : Task, op : TaskOp, to : TaskStatus,
             row : TaskRow]

Call == {Idle} \cup Creation \cup Numbered \cup Patch \cup Naming \cup Tagging
          \cup Addition \cup Change

ASSUME NoneAssumption ==
  /\ None \notin Nat
  /\ None \notin LeadRow
  /\ None \notin TaskRow
  /\ None \notin TagName

LiveLead(l) == lead[l] # None /\ ~lead[l].deleted
LiveTask(t) == task[t] # None /\ ~task[t].deleted

Init ==
  /\ lead = [l \in Lead |-> None]
  /\ task = [t \in Task |-> None]
  /\ tag = [g \in Tag |-> None]
  /\ tagged = {}
  /\ history = [l \in Lead |-> << >>]
  /\ timeline = [t \in Task |-> << >>]
  /\ sequence \in {None, FirstNumber}
  /\ call = [r \in Request |-> Idle]
  /\ calls = 0

Starts(r, c) ==
  /\ call[r] = Idle
  /\ calls < MaxCalls
  /\ calls' = calls + 1
  /\ call' = [call EXCEPT ![r] = c]

(* A call that reads, writes and commits at once. *)
AtOnce(r) ==
  /\ call[r] = Idle
  /\ calls < MaxCalls
  /\ calls' = calls + 1
  /\ UNCHANGED call

Moves(r, c) ==
  /\ call' = [call EXCEPT ![r] = c]
  /\ UNCHANGED calls

Ends(r) == Moves(r, Idle)

(***************************************************************************)
(* Leads.                                                                  *)
(***************************************************************************)

(* email_exists and phone_exists: what other live leads are reached by. *)
Taken(c, but) ==
  \E l \in Lead \ but : LiveLead(l) /\ lead[l].contact = c

CreateLead(r, c) ==
  /\ ~Taken(c, {})
  /\ Starts(r, [at |-> "numbering", contact |-> c])
  /\ UNCHANGED <<leadVars, tagVars, taskVars>>

(* SELECT ... FOR UPDATE waits while another transaction has the row. *)
\* mutant
NumbersUnlocked(r) == TRUE

NumbersFree(r) == \A q \in Request \ {r} : call[q].at # "numbered"

TakeNumber(r) ==
  /\ call[r].at = "numbering"
  /\ sequence # None
  /\ NumbersFree(r)
  /\ Moves(r, [at |-> "numbered", contact |-> call[r].contact,
               number |-> sequence])
  /\ UNCHANGED <<leadVars, tagVars, taskVars>>

NoSequenceYet(r) ==
  /\ call[r].at = "numbering"
  /\ sequence = None
  /\ Moves(r, [at |-> "first", contact |-> call[r].contact])
  /\ UNCHANGED <<leadVars, tagVars, taskVars>>

(* The first row of the organization: its key makes a second insert wait   *)
(* for the first and then fail.                                            *)
InsertSequence(r) ==
  /\ call[r].at = "first"
  /\ NumbersFree(r)
  /\ IF sequence = None
       THEN Moves(r, [at |-> "numbered", contact |-> call[r].contact,
                      number |-> FirstNumber])
       ELSE Ends(r)
  /\ UNCHANGED <<leadVars, tagVars, taskVars>>

InsertLead(r, l) ==
  /\ call[r].at = "numbered"
  /\ lead[l] = None
  /\ lead' = [lead EXCEPT ![l] =
                [number |-> call[r].number, contact |-> call[r].contact,
                 version |-> 1, deleted |-> FALSE]]
  /\ sequence' = call[r].number + 1
  /\ history' = [history EXCEPT ![l] = Append(@, [type |-> "CREATED"])]
  /\ Ends(r)
  /\ UNCHANGED <<tagVars, taskVars>>

(* An exception or a crash before the commit: nothing of it stays. *)
Abort(r) ==
  /\ call[r] # Idle
  /\ Ends(r)
  /\ UNCHANGED <<leadVars, tagVars, taskVars>>

PatchLead(r, l, c) ==
  /\ LiveLead(l)
  /\ c = lead[l].contact \/ ~Taken(c, {l})
  /\ Starts(r, [at |-> "patching", lead |-> l, version |-> lead[l].version,
                contact |-> c])
  /\ UNCHANGED <<leadVars, tagVars, taskVars>>

(* The WHERE of the update names the version and not deleted_at. *)
WriteLead(r) ==
  /\ call[r].at = "patching"
  /\ LET l == call[r].lead IN
       IF lead[l].version = call[r].version
         THEN /\ lead' = [lead EXCEPT ![l].version = @ + 1,
                                      ![l].contact = call[r].contact]
              /\ history' =
                   [history EXCEPT ![l] = Append(@, [type |-> "UPDATED"])]
         ELSE UNCHANGED <<lead, history>>
  /\ Ends(r)
  /\ UNCHANGED <<sequence, tagVars, taskVars>>

DeleteLead(r, l) ==
  /\ LiveLead(l)
  /\ AtOnce(r)
  /\ lead' = [lead EXCEPT ![l].deleted = TRUE]
  /\ task' = [t \in Task |->
                IF task[t] # None /\ task[t].lead = l
                  THEN [task[t] EXCEPT !.deleted = TRUE] ELSE task[t]]
  /\ UNCHANGED <<history, sequence, tagVars, timeline>>

RestoreLead(r, l) ==
  /\ lead[l] # None /\ lead[l].deleted
  /\ AtOnce(r)
  /\ lead' = [lead EXCEPT ![l].deleted = FALSE]
  /\ UNCHANGED <<history, sequence, tagVars, taskVars>>

AddNote(r, l) ==
  /\ LiveLead(l)
  /\ AtOnce(r)
  /\ history' = [history EXCEPT ![l] = Append(@, [type |-> "NOTE_ADDED"])]
  /\ UNCHANGED <<lead, sequence, tagVars, taskVars>>

(***************************************************************************)
(* Tags.                                                                   *)
(***************************************************************************)

Named(n) == {g \in Tag : tag[g] = n}

(* get_tag_by_name raises when two rows have the name, and returns the one *)
(* there is.                                                               *)
CreateTag(r, n) ==
  /\ Named(n) = {}
  /\ Starts(r, [at |-> "naming", name |-> n])
  /\ UNCHANGED <<leadVars, tagVars, taskVars>>

InsertTag(r, g) ==
  /\ call[r].at = "naming"
  /\ tag[g] = None
  /\ tag' = [tag EXCEPT ![g] = call[r].name]
  /\ Ends(r)
  /\ UNCHANGED <<leadVars, tagged, taskVars>>

(* get_tag_by_id finds the tag among those of the organization. *)
\* mutant
AnyTag(g) == TRUE

KnownTag(g) == tag[g] # None

AssignTag(r, l, g) ==
  /\ LiveLead(l)
  /\ KnownTag(g)
  /\ <<l, g>> \notin tagged
  /\ Starts(r, [at |-> "tagging", lead |-> l, tag |-> g])
  /\ UNCHANGED <<leadVars, tagVars, taskVars>>

RemoveTag(r, l, g) ==
  /\ LiveLead(l)
  /\ KnownTag(g)
  /\ Starts(r, [at |-> "untagging", lead |-> l, tag |-> g])
  /\ UNCHANGED <<leadVars, tagVars, taskVars>>

Logged(l, type, g) ==
  history' = [history EXCEPT ![l] = Append(@, [type |-> type, tag |-> g])]

(* The key of lead_tag_assignments fails the second of two inserts. *)
InsertTagged(r) ==
  /\ call[r].at = "tagging"
  /\ LET l == call[r].lead  g == call[r].tag IN
       IF <<l, g>> \in tagged
         THEN UNCHANGED <<tagged, history>>
         ELSE /\ tagged' = tagged \cup {<<l, g>>}
              /\ Logged(l, "TAG_ADDED", g)
  /\ Ends(r)
  /\ UNCHANGED <<lead, sequence, tag, taskVars>>

(* The rows that the DELETE removed decide whether it is logged. *)
\* mutant
DeletedWhateverWas(l, g) == TRUE

DeletedARow(l, g) == <<l, g>> \in tagged

DeleteTagged(r) ==
  /\ call[r].at = "untagging"
  /\ LET l == call[r].lead  g == call[r].tag IN
       IF DeletedARow(l, g)
         THEN /\ tagged' = tagged \ {<<l, g>>}
              /\ Logged(l, "TAG_REMOVED", g)
         ELSE UNCHANGED <<tagged, history>>
  /\ Ends(r)
  /\ UNCHANGED <<lead, sequence, tag, taskVars>>

(***************************************************************************)
(* Tasks.                                                                  *)
(***************************************************************************)

AddTask(r, l) ==
  /\ LiveLead(l)
  /\ Starts(r, [at |-> "adding", lead |-> l])
  /\ UNCHANGED <<leadVars, tagVars, taskVars>>

(* The lead is not read again: it may have been deleted meanwhile. *)
InsertTask(r, t) ==
  /\ call[r].at = "adding"
  /\ task[t] = None
  /\ task' = [task EXCEPT ![t] =
                [lead |-> call[r].lead, status |-> "OPEN", completed |-> FALSE,
                 version |-> 1, deleted |-> FALSE]]
  /\ timeline' = [timeline EXCEPT ![t] =
                    Append(@, [type |-> "CREATED", from |-> "OPEN", to |-> "OPEN"])]
  /\ Ends(r)
  /\ UNCHANGED <<leadVars, tagVars>>

(* The statuses that an operation takes a task from. *)
Allowed(op, from, to) ==
  CASE op = "update"   -> to = from \/ to \in ValidTransitions[from]
    [] op = "complete" -> from # "COMPLETED" /\ to = "COMPLETED"
    [] op = "reopen"   -> from # "OPEN" /\ to = "OPEN"
    [] op = "cancel"   -> from \notin {"CANCELLED", "COMPLETED"}
                            /\ to = "CANCELLED"

(* The caller gives the version it has seen: the one of the loaded row. *)
LoadTask(r, t, op, to) ==
  /\ LiveTask(t)
  /\ Allowed(op, task[t].status, to)
  /\ Starts(r, [at |-> "changing", task |-> t, op |-> op, to |-> to,
                row |-> task[t]])
  /\ UNCHANGED <<leadVars, tagVars, taskVars>>

(* completed_at after an operation that found the task in status from. *)
\* mutant
UpdateKeepsIt(op, from, to, was) ==
  IF op = "cancel" \/ (op = "update" /\ to # "COMPLETED")
    THEN was ELSE to = "COMPLETED"

CompletedAt(op, from, to, was) ==
  IF op = "cancel" \/ (op = "update" /\ (to = from \/ "COMPLETED" \notin {from, to}))
    THEN was ELSE to = "COMPLETED"

Entry(op) ==
  CASE op = "update"   -> "UPDATED"
    [] op = "complete" -> "COMPLETED"
    [] op = "reopen"   -> "REOPENED"
    [] op = "cancel"   -> "CANCELLED"

(* The optimistic lock: the row still has the version that was loaded. *)
\* mutant
AnyVersion(t, row) == TRUE

SameVersion(t, row) == task[t].version = row.version

WriteTask(r) ==
  /\ call[r].at = "changing"
  /\ LET c == call[r]  t == c.task IN
       IF SameVersion(t, c.row)
         THEN /\ task' = [task EXCEPT
                   ![t].status = IF c.to = c.row.status THEN @ ELSE c.to,
                   ![t].completed = CompletedAt(c.op, c.row.status, c.to, @),
                   ![t].version = c.row.version + 1]
              /\ timeline' = [timeline EXCEPT ![t] =
                   Append(@, [type |-> Entry(c.op), from |-> c.row.status,
                              to |-> c.to])]
         ELSE UNCHANGED taskVars
  /\ Ends(r)
  /\ UNCHANGED <<leadVars, tagVars>>

DeleteTask(r, t) ==
  /\ LiveTask(t)
  /\ AtOnce(r)
  /\ task' = [task EXCEPT ![t].deleted = TRUE]
  /\ UNCHANGED <<leadVars, tagVars, timeline>>

CreateLeads(r) ==
  \/ \E c \in Contact : CreateLead(r, c)
  \/ TakeNumber(r)
  \/ NoSequenceYet(r)
  \/ InsertSequence(r)
  \/ \E l \in Lead : InsertLead(r, l)

ChangeLeads(r) ==
  \/ \E l \in Lead, c \in Contact : PatchLead(r, l, c)
  \/ WriteLead(r)
  \/ \E l \in Lead : DeleteLead(r, l)
  \/ \E l \in Lead : RestoreLead(r, l)
  \/ \E l \in Lead : AddNote(r, l)

ChangeTags(r) ==
  \/ \E n \in TagName : CreateTag(r, n)
  \/ \E g \in Tag : InsertTag(r, g)
  \/ \E l \in Lead, g \in Tag : AssignTag(r, l, g)
  \/ \E l \in Lead, g \in Tag : RemoveTag(r, l, g)
  \/ InsertTagged(r)
  \/ DeleteTagged(r)

ChangeTasks(r) ==
  \/ \E l \in Lead : AddTask(r, l)
  \/ \E t \in Task : InsertTask(r, t)
  \/ \E t \in Task, op \in TaskOp, to \in TaskStatus : LoadTask(r, t, op, to)
  \/ WriteTask(r)
  \/ \E t \in Task : DeleteTask(r, t)

Next ==
  \E r \in Request :
    \/ CreateLeads(r)
    \/ ChangeLeads(r)
    \/ ChangeTags(r)
    \/ ChangeTasks(r)
    \/ Abort(r)

Spec == Init /\ [][Next]_vars

(***************************************************************************)
(* What holds.                                                             *)
(***************************************************************************)

Known == {l \in Lead : lead[l] # None}

(* Lead numbers of an organization are the numbers from the first one up,  *)
(* each given once and none skipped, whichever creators overlap or fail    *)
(* after they drew theirs (lead_service.py, _generate_lead_number).        *)
NumbersSequential ==
  /\ \A l, m \in Known : lead[l].number = lead[m].number => l = m
  /\ {lead[l].number : l \in Known} =
       IF sequence = None THEN {} ELSE FirstNumber .. (sequence - 1)

(* completed_at is set exactly while a task is COMPLETED, although two     *)
(* requests may each have loaded the task before either wrote it           *)
(* (task_service.py, update_task, complete_task, reopen_task, cancel_task).*)
CompletedAtMatchesStatus ==
  \A t \in Task : task[t] # None =>
    (task[t].completed <=> task[t].status = "COMPLETED")

(* The timeline of a task accounts for the task: one entry per version,    *)
(* each taking the task from where the entry before it left it, the last   *)
(* one to the status it has (task_service.py, _log_activity). An entry     *)
(* stands for the entries that one request writes; from is the status that *)
(* it loaded, which only STATUS_CHANGED entries store.                     *)
TimelineTellsTask ==
  \A t \in Task : task[t] # None =>
    LET log == timeline[t] IN
      /\ Len(log) = task[t].version
      /\ log[Len(log)].to = task[t].status
      /\ \A i \in 2 .. Len(log) : log[i].from = log[i - 1].to

Entries(l, type, g) ==
  Cardinality({i \in 1 .. Len(history[l]) :
                 history[l][i] = [type |-> type, tag |-> g]})

(* The timeline of a lead tells which tags it has: a tag was added once    *)
(* more than it was removed while it is on the lead, and as often when it  *)
(* is not (lead_service.py, assign_tag_to_lead and remove_tag_from_lead).  *)
TagTimeline ==
  \A l \in Lead, g \in Tag :
    Entries(l, "TAG_ADDED", g) - Entries(l, "TAG_REMOVED", g) =
      IF <<l, g>> \in tagged THEN 1 ELSE 0

(* Every row and every call in progress has its type, and keys refer to    *)
(* rows there are: the lead of a task, the lead and the tag of an           *)
(* assignment, whatever was deleted since the request looked them up.      *)
TypeOK ==
  /\ lead \in [Lead -> LeadRow \cup {None}]
  /\ task \in [Task -> TaskRow \cup {None}]
  /\ tag \in [Tag -> TagName \cup {None}]
  /\ history \in [Lead -> Seq(LeadEntry)]
  /\ timeline \in [Task -> Seq(TaskEntry)]
  /\ sequence \in Nat \cup {None}
  /\ call \in [Request -> Call]
  /\ calls \in Nat
  /\ \A t \in Task : task[t] # None => lead[task[t].lead] # None
  /\ tagged \subseteq Known \X {g \in Tag : tag[g] # None}

(* The changes of a task that an operation makes from a status it allows. *)
Changes ==
  {[type |-> Entry(c[1]), from |-> c[2], to |-> c[3]] :
     c \in {d \in TaskOp \X TaskStatus \X TaskStatus : Allowed(d[1], d[2], d[3])}}

ExistingTasks == {t \in Task : task[t] # None}

(* Requests read in one step and write in a later one, and still each takes *)
(* effect at one instant: numbers by the lock of the sequence, tasks by the *)
(* version in the WHERE, tags by the rows that the statement inserts or     *)
(* deletes (lead_service.py, task_service.py).                              *)
Book == INSTANCE CrmBook WITH
          First     <- FirstNumber,
          Edits     <- [type : {"UPDATED", "NOTE_ADDED"}],
          next      <- IF sequence = None THEN FirstNumber ELSE sequence,
          number    <- [l \in Known |-> lead[l].number],
          status    <- [t \in ExistingTasks |-> task[t].status],
          completed <- {t \in ExistingTasks : task[t].completed}

BookSpec == Book!Spec
=============================================================================
