----------------------------- MODULE CrmProofs -----------------------------
(***************************************************************************)
(* Leads and tasks for any number of requests in progress, leads, tasks    *)
(* and tags, and however long the system runs.                             *)
(***************************************************************************)
EXTENDS Crm, FiniteSetTheorems, TLAPS

(* What a request has looked up exists, also if it was deleted since. *)
Refers(r) ==
  LET c == call[r] IN
    /\ c.at \in {"patching", "tagging", "untagging", "adding"} => lead[c.lead] # None
    /\ c.at \in {"tagging", "untagging"} => tag[c.tag] # None
    /\ c.at = "changing" => task[c.task] # None

(* Only one request is between drawing a lead number and its commit, and   *)
(* it has drawn the next one.                                              *)
Drawing ==
  /\ sequence # None => sequence >= FirstNumber
  /\ \A r \in Request : call[r].at = "numbered" =>
       /\ call[r].number = IF sequence = None THEN FirstNumber ELSE sequence
       /\ NumbersFree(r)

(* A request that has loaded a task knows its status, unless the version   *)
(* has moved on since, and may take it where it wants to.                  *)
Loaded(r) ==
  LET row == call[r].row  now == task[call[r].task] IN
    call[r].at = "changing" =>
      /\ Allowed(call[r].op, row.status, call[r].to)
      /\ row.version <= now.version
      /\ row.version = now.version => row.status = now.status

(* The row and the timeline of a task agree. *)
Agrees(t) ==
  LET row == task[t]  log == timeline[t] IN
    IF row = None
      THEN log = << >>
      ELSE /\ row.completed <=> row.status = "COMPLETED"
           /\ Len(log) = row.version
           /\ row.version > 0
           /\ log[Len(log)].to = row.status
           /\ \A i \in 2 .. Len(log) : log[i].from = log[i - 1].to

TaskInv ==
  /\ \A r \in Request : Loaded(r)
  /\ \A t \in Task : Agrees(t)

(* Tables of TypeOK. *)
Tables ==
  /\ lead \in [Lead -> LeadRow \cup {None}]
  /\ task \in [Task -> TaskRow \cup {None}]
  /\ tag \in [Tag -> TagName \cup {None}]
  /\ history \in [Lead -> Seq(LeadEntry)]
  /\ timeline \in [Task -> Seq(TaskEntry)]
  /\ sequence \in Nat \cup {None}
  /\ \A t \in Task : task[t] # None => lead[task[t].lead] # None
  /\ tagged \subseteq Known \X {g \in Tag : tag[g] # None}

IInv ==
  /\ TypeOK
  /\ \A r \in Request : Refers(r)

-----------------------------------------------------------------------------
LEMMA Kinds ==
  ASSUME NEW c \in Call
  PROVE  /\ c.at \in {"numbering", "first"} => c \in Creation
         /\ c.at = "numbered" => c \in Numbered
         /\ c.at = "patching" => c \in Patch
         /\ c.at = "naming" => c \in Naming
         /\ c.at \in {"tagging", "untagging"} => c \in Tagging
         /\ c.at = "adding" => c \in Addition
         /\ c.at = "changing" => c \in Change
BY DEF Call, Idle, Creation, Numbered, Patch, Naming, Tagging, Addition, Change

LEMMA InitTyped == Init => IInv
BY NoneAssumption DEF Init, IInv, TypeOK, Refers, Call, Idle, FirstNumber, Known

(* A request that takes up a new call, or ends one, while no table changes. *)
LEMMA CallTyped ==
  ASSUME IInv, NEW r \in Request, NEW c \in Call, calls' \in Nat,
         call' = [call EXCEPT ![r] = c], Refers(r)',
         UNCHANGED <<leadVars, tagVars, taskVars>>
  PROVE  IInv'
<1>1. TypeOK'
  BY DEF IInv, TypeOK, leadVars, tagVars, taskVars, Known
<1>2. \A q \in Request : Refers(q)'
  <2> SUFFICES ASSUME NEW q \in Request, q # r PROVE Refers(q)'
    OBVIOUS
  <2>1. call'[q] = call[q]
    BY DEF IInv, TypeOK
  <2> QED BY <2>1 DEF IInv, Refers, leadVars, tagVars, taskVars
<1> QED BY <1>1, <1>2 DEF IInv

(* A request that changes tables, which lose no row, and ends. *)
LEMMA TablesTyped ==
  ASSUME IInv, NEW r \in Request, calls' \in Nat,
         call' = call \/ call' = [call EXCEPT ![r] = Idle],
         Tables',
         \A l \in Lead : lead[l] # None => lead'[l] # None,
         \A g \in Tag : tag[g] # None => tag'[g] # None,
         \A t \in Task : task[t] # None => task'[t] # None
  PROVE  IInv'
<1>1. \A q \in Request : call'[q] \in {call[q], Idle} /\ call'[q] \in Call
  BY DEF IInv, TypeOK, Call
<1>2. call' \in [Request -> Call]
  BY DEF IInv, TypeOK, Call
<1>3. TypeOK'
  BY <1>2 DEF Tables, TypeOK
<1>4. ASSUME NEW q \in Request PROVE Refers(q)'
  <2>1. CASE call'[q] = Idle
    BY <2>1 DEF Refers, Idle
  <2>2. CASE call'[q] = call[q]
    <3> DEFINE c == call[q]
    <3>1. /\ c.at \in {"patching", "tagging", "untagging", "adding"} => c.lead \in Lead
          /\ c.at \in {"tagging", "untagging"} => c.tag \in Tag
          /\ c.at = "changing" => c.task \in Task
      BY Kinds DEF IInv, TypeOK, Patch, Tagging, Addition, Change
    <3> QED BY <2>2, <3>1 DEF IInv, Refers
  <2> QED BY <1>1, <2>1, <2>2
<1> QED BY <1>3, <1>4 DEF IInv

LEMMA CreateLeadsTyped ==
  ASSUME IInv, NEW r \in Request, CreateLeads(r)
  PROVE  IInv'
<1>0. /\ call[r] \in Call
      /\ call[r].at \in {"numbering", "first"} => call[r] \in Creation
      /\ call[r].at = "numbered" => call[r] \in Numbered
  BY Kinds DEF IInv, TypeOK
<1>1. ASSUME NEW c \in Contact, CreateLead(r, c) PROVE IInv'
  <2> DEFINE new == [at |-> "numbering", contact |-> c]
  <2>1. new \in Call /\ call' = [call EXCEPT ![r] = new] /\ calls' \in Nat
        /\ UNCHANGED <<leadVars, tagVars, taskVars>>
    BY <1>1 DEF CreateLead, Starts, Call, Creation, IInv, TypeOK
  <2>2. Refers(r)'
    BY <2>1 DEF Refers, IInv, TypeOK
  <2> QED BY <2>1, <2>2, CallTyped
<1>2. ASSUME TakeNumber(r) PROVE IInv'
  <2> DEFINE new == [at |-> "numbered", contact |-> call[r].contact, number |-> sequence]
  <2>1. new \in Call /\ call' = [call EXCEPT ![r] = new] /\ calls' \in Nat
        /\ UNCHANGED <<leadVars, tagVars, taskVars>>
    BY <1>0, <1>2 DEF TakeNumber, Moves, Call, Creation, Numbered, IInv, TypeOK
  <2>2. Refers(r)'
    BY <2>1 DEF Refers, IInv, TypeOK
  <2> QED BY <2>1, <2>2, CallTyped
<1>3. ASSUME NoSequenceYet(r) PROVE IInv'
  <2> DEFINE new == [at |-> "first", contact |-> call[r].contact]
  <2>1. new \in Call /\ call' = [call EXCEPT ![r] = new] /\ calls' \in Nat
        /\ UNCHANGED <<leadVars, tagVars, taskVars>>
    BY <1>0, <1>3 DEF NoSequenceYet, Moves, Call, Creation, IInv, TypeOK
  <2>2. Refers(r)'
    BY <2>1 DEF Refers, IInv, TypeOK
  <2> QED BY <2>1, <2>2, CallTyped
<1>4. ASSUME InsertSequence(r) PROVE IInv'
  <2> DEFINE new == IF sequence = None
                      THEN [at |-> "numbered", contact |-> call[r].contact,
                            number |-> FirstNumber]
                      ELSE Idle
  <2>1. new \in Call
    BY <1>0, <1>4 DEF InsertSequence, Call, Creation, Numbered, FirstNumber
  <2>2. call' = [call EXCEPT ![r] = new] /\ calls' \in Nat
        /\ UNCHANGED <<leadVars, tagVars, taskVars>>
    BY <1>4 DEF InsertSequence, Moves, Ends, IInv, TypeOK
  <2>3. Refers(r)'
    BY <2>2 DEF Refers, IInv, TypeOK, Idle
  <2> HIDE DEF new
  <2> QED BY <2>1, <2>2, <2>3, CallTyped
<1>5. ASSUME NEW l \in Lead, InsertLead(r, l) PROVE IInv'
  <2> DEFINE row == [number |-> call[r].number, contact |-> call[r].contact,
                     version |-> 1, deleted |-> FALSE]
             entry == [type |-> "CREATED"]
  <2>1. row \in LeadRow /\ row # None /\ entry \in LeadEntry
    <3>1. row \in LeadRow
      BY <1>0, <1>5 DEF InsertLead, Numbered, LeadRow
    <3>2. entry \in LeadEntry
      BY DEF LeadEntry
    <3> QED BY <3>1, <3>2, NoneAssumption
  <2> HIDE DEF row, entry
  <2>2. /\ lead' = [lead EXCEPT ![l] = row]
        /\ history' = [history EXCEPT ![l] = Append(@, entry)]
        /\ sequence' \in Nat /\ calls' \in Nat
        /\ call' = [call EXCEPT ![r] = Idle]
        /\ UNCHANGED <<tagVars, taskVars>>
    BY <1>0, <1>5 DEF InsertLead, Ends, Moves, Numbered, IInv, TypeOK, row, entry
  <2>3. \A m \in Lead : lead[m] # None => lead'[m] # None
    BY <2>1, <2>2 DEF IInv, TypeOK
  <2>4. lead' \in [Lead -> LeadRow \cup {None}] /\ history' \in [Lead -> Seq(LeadEntry)]
    BY <2>1, <2>2 DEF IInv, TypeOK
  <2>5. Tables'
    BY <2>2, <2>3, <2>4 DEF IInv, TypeOK, Tables, Known, tagVars, taskVars, TaskRow
  <2> QED BY <2>2, <2>3, <2>5, TablesTyped DEF tagVars, taskVars
<1> QED BY <1>1, <1>2, <1>3, <1>4, <1>5 DEF CreateLeads

LEMMA ChangeLeadsTyped ==
  ASSUME IInv, NEW r \in Request, ChangeLeads(r)
  PROVE  IInv'
<1>0. /\ call[r] \in Call
      /\ call[r].at = "patching" => call[r] \in Patch /\ lead[call[r].lead] # None
  BY Kinds DEF IInv, TypeOK, Refers
<1>1. ASSUME NEW l \in Lead, NEW c \in Contact, PatchLead(r, l, c) PROVE IInv'
  <2> DEFINE new == [at |-> "patching", lead |-> l, version |-> lead[l].version,
                     contact |-> c]
  <2>1. new \in Call
    <3>1. lead[l] \in LeadRow
      BY <1>1 DEF PatchLead, LiveLead, IInv, TypeOK
    <3> QED BY <3>1 DEF LeadRow, Call, Patch
  <2>2. call' = [call EXCEPT ![r] = new] /\ calls' \in Nat
        /\ UNCHANGED <<leadVars, tagVars, taskVars>>
    BY <1>1 DEF PatchLead, Starts, IInv, TypeOK
  <2>3. Refers(r)'
    BY <1>1, <2>2 DEF Refers, IInv, TypeOK, leadVars, PatchLead, LiveLead
  <2> QED BY <2>1, <2>2, <2>3, CallTyped
<1>2. ASSUME WriteLead(r) PROVE IInv'
  <2> DEFINE l == call[r].lead
             row == [lead[l] EXCEPT !.version = @ + 1, !.contact = call[r].contact]
             entry == [type |-> "UPDATED"]
  <2>0. l \in Lead /\ lead[l] \in LeadRow /\ call[r].contact \in Contact
    BY <1>0, <1>2 DEF WriteLead, Patch, IInv, TypeOK
  <2>1. row \in LeadRow
    <3>1. lead[l].version + 1 \in Nat
      BY <2>0 DEF LeadRow
    <3> QED BY <2>0, <3>1 DEF LeadRow
  <2>2. row # None /\ entry \in LeadEntry
    BY <2>1, NoneAssumption DEF LeadEntry
  <2>3. /\ \/ UNCHANGED <<lead, history>>
           \/ /\ lead' = [lead EXCEPT ![l] = row]
              /\ history' = [history EXCEPT ![l] = Append(@, entry)]
        /\ calls' \in Nat
        /\ call' = [call EXCEPT ![r] = Idle]
        /\ UNCHANGED <<sequence, tagVars, taskVars>>
    BY <1>2 DEF WriteLead, Ends, Moves, IInv, TypeOK
  <2> HIDE DEF l, row, entry
  <2>4. \A m \in Lead : lead[m] # None => lead'[m] # None
    BY <2>0, <2>2, <2>3 DEF IInv, TypeOK
  <2>5. lead' \in [Lead -> LeadRow \cup {None}] /\ history' \in [Lead -> Seq(LeadEntry)]
    <3>1. lead' \in [Lead -> LeadRow \cup {None}]
      BY <2>1, <2>3 DEF IInv, TypeOK
    <3>2. Append(history[l], entry) \in Seq(LeadEntry)
      BY <2>0, <2>2 DEF IInv, TypeOK
    <3>3. history' \in [Lead -> Seq(LeadEntry)]
      BY <2>3, <3>2 DEF IInv, TypeOK
    <3> QED BY <3>1, <3>3
  <2>6. Tables'
    BY <2>3, <2>4, <2>5 DEF IInv, TypeOK, Tables, Known, tagVars, taskVars, TaskRow
  <2> QED BY <2>3, <2>4, <2>6, TablesTyped DEF tagVars, taskVars
<1>3. ASSUME NEW l \in Lead, DeleteLead(r, l) PROVE IInv'
  <2>1. /\ calls' \in Nat /\ call' = call
        /\ lead' = [lead EXCEPT ![l].deleted = TRUE]
        /\ UNCHANGED <<history, sequence, tagVars, timeline>>
    BY <1>3 DEF DeleteLead, AtOnce, IInv, TypeOK
  <2>2. /\ lead' \in [Lead -> LeadRow \cup {None}]
        /\ \A m \in Lead : lead[m] # None => lead'[m] # None
    <3> DEFINE row == [lead[l] EXCEPT !.deleted = TRUE]
    <3>1. row \in LeadRow
      BY <1>3 DEF DeleteLead, LiveLead, IInv, TypeOK, LeadRow
    <3>2. lead' = [lead EXCEPT ![l] = row]
      BY <2>1
    <3> HIDE DEF row
    <3> QED BY <3>1, <3>2, NoneAssumption DEF IInv, TypeOK
  <2>3. ASSUME NEW t \in Task
        PROVE  /\ task'[t] \in TaskRow \cup {None}
               /\ task[t] # None => task'[t] # None
               /\ task'[t] # None => task[t] # None /\ task'[t].lead = task[t].lead
    <3>1. task'[t] = IF task[t] # None /\ task[t].lead = l
                       THEN [task[t] EXCEPT !.deleted = TRUE] ELSE task[t]
      BY <1>3 DEF DeleteLead
    <3>2. task[t] # None => [task[t] EXCEPT !.deleted = TRUE] \in TaskRow
                              /\ [task[t] EXCEPT !.deleted = TRUE].lead = task[t].lead
      BY DEF IInv, TypeOK, TaskRow
    <3> QED BY <3>1, <3>2, NoneAssumption DEF IInv, TypeOK
  <2>4. task' \in [Task -> TaskRow \cup {None}]
    BY <1>3, <2>3 DEF DeleteLead
  <2>5. \A t \in Task : task'[t] # None => lead'[task'[t].lead] # None
    BY <2>2, <2>3 DEF IInv, TypeOK, TaskRow
  <2>6. Tables'
    BY <2>1, <2>2, <2>4, <2>5 DEF IInv, TypeOK, Tables, Known, tagVars
  <2> QED BY <2>1, <2>2, <2>3, <2>6, TablesTyped DEF tagVars
<1>4. ASSUME NEW l \in Lead, RestoreLead(r, l) PROVE IInv'
  <2> DEFINE row == [lead[l] EXCEPT !.deleted = FALSE]
  <2>1. row \in LeadRow
    BY <1>4 DEF RestoreLead, IInv, TypeOK, LeadRow
  <2>2. /\ calls' \in Nat /\ call' = call
        /\ lead' = [lead EXCEPT ![l] = row]
        /\ UNCHANGED <<history, sequence, tagVars, taskVars>>
    BY <1>4 DEF RestoreLead, AtOnce, IInv, TypeOK
  <2> HIDE DEF row
  <2>3. /\ lead' \in [Lead -> LeadRow \cup {None}]
        /\ \A m \in Lead : lead[m] # None => lead'[m] # None
    BY <2>1, <2>2, NoneAssumption DEF IInv, TypeOK
  <2>4. Tables'
    BY <2>2, <2>3 DEF IInv, TypeOK, Tables, Known, tagVars, taskVars, TaskRow
  <2> QED BY <2>2, <2>3, <2>4, TablesTyped DEF tagVars, taskVars
<1>5. ASSUME NEW l \in Lead, AddNote(r, l) PROVE IInv'
  <2> DEFINE entry == [type |-> "NOTE_ADDED"]
  <2>1. entry \in LeadEntry
    BY DEF LeadEntry
  <2>2. /\ calls' \in Nat /\ call' = call
        /\ history' = [history EXCEPT ![l] = Append(@, entry)]
        /\ UNCHANGED <<lead, sequence, tagVars, taskVars>>
    BY <1>5 DEF AddNote, AtOnce, IInv, TypeOK
  <2> HIDE DEF entry
  <2>3. history' \in [Lead -> Seq(LeadEntry)]
    BY <2>1, <2>2 DEF IInv, TypeOK
  <2>4. Tables'
    BY <2>2, <2>3 DEF IInv, TypeOK, Tables, Known, tagVars, taskVars
  <2> QED BY <2>2, <2>4, TablesTyped DEF tagVars, taskVars
<1> QED BY <1>1, <1>2, <1>3, <1>4, <1>5 DEF ChangeLeads

LEMMA ChangeTagsTyped ==
  ASSUME IInv, NEW r \in Request, ChangeTags(r)
  PROVE  IInv'
<1>0. /\ call[r] \in Call
      /\ call[r].at = "naming" => call[r] \in Naming
      /\ call[r].at \in {"tagging", "untagging"} =>
           /\ call[r] \in Tagging
           /\ lead[call[r].lead] # None /\ tag[call[r].tag] # None
  BY Kinds DEF IInv, TypeOK, Refers
<1>1. ASSUME NEW n \in TagName, CreateTag(r, n) PROVE IInv'
  <2> DEFINE new == [at |-> "naming", name |-> n]
  <2>1. new \in Call
    BY DEF Call, Naming
  <2>2. call' = [call EXCEPT ![r] = new] /\ calls' \in Nat
        /\ UNCHANGED <<leadVars, tagVars, taskVars>>
    BY <1>1 DEF CreateTag, Starts, IInv, TypeOK
  <2>3. Refers(r)'
    BY <2>2 DEF Refers, IInv, TypeOK
  <2> QED BY <2>1, <2>2, <2>3, CallTyped
<1>2. ASSUME NEW g \in Tag, InsertTag(r, g) PROVE IInv'
  <2>1. /\ calls' \in Nat /\ call' = [call EXCEPT ![r] = Idle]
        /\ tag' = [tag EXCEPT ![g] = call[r].name]
        /\ UNCHANGED <<leadVars, tagged, taskVars>>
    BY <1>2 DEF InsertTag, Ends, Moves, IInv, TypeOK
  <2>2. call[r].name \in TagName /\ call[r].name # None
    BY <1>0, <1>2, NoneAssumption DEF InsertTag, Naming
  <2>3. /\ tag' \in [Tag -> TagName \cup {None}]
        /\ \A h \in Tag : tag[h] # None => tag'[h] # None
    BY <2>1, <2>2 DEF IInv, TypeOK
  <2>4. Tables'
    BY <2>1, <2>3 DEF IInv, TypeOK, Tables, Known, leadVars, taskVars
  <2> QED BY <2>1, <2>3, <2>4, TablesTyped DEF leadVars, taskVars
<1>3. ASSUME NEW l \in Lead, NEW g \in Tag, AssignTag(r, l, g) \/ RemoveTag(r, l, g)
      PROVE  IInv'
  <2>1. PICK at \in {"tagging", "untagging"} :
          /\ call' = [call EXCEPT ![r] = [at |-> at, lead |-> l, tag |-> g]]
          /\ calls' \in Nat
          /\ lead[l] # None /\ tag[g] # None
          /\ UNCHANGED <<leadVars, tagVars, taskVars>>
    BY <1>3 DEF AssignTag, RemoveTag, LiveLead, KnownTag, Starts, IInv, TypeOK
  <2> DEFINE new == [at |-> at, lead |-> l, tag |-> g]
  <2>2. new \in Call
    BY DEF Call, Tagging
  <2>3. Refers(r)'
    BY <2>1 DEF Refers, IInv, TypeOK, leadVars, tagVars
  <2> QED BY <2>1, <2>2, <2>3, CallTyped
<1>4. ASSUME InsertTagged(r) \/ DeleteTagged(r) PROVE IInv'
  <2> DEFINE l == call[r].lead
             g == call[r].tag
             added == [type |-> "TAG_ADDED", tag |-> g]
             removed == [type |-> "TAG_REMOVED", tag |-> g]
  <2>1. l \in Lead /\ g \in Tag /\ lead[l] # None /\ tag[g] # None
    BY <1>0, <1>4 DEF InsertTagged, DeleteTagged, Tagging
  <2>2. added \in LeadEntry /\ removed \in LeadEntry
    BY <2>1 DEF LeadEntry
  <2>3. /\ calls' \in Nat /\ call' = [call EXCEPT ![r] = Idle]
        /\ \/ UNCHANGED history
           \/ history' = [history EXCEPT ![l] = Append(@, added)]
           \/ history' = [history EXCEPT ![l] = Append(@, removed)]
        /\ tagged' \subseteq tagged \cup {<<l, g>>}
        /\ UNCHANGED <<lead, sequence, tag, taskVars>>
    BY <1>4 DEF InsertTagged, DeleteTagged, Logged, Ends, Moves, IInv, TypeOK
  <2> HIDE DEF l, g, added, removed
  <2>4. history' \in [Lead -> Seq(LeadEntry)]
    <3>1. /\ Append(history[l], added) \in Seq(LeadEntry)
          /\ Append(history[l], removed) \in Seq(LeadEntry)
      BY <2>1, <2>2 DEF IInv, TypeOK
    <3> QED BY <2>3, <3>1 DEF IInv, TypeOK
  <2>5. Tables'
    BY <2>1, <2>3, <2>4 DEF IInv, TypeOK, Tables, Known, taskVars
  <2> QED BY <2>3, <2>5, TablesTyped DEF taskVars
<1> QED BY <1>1, <1>2, <1>3, <1>4 DEF ChangeTags

LEMMA ChangeTasksTyped ==
  ASSUME IInv, NEW r \in Request, ChangeTasks(r)
  PROVE  IInv'
<1>0. /\ call[r] \in Call
      /\ call[r].at = "adding" => call[r] \in Addition /\ lead[call[r].lead] # None
      /\ call[r].at = "changing" => call[r] \in Change /\ task[call[r].task] # None
  BY Kinds DEF IInv, TypeOK, Refers
<1>1. ASSUME NEW l \in Lead, AddTask(r, l) PROVE IInv'
  <2> DEFINE new == [at |-> "adding", lead |-> l]
  <2>1. new \in Call
    BY DEF Call, Addition
  <2>2. call' = [call EXCEPT ![r] = new] /\ calls' \in Nat
        /\ UNCHANGED <<leadVars, tagVars, taskVars>>
    BY <1>1 DEF AddTask, Starts, IInv, TypeOK
  <2>3. Refers(r)'
    BY <1>1, <2>2 DEF Refers, IInv, TypeOK, AddTask, LiveLead, leadVars
  <2> QED BY <2>1, <2>2, <2>3, CallTyped
<1>2. ASSUME NEW t \in Task, InsertTask(r, t) PROVE IInv'
  <2> DEFINE row == [lead |-> call[r].lead, status |-> "OPEN", completed |-> FALSE,
                     version |-> 1, deleted |-> FALSE]
             entry == [type |-> "CREATED", from |-> "OPEN", to |-> "OPEN"]
  <2>1. row \in TaskRow /\ lead[row.lead] # None
    BY <1>0, <1>2 DEF InsertTask, Addition, TaskRow, TaskStatus
  <2>2. row # None /\ entry \in TaskEntry
    <3>1. entry \in TaskEntry
      BY DEF TaskEntry, TaskStatus
    <3> QED BY <2>1, <3>1, NoneAssumption
  <2>3. /\ calls' \in Nat /\ call' = [call EXCEPT ![r] = Idle]
        /\ task' = [task EXCEPT ![t] = row]
        /\ timeline' = [timeline EXCEPT ![t] = Append(@, entry)]
        /\ UNCHANGED <<leadVars, tagVars>>
    BY <1>2 DEF InsertTask, Ends, Moves, IInv, TypeOK
  <2> HIDE DEF row, entry
  <2>4. /\ task' \in [Task -> TaskRow \cup {None}]
        /\ \A u \in Task : task[u] # None => task'[u] # None
        /\ timeline' \in [Task -> Seq(TaskEntry)]
    BY <2>1, <2>2, <2>3 DEF IInv, TypeOK
  <2>5. \A u \in Task : task'[u] # None => lead[task'[u].lead] # None
    BY <2>1, <2>3 DEF IInv, TypeOK
  <2>6. Tables'
    BY <2>3, <2>4, <2>5 DEF IInv, TypeOK, Tables, Known, leadVars, tagVars
  <2> QED BY <2>3, <2>4, <2>6, TablesTyped DEF leadVars, tagVars
<1>3. ASSUME NEW t \in Task, NEW op \in TaskOp, NEW to \in TaskStatus,
             LoadTask(r, t, op, to)
      PROVE  IInv'
  <2> DEFINE new == [at |-> "changing", task |-> t, op |-> op, to |-> to,
                     row |-> task[t]]
  <2>1. new \in Call
    <3>1. task[t] \in TaskRow
      BY <1>3 DEF LoadTask, LiveTask, IInv, TypeOK
    <3> QED BY <3>1 DEF Call, Change
  <2>2. call' = [call EXCEPT ![r] = new] /\ calls' \in Nat
        /\ UNCHANGED <<leadVars, tagVars, taskVars>>
    BY <1>3 DEF LoadTask, Starts, IInv, TypeOK
  <2>3. Refers(r)'
    BY <1>3, <2>2 DEF Refers, IInv, TypeOK, LoadTask, LiveTask, taskVars
  <2> HIDE DEF new
  <2> QED BY <2>1, <2>2, <2>3, CallTyped
<1>4. ASSUME WriteTask(r) PROVE IInv'
  <2> DEFINE c == call[r]
             t == c.task
             row == [task[t] EXCEPT
                       !.status = IF c.to = c.row.status THEN @ ELSE c.to,
                       !.completed = CompletedAt(c.op, c.row.status, c.to, @),
                       !.version = c.row.version + 1]
             entry == [type |-> Entry(c.op), from |-> c.row.status, to |-> c.to]
  <2>1. /\ t \in Task /\ task[t] \in TaskRow
        /\ c.row \in TaskRow /\ c.to \in TaskStatus /\ c.op \in TaskOp
    BY <1>0, <1>4 DEF WriteTask, Change, IInv, TypeOK
  <2>2. CompletedAt(c.op, c.row.status, c.to, task[t].completed) \in BOOLEAN
    BY <2>1 DEF CompletedAt, TaskRow
  <2>3. row \in TaskRow /\ row.lead = task[t].lead
    <3> DEFINE status == IF c.to = c.row.status THEN task[t].status ELSE c.to
               completed == CompletedAt(c.op, c.row.status, c.to, task[t].completed)
               version == c.row.version + 1
    <3>1. status \in TaskStatus /\ completed \in BOOLEAN /\ version \in Nat
      BY <2>1, <2>2 DEF TaskRow
    <3>2. row = [task[t] EXCEPT !.status = status, !.completed = completed,
                                !.version = version]
      OBVIOUS
    <3> HIDE DEF status, completed, version
    <3> QED BY <2>1, <3>1, <3>2 DEF TaskRow
  <2>4. entry \in TaskEntry
    BY <2>1 DEF Entry, TaskEntry, TaskRow, TaskOp
  <2>5. /\ calls' \in Nat /\ call' = [call EXCEPT ![r] = Idle]
        /\ \/ UNCHANGED taskVars
           \/ /\ task' = [task EXCEPT ![t] = row]
              /\ timeline' = [timeline EXCEPT ![t] = Append(@, entry)]
        /\ UNCHANGED <<leadVars, tagVars>>
    <3>1. calls' \in Nat /\ call' = [call EXCEPT ![r] = Idle]
          /\ UNCHANGED <<leadVars, tagVars>>
      BY <1>4 DEF WriteTask, Ends, Moves, IInv, TypeOK
    <3>2. CASE SameVersion(t, c.row)
      BY <1>4, <3>1, <3>2 DEF WriteTask
    <3>3. CASE ~SameVersion(t, c.row)
      BY <1>4, <3>1, <3>3 DEF WriteTask
    <3> QED BY <3>2, <3>3
  <2> HIDE DEF c, t, row, entry
  <2>6. /\ task' \in [Task -> TaskRow \cup {None}]
        /\ timeline' \in [Task -> Seq(TaskEntry)]
    <3>1. task' \in [Task -> TaskRow \cup {None}]
      BY <2>3, <2>5 DEF IInv, TypeOK, taskVars
    <3>2. Append(timeline[t], entry) \in Seq(TaskEntry)
      BY <2>1, <2>4 DEF IInv, TypeOK
    <3>3. timeline' \in [Task -> Seq(TaskEntry)]
      BY <2>5, <3>2 DEF IInv, TypeOK, taskVars
    <3> QED BY <3>1, <3>3
  <2>7. \A u \in Task : task[u] # None => task'[u] # None
    BY <2>1, <2>3, <2>5, NoneAssumption DEF IInv, TypeOK, taskVars
  <2>8. \A u \in Task : task'[u] # None =>
                            /\ task[u] # None
                            /\ task'[u].lead = task[u].lead
    BY <2>1, <2>3, <2>5, NoneAssumption DEF IInv, TypeOK, taskVars
  <2>9. Tables'
    BY <2>5, <2>6, <2>8 DEF IInv, TypeOK, Tables, Known, leadVars, tagVars
  <2> QED BY <2>5, <2>7, <2>9, TablesTyped DEF leadVars, tagVars
<1>5. ASSUME NEW t \in Task, DeleteTask(r, t) PROVE IInv'
  <2> DEFINE row == [task[t] EXCEPT !.deleted = TRUE]
  <2>1. row \in TaskRow /\ row.lead = task[t].lead /\ task[t] # None
    BY <1>5 DEF DeleteTask, LiveTask, IInv, TypeOK, TaskRow
  <2>2. /\ calls' \in Nat /\ call' = call
        /\ task' = [task EXCEPT ![t] = row]
        /\ UNCHANGED <<leadVars, tagVars, timeline>>
    BY <1>5 DEF DeleteTask, AtOnce, IInv, TypeOK
  <2> HIDE DEF row
  <2>3. /\ task' \in [Task -> TaskRow \cup {None}]
        /\ \A u \in Task : task[u] # None => task'[u] # None
        /\ \A u \in Task : task'[u] # None =>
             task[u] # None /\ task'[u].lead = task[u].lead
    BY <2>1, <2>2, NoneAssumption DEF IInv, TypeOK
  <2>4. Tables'
    BY <2>2, <2>3 DEF IInv, TypeOK, Tables, Known, leadVars, tagVars
  <2> QED BY <2>2, <2>3, <2>4, TablesTyped DEF leadVars, tagVars
<1> QED BY <1>1, <1>2, <1>3, <1>4, <1>5 DEF ChangeTasks

LEMMA NextTyped == IInv /\ [Next]_vars => IInv'
<1> SUFFICES ASSUME IInv, [Next]_vars PROVE IInv'
  OBVIOUS
<1>1. CASE UNCHANGED vars
  BY <1>1 DEF IInv, TypeOK, Refers, Known, vars
<1>2. ASSUME NEW r \in Request, Abort(r) PROVE IInv'
  <2>1. Idle \in Call /\ call' = [call EXCEPT ![r] = Idle] /\ calls' \in Nat
        /\ UNCHANGED <<leadVars, tagVars, taskVars>>
    BY <1>2 DEF Abort, Ends, Moves, Call, IInv, TypeOK
  <2>2. Refers(r)'
    BY <2>1 DEF Refers, Idle, IInv, TypeOK
  <2> QED BY <2>1, <2>2, CallTyped
<1> QED BY <1>1, <1>2, CreateLeadsTyped, ChangeLeadsTyped, ChangeTagsTyped,
           ChangeTasksTyped DEF Next

LEMMA Typed == Spec => []IInv
BY InitTyped, NextTyped, PTL DEF Spec

(* Rows and calls keep their types, and references resolve, whatever the   *)
(* requests do and however many there are.                                 *)
THEOREM TypeCorrect == Spec => []TypeOK
<1>1. IInv => TypeOK
  BY DEF IInv
<1> QED BY Typed, <1>1, PTL

-----------------------------------------------------------------------------
(* Lead numbers. *)
NumInv == Drawing /\ NumbersSequential

LEMMA InitNumbers == Init => NumInv
BY NoneAssumption DEF Init, NumInv, Drawing, NumbersSequential, Known, Idle, FirstNumber

(* A request that may stop drawing, while the numbers given stay. *)
LEMMA NumbersKept ==
  ASSUME IInv, NumInv, NEW r \in Request,
         \A q \in Request : q # r => call'[q] = call[q],
         call'[r].at = "numbered" => call'[r] = call[r],
         \A l \in Lead : (lead'[l] # None <=> lead[l] # None)
                         /\ (lead[l] # None => lead'[l].number = lead[l].number),
         UNCHANGED sequence
  PROVE  NumInv'
<1>1. \A q \in Request : call'[q].at = "numbered" => call'[q] = call[q]
  OBVIOUS
<1>2. Drawing'
  BY <1>1 DEF NumInv, Drawing, NumbersFree
<1>3. Known' = Known /\ \A l \in Known : lead'[l].number = lead[l].number
  BY DEF Known
<1>4. NumbersSequential'
  <2>1. {lead'[l].number : l \in Known'} = {lead[l].number : l \in Known}
    BY <1>3
  <2> QED BY <1>3, <2>1 DEF NumInv, NumbersSequential
<1> QED BY <1>2, <1>4 DEF NumInv

LEMMA DrawKeeps ==
  ASSUME IInv, NumInv, NEW r \in Request, NumbersFree(r),
         NEW c, c = IF sequence = None THEN FirstNumber ELSE sequence,
         NEW k, call' = [call EXCEPT ![r] = [at |-> "numbered", contact |-> k, number |-> c]],
         UNCHANGED leadVars
  PROVE  NumInv'
<1>1. /\ call'[r].at = "numbered" /\ call'[r].number = c
      /\ \A q \in Request \ {r} : call'[q] = call[q] /\ call[q].at # "numbered"
  BY DEF IInv, TypeOK, NumbersFree
<1>2. Drawing'
  BY <1>1 DEF NumInv, Drawing, NumbersFree, leadVars
<1> QED BY <1>2 DEF NumInv, NumbersSequential, Known, leadVars

LEMMA InsertLeadNumbers ==
  ASSUME IInv, NumInv, NEW r \in Request, NEW l \in Lead, InsertLead(r, l)
  PROVE  NumInv'
<1> DEFINE n == call[r].number
<1>1. /\ call[r].at = "numbered" /\ call[r] \in Numbered /\ lead[l] = None
      /\ n = IF sequence = None THEN FirstNumber ELSE sequence
      /\ n \in Nat /\ n >= FirstNumber
      /\ \A q \in Request \ {r} : call[q].at # "numbered"
  BY Kinds DEF InsertLead, IInv, TypeOK, NumInv, Drawing, NumbersFree, Numbered, FirstNumber
<1>2. /\ sequence' = n + 1
      /\ \A q \in Request : call'[q].at # "numbered"
  BY <1>1 DEF InsertLead, Ends, Moves, Idle, IInv, TypeOK
<1>3. lead'[l] # None /\ lead'[l].number = n /\ \A m \in Lead \ {l} : lead'[m] = lead[m]
  <2> DEFINE row == [number |-> call[r].number, contact |-> call[r].contact,
                     version |-> 1, deleted |-> FALSE]
  <2>1. row \in LeadRow /\ row.number = n
    BY <1>1 DEF Numbered, LeadRow
  <2>2. lead' = [lead EXCEPT ![l] = row]
    BY DEF InsertLead
  <2> HIDE DEF row
  <2> QED BY <2>1, <2>2, NoneAssumption DEF IInv, TypeOK
<1> HIDE DEF n
<1>4. Known' = Known \cup {l} /\ l \notin Known
  BY <1>1, <1>3 DEF Known
<1>5. {lead[m].number : m \in Known} = FirstNumber .. (n - 1)
  <2>1. CASE sequence = None
    <3>1. FirstNumber .. (n - 1) = {}
      BY <1>1, <2>1 DEF FirstNumber
    <3> QED BY <2>1, <3>1 DEF NumInv, NumbersSequential
  <2>2. CASE sequence # None
    BY <1>1, <2>2 DEF NumInv, NumbersSequential
  <2> QED BY <2>1, <2>2
<1>6. \A m \in Known : lead[m].number \in FirstNumber .. (n - 1) /\ lead'[m] = lead[m]
  BY <1>3, <1>4, <1>5 DEF Known
<1>7. {lead'[m].number : m \in Known'} = FirstNumber .. n
  <2>1. {lead'[m].number : m \in Known'} = {lead[m].number : m \in Known} \cup {n}
    BY <1>3, <1>4, <1>6
  <2>2. (FirstNumber .. (n - 1)) \cup {n} = FirstNumber .. n
    BY <1>1 DEF FirstNumber
  <2> QED BY <1>5, <2>1, <2>2
<1>8. \A m, k \in Known' : lead'[m].number = lead'[k].number => m = k
  <2>1. \A m \in Known : lead'[m].number # n
    BY <1>1, <1>6 DEF FirstNumber
  <2>2. \A m, k \in Known : lead'[m].number = lead'[k].number => m = k
    BY <1>6 DEF NumInv, NumbersSequential
  <2> QED BY <1>3, <1>4, <2>1, <2>2
<1>9. sequence' # None /\ (sequence' - 1) = n /\ sequence' >= FirstNumber
  BY <1>1, <1>2, NoneAssumption DEF FirstNumber
<1>10. NumbersSequential'
  BY <1>7, <1>8, <1>9 DEF NumbersSequential
<1>11. Drawing'
  BY <1>2, <1>9 DEF Drawing
<1> QED BY <1>10, <1>11 DEF NumInv

LEMMA NextNumbers == IInv /\ NumInv /\ [Next]_vars => NumInv'
<1> SUFFICES ASSUME IInv, NumInv, [Next]_vars PROVE NumInv'
  OBVIOUS
<1>1. CASE UNCHANGED vars
  BY <1>1 DEF NumInv, Drawing, NumbersFree, NumbersSequential, Known, vars
<1> SUFFICES ASSUME NEW r \in Request,
                    CreateLeads(r) \/ ChangeLeads(r) \/ ChangeTags(r)
                      \/ ChangeTasks(r) \/ Abort(r)
             PROVE  NumInv'
  BY <1>1 DEF Next
<1>2. CASE CreateLeads(r)
  <2>1. ASSUME NEW c \in Contact, CreateLead(r, c) PROVE NumInv'
    BY <2>1, NumbersKept DEF CreateLead, Starts, leadVars, IInv, TypeOK
  <2>2. ASSUME TakeNumber(r) PROVE NumInv'
    BY <2>2, DrawKeeps DEF TakeNumber, Moves
  <2>3. ASSUME NoSequenceYet(r) PROVE NumInv'
    BY <2>3, NumbersKept DEF NoSequenceYet, Moves, leadVars, IInv, TypeOK
  <2>4. ASSUME InsertSequence(r) PROVE NumInv'
    <3>1. CASE sequence = None
      BY <2>4, <3>1, DrawKeeps DEF InsertSequence, Moves
    <3>2. CASE sequence # None
      BY <2>4, <3>2, NumbersKept DEF InsertSequence, Ends, Moves, Idle, leadVars, IInv, TypeOK
    <3> QED BY <3>1, <3>2
  <2> QED BY <1>2, <2>1, <2>2, <2>3, <2>4, InsertLeadNumbers DEF CreateLeads
<1>3. CASE ChangeLeads(r)
  <2>1. ASSUME NEW l \in Lead, NEW c \in Contact, PatchLead(r, l, c) PROVE NumInv'
    BY <2>1, NumbersKept DEF PatchLead, Starts, leadVars, IInv, TypeOK
  <2>2. ASSUME WriteLead(r) PROVE NumInv'
    <3> DEFINE l == call[r].lead
               row == [lead[l] EXCEPT !.version = @ + 1, !.contact = call[r].contact]
    <3>1. l \in Lead /\ lead[l] \in LeadRow /\ call[r].contact \in Contact
      BY <2>2, Kinds DEF WriteLead, Patch, IInv, TypeOK, Refers
    <3>2. row \in LeadRow /\ row.number = lead[l].number
      <4>1. lead[l].version + 1 \in Nat
        BY <3>1 DEF LeadRow
      <4> QED BY <3>1, <4>1 DEF LeadRow
    <3>3. /\ call' = [call EXCEPT ![r] = Idle]
          /\ lead' = lead \/ lead' = [lead EXCEPT ![l] = row]
          /\ UNCHANGED sequence
      BY <2>2 DEF WriteLead, Ends, Moves
    <3> HIDE DEF l, row
    <3>4. \A m \in Lead : (lead'[m] # None <=> lead[m] # None)
                          /\ (lead[m] # None => lead'[m].number = lead[m].number)
      BY <3>1, <3>2, <3>3, NoneAssumption DEF IInv, TypeOK
    <3>5. /\ \A q \in Request : q # r => call'[q] = call[q]
          /\ call'[r].at # "numbered"
      BY <3>3 DEF Idle, IInv, TypeOK
    <3> QED BY <3>3, <3>4, <3>5, NumbersKept
  <2>3. ASSUME NEW l \in Lead, DeleteLead(r, l) \/ RestoreLead(r, l) PROVE NumInv'
    <3>1. PICK b \in BOOLEAN : lead' = [lead EXCEPT ![l].deleted = b]
      BY <2>3 DEF DeleteLead, RestoreLead
    <3> DEFINE row == [lead[l] EXCEPT !.deleted = b]
    <3>2. lead[l] \in LeadRow /\ row \in LeadRow /\ row.number = lead[l].number
      BY <2>3 DEF DeleteLead, RestoreLead, LiveLead, LeadRow, IInv, TypeOK
    <3>3. lead' = [lead EXCEPT ![l] = row]
      BY <3>1
    <3> HIDE DEF row
    <3>4. \A m \in Lead : (lead'[m] # None <=> lead[m] # None)
                          /\ (lead[m] # None => lead'[m].number = lead[m].number)
      BY <3>2, <3>3, NoneAssumption DEF IInv, TypeOK
    <3>5. UNCHANGED <<call, sequence>>
      BY <2>3 DEF DeleteLead, RestoreLead, AtOnce
    <3> QED BY <3>4, <3>5, NumbersKept
  <2>4. ASSUME NEW l \in Lead, AddNote(r, l) PROVE NumInv'
    BY <2>4, NumbersKept DEF AddNote, AtOnce
  <2> QED BY <1>3, <2>1, <2>2, <2>3, <2>4 DEF ChangeLeads
<1>4. CASE ChangeTags(r)
  <2>1. UNCHANGED <<lead, sequence>>
    BY <1>4 DEF ChangeTags, CreateTag, InsertTag, AssignTag, RemoveTag,
         InsertTagged, DeleteTagged, leadVars
  <2> DEFINE DrawsNone ==
        /\ \A q \in Request : q # r => call'[q] = call[q]
        /\ call'[r].at = "numbered" => call'[r] = call[r]
  <2>2. DrawsNone
    <3>1. ASSUME NEW n \in TagName, CreateTag(r, n) PROVE DrawsNone
      BY <3>1 DEF CreateTag, Starts, IInv, TypeOK
    <3>2. ASSUME NEW l \in Lead, NEW g \in Tag, AssignTag(r, l, g) \/ RemoveTag(r, l, g)
          PROVE  DrawsNone
      BY <3>2 DEF AssignTag, RemoveTag, Starts, IInv, TypeOK
    <3>3. ASSUME NEW g \in Tag, InsertTag(r, g) PROVE DrawsNone
      BY <3>3 DEF InsertTag, Ends, Moves, Idle, IInv, TypeOK
    <3>4. ASSUME InsertTagged(r) \/ DeleteTagged(r) PROVE DrawsNone
      BY <3>4 DEF InsertTagged, DeleteTagged, Ends, Moves, Idle, IInv, TypeOK
    <3> QED BY <1>4, <3>1, <3>2, <3>3, <3>4 DEF ChangeTags
  <2> QED BY <2>1, <2>2, NumbersKept
<1>5. CASE ChangeTasks(r)
  <2>1. UNCHANGED <<lead, sequence>>
    BY <1>5 DEF ChangeTasks, AddTask, InsertTask, LoadTask, WriteTask, DeleteTask, leadVars
  <2> DEFINE DrawsNone ==
        /\ \A q \in Request : q # r => call'[q] = call[q]
        /\ call'[r].at = "numbered" => call'[r] = call[r]
  <2>2. DrawsNone
    <3>1. ASSUME NEW l \in Lead, AddTask(r, l) PROVE DrawsNone
      BY <3>1 DEF AddTask, Starts, IInv, TypeOK
    <3>2. ASSUME NEW t \in Task, NEW op \in TaskOp, NEW to \in TaskStatus,
                 LoadTask(r, t, op, to)
          PROVE  DrawsNone
      BY <3>2 DEF LoadTask, Starts, IInv, TypeOK
    <3>3. ASSUME NEW t \in Task, InsertTask(r, t) PROVE DrawsNone
      BY <3>3 DEF InsertTask, Ends, Moves, Idle, IInv, TypeOK
    <3>4. ASSUME WriteTask(r) PROVE DrawsNone
      BY <3>4 DEF WriteTask, Ends, Moves, Idle, IInv, TypeOK
    <3>5. ASSUME NEW t \in Task, DeleteTask(r, t) PROVE DrawsNone
      BY <3>5 DEF DeleteTask, AtOnce
    <3> QED BY <1>5, <3>1, <3>2, <3>3, <3>4, <3>5 DEF ChangeTasks
  <2> QED BY <2>1, <2>2, NumbersKept
<1>6. CASE Abort(r)
  BY <1>6, NumbersKept DEF Abort, Ends, Moves, Idle, leadVars, IInv, TypeOK
<1> QED BY <1>2, <1>3, <1>4, <1>5, <1>6

LEMMA Numbers == Spec => []NumInv
BY Typed, InitNumbers, NextNumbers, PTL DEF Spec

(* However many requests create leads at the same time, and wherever they  *)
(* fail, the numbers given are the first ones, each given once.            *)
THEOREM NumbersAreSequential == Spec => []NumbersSequential
<1>1. NumInv => NumbersSequential
  BY DEF NumInv
<1> QED BY Numbers, <1>1, PTL

-----------------------------------------------------------------------------
(* Tasks and their timelines. *)
LEMMA InitTasks == Init => TaskInv
BY DEF Init, TaskInv, Loaded, Agrees, Idle

(* A request that loads no task, while no task changes its status. *)
LEMMA TasksKept ==
  ASSUME IInv, TaskInv, NEW r \in Request,
         \A q \in Request : q # r => call'[q] = call[q],
         call'[r].at = "changing" => call'[r] = call[r],
         \A t \in Task :
           \/ task'[t] = task[t]
           \/ /\ task[t] # None /\ task'[t] # None
              /\ task'[t].status = task[t].status
              /\ task'[t].completed = task[t].completed
              /\ task'[t].version = task[t].version,
         UNCHANGED timeline
  PROVE  TaskInv'
<1>1. \A t \in Task : Agrees(t)'
  BY DEF TaskInv, Agrees
<1>2. ASSUME NEW q \in Request, call'[q].at = "changing" PROVE Loaded(q)'
  <2>1. call'[q] = call[q]
    BY <1>2
  <2>2. call[q].task \in Task
    BY <1>2, <2>1, Kinds DEF IInv, TypeOK, Change
  <2> QED BY <1>2, <2>1, <2>2 DEF TaskInv, Loaded
<1> QED BY <1>1, <1>2 DEF TaskInv, Loaded

(* One more entry in the timeline of a task. *)
LEMMA OneMore ==
  ASSUME NEW log \in Seq(TaskEntry), NEW e \in TaskEntry,
         log # << >> => log[Len(log)].to = e.from,
         \A i \in 2 .. Len(log) : log[i].from = log[i - 1].to
  PROVE  LET new == Append(log, e) IN
           /\ Len(new) = Len(log) + 1
           /\ new[Len(new)] = e
           /\ \A i \in 2 .. Len(new) : new[i].from = new[i - 1].to
<1> DEFINE new == Append(log, e)
<1>1. /\ Len(log) \in Nat
      /\ Len(new) = Len(log) + 1
      /\ new[Len(log) + 1] = e
      /\ \A i \in 1 .. Len(log) : new[i] = log[i]
  OBVIOUS
<1> HIDE DEF new
<1>2. ASSUME NEW i \in 2 .. Len(new) PROVE new[i].from = new[i - 1].to
  <2>1. CASE i <= Len(log)
    <3>1. new[i] = log[i] /\ new[i - 1] = log[i - 1] /\ i \in 2 .. Len(log)
      BY <1>1, <2>1
    <3> QED BY <3>1
  <2>2. CASE i = Len(log) + 1
    <3>1. new[i] = e /\ new[i - 1] = log[Len(log)] /\ log # << >>
      BY <1>1, <2>2
    <3> QED BY <3>1
  <2> QED BY <1>1, <2>1, <2>2
<1> QED BY <1>1, <1>2 DEF new

LEMMA InsertTaskKeeps ==
  ASSUME IInv, TaskInv, NEW r \in Request, NEW t \in Task, InsertTask(r, t)
  PROVE  TaskInv'
<1> DEFINE row == [lead |-> call[r].lead, status |-> "OPEN", completed |-> FALSE,
                   version |-> 1, deleted |-> FALSE]
           entry == [type |-> "CREATED", from |-> "OPEN", to |-> "OPEN"]
<1>1. /\ row \in TaskRow /\ row.status = "OPEN" /\ row.completed = FALSE
      /\ row.version = 1
  BY Kinds DEF InsertTask, Addition, TaskRow, TaskStatus, IInv, TypeOK
<1>2. entry \in TaskEntry /\ entry.to = "OPEN"
  BY DEF TaskEntry, TaskStatus
<1>3. /\ task[t] = None /\ task' = [task EXCEPT ![t] = row]
      /\ timeline' = [timeline EXCEPT ![t] = Append(@, entry)]
  BY DEF InsertTask
<1>4. /\ \A q \in Request : q # r => call'[q] = call[q]
      /\ call'[r].at # "changing"
  BY DEF InsertTask, Ends, Moves, Idle, IInv, TypeOK
<1> HIDE DEF row, entry
<1>5. /\ task'[t] = row /\ row # None
      /\ \A u \in Task \ {t} : task'[u] = task[u] /\ timeline'[u] = timeline[u]
  BY <1>1, <1>3, NoneAssumption DEF IInv, TypeOK
<1>6. timeline[t] = << >> /\ timeline'[t] = Append(timeline[t], entry)
  BY <1>3 DEF TaskInv, Agrees, IInv, TypeOK
<1>7. /\ Len(timeline'[t]) = 1 /\ timeline'[t][1] = entry
  BY <1>2, <1>6
<1>8. ASSUME NEW u \in Task PROVE Agrees(u)'
  <2>1. CASE u = t
    <3>1. 2 .. Len(timeline'[t]) = {}
      BY <1>7
    <3>2. /\ task'[u] = row /\ row # None
          /\ row.completed <=> row.status = "COMPLETED"
          /\ Len(timeline'[u]) = row.version /\ row.version > 0
          /\ timeline'[u][Len(timeline'[u])].to = row.status
      BY <1>1, <1>2, <1>5, <1>7, <2>1
    <3> QED BY <2>1, <3>1, <3>2 DEF Agrees
  <2>2. CASE u # t
    BY <1>5, <2>2 DEF TaskInv, Agrees
  <2> QED BY <2>1, <2>2
<1>9. ASSUME NEW q \in Request, call'[q].at = "changing" PROVE Loaded(q)'
  <2>1. call'[q] = call[q]
    BY <1>4, <1>9
  <2>2. call[q].task \in Task /\ task[call[q].task] # None
    BY <1>9, <2>1, Kinds DEF IInv, TypeOK, Change, Refers
  <2>3. task'[call[q].task] = task[call[q].task]
    BY <1>3, <1>5, <2>2
  <2> QED BY <2>1, <2>3 DEF TaskInv, Loaded
<1> QED BY <1>8, <1>9 DEF TaskInv, Loaded

LEMMA LoadTaskKeeps ==
  ASSUME IInv, TaskInv, NEW r \in Request, NEW t \in Task, NEW op \in TaskOp,
         NEW to \in TaskStatus, LoadTask(r, t, op, to)
  PROVE  TaskInv'
<1>1. /\ \A q \in Request : q # r => call'[q] = call[q]
      /\ call'[r].task = t /\ call'[r].row = task[t]
      /\ UNCHANGED taskVars
  BY DEF LoadTask, Starts, IInv, TypeOK
<1>2. task[t].version \in Nat
  BY DEF LoadTask, LiveTask, TaskRow, IInv, TypeOK
<1>3. \A q \in Request : Loaded(q)'
  <2>1. call'[r].op = op /\ call'[r].to = to /\ Allowed(op, task[t].status, to)
    BY DEF LoadTask, Starts, IInv, TypeOK
  <2> QED BY <1>1, <1>2, <2>1 DEF TaskInv, Loaded, taskVars
<1> QED BY <1>1, <1>3 DEF TaskInv, Agrees, taskVars

LEMMA WriteTaskKeeps ==
  ASSUME IInv, TaskInv, NEW r \in Request, WriteTask(r)
  PROVE  TaskInv'
<1> DEFINE c == call[r]
           t == c.task
           status == IF c.to = c.row.status THEN task[t].status ELSE c.to
           completed == CompletedAt(c.op, c.row.status, c.to, task[t].completed)
           row == [task[t] EXCEPT !.status = status, !.completed = completed,
                                  !.version = c.row.version + 1]
           entry == [type |-> Entry(c.op), from |-> c.row.status, to |-> c.to]
<1>1. /\ \A q \in Request : q # r => call'[q] = call[q]
      /\ call'[r].at # "changing"
  BY DEF WriteTask, Ends, Moves, Idle, IInv, TypeOK
<1>2. /\ c.at = "changing" /\ t \in Task /\ task[t] # None /\ task[t] \in TaskRow
      /\ c.row \in TaskRow /\ c.to \in TaskStatus /\ c.op \in TaskOp
  BY Kinds DEF WriteTask, Change, IInv, TypeOK, Refers
<1>3. CASE ~SameVersion(t, c.row)
  <2>1. UNCHANGED taskVars
    BY <1>3 DEF WriteTask
  <2> QED BY <1>1, <2>1, TasksKept DEF taskVars
<1>4. CASE SameVersion(t, c.row)
  <2>1. /\ task' = [task EXCEPT ![t] = row]
        /\ timeline' = [timeline EXCEPT ![t] = Append(@, entry)]
    BY <1>4 DEF WriteTask
  <2>2. /\ c.row.version = task[t].version /\ c.row.status = task[t].status
        /\ task[t].version \in Nat
    BY <1>2, <1>4 DEF SameVersion, TaskInv, Loaded, TaskRow
  <2>3. status = c.to
    BY <2>2
  <2>4. task[t].completed <=> task[t].status = "COMPLETED"
    BY <1>2 DEF TaskInv, Agrees
  <2>5. Allowed(c.op, c.row.status, c.to)
    BY <1>2 DEF TaskInv, Loaded
  <2>6. completed <=> c.to = "COMPLETED"
    <3> HIDE DEF c
    <3>1. CASE c.op = "update"
      BY <2>2, <2>4, <3>1 DEF CompletedAt
    <3>2. CASE c.op = "complete"
      BY <2>5, <3>2 DEF CompletedAt, Allowed
    <3>3. CASE c.op = "reopen"
      BY <2>5, <3>3 DEF CompletedAt, Allowed
    <3>4. CASE c.op = "cancel"
      BY <2>2, <2>4, <2>5, <3>4 DEF CompletedAt, Allowed
    <3> QED BY <1>2, <3>1, <3>2, <3>3, <3>4 DEF TaskOp
  <2>7. row \in TaskRow /\ row.status = c.to /\ row.version = task[t].version + 1
        /\ (row.completed <=> row.status = "COMPLETED")
    <3>1. completed \in BOOLEAN
      BY <1>2 DEF CompletedAt, TaskRow
    <3>2. c.row.version + 1 \in Nat
      BY <2>2
    <3> HIDE DEF completed, status, c, t
    <3> QED BY <1>2, <2>2, <2>3, <2>6, <3>1, <3>2 DEF TaskRow
  <2>8. entry \in TaskEntry /\ entry.from = task[t].status /\ entry.to = c.to
    BY <1>2, <2>2 DEF Entry, TaskEntry, TaskRow, TaskOp
  <2> HIDE DEF c, t, row, entry
  <2>9. /\ task'[t] = row /\ row # None
        /\ timeline'[t] = Append(timeline[t], entry)
        /\ \A u \in Task \ {t} : task'[u] = task[u] /\ timeline'[u] = timeline[u]
    BY <1>2, <2>1, <2>7, NoneAssumption DEF IInv, TypeOK
  <2>10. /\ Len(timeline'[t]) = row.version
         /\ timeline'[t][Len(timeline'[t])] = entry
         /\ \A i \in 2 .. Len(timeline'[t]) : timeline'[t][i].from = timeline'[t][i - 1].to
    <3>1. /\ timeline[t] \in Seq(TaskEntry)
          /\ Len(timeline[t]) = task[t].version
          /\ timeline[t][Len(timeline[t])].to = task[t].status
          /\ \A i \in 2 .. Len(timeline[t]) : timeline[t][i].from = timeline[t][i - 1].to
      BY <1>2 DEF IInv, TypeOK, TaskInv, Agrees
    <3> QED BY <2>7, <2>8, <2>9, <3>1, OneMore
  <2>11. ASSUME NEW u \in Task PROVE Agrees(u)'
    <3>1. CASE u = t
      <4>1. /\ task'[u] = row /\ row # None
            /\ row.completed <=> row.status = "COMPLETED"
            /\ row.version > 0
        BY <2>2, <2>7, <2>9, <3>1
      <4>2. timeline'[u][Len(timeline'[u])].to = row.status
        BY <2>7, <2>8, <2>10, <3>1
      <4> QED BY <2>10, <3>1, <4>1, <4>2 DEF Agrees
    <3>2. CASE u # t
      BY <2>9, <3>2 DEF TaskInv, Agrees
    <3> QED BY <3>1, <3>2
  <2>12. ASSUME NEW q \in Request, call'[q].at = "changing" PROVE Loaded(q)'
    <3>1. call'[q] = call[q] /\ call[q] \in Change /\ Loaded(q)
      BY <1>1, <2>12, Kinds DEF IInv, TypeOK, TaskInv
    <3>2. CASE call[q].task = t
      BY <2>2, <2>7, <2>9, <3>1, <3>2 DEF Loaded, Change, TaskRow
    <3>3. CASE call[q].task # t
      BY <2>9, <3>1, <3>3 DEF Loaded, Change
    <3> QED BY <3>2, <3>3
  <2> QED BY <2>11, <2>12 DEF TaskInv, Loaded
<1> QED BY <1>3, <1>4

LEMMA NextTasks == IInv /\ TaskInv /\ [Next]_vars => TaskInv'
<1> SUFFICES ASSUME IInv, TaskInv, [Next]_vars PROVE TaskInv'
  OBVIOUS
<1>1. CASE UNCHANGED vars
  BY <1>1 DEF TaskInv, Loaded, Agrees, vars
<1> SUFFICES ASSUME NEW r \in Request,
                    CreateLeads(r) \/ ChangeLeads(r) \/ ChangeTags(r)
                      \/ ChangeTasks(r) \/ Abort(r)
             PROVE  TaskInv'
  BY <1>1 DEF Next
<1> DEFINE LoadsNone ==
      /\ \A q \in Request : q # r => call'[q] = call[q]
      /\ call'[r].at = "changing" => call'[r] = call[r]
<1>2. CASE CreateLeads(r)
  <2>1. UNCHANGED taskVars
    BY <1>2 DEF CreateLeads, CreateLead, TakeNumber, NoSequenceYet, InsertSequence, InsertLead
  <2>2. LoadsNone
    <3>1. ASSUME NEW c \in Contact, CreateLead(r, c) PROVE LoadsNone
      BY <3>1 DEF CreateLead, Starts, IInv, TypeOK
    <3>2. ASSUME TakeNumber(r) PROVE LoadsNone
      BY <3>2 DEF TakeNumber, Moves, IInv, TypeOK
    <3>3. ASSUME NoSequenceYet(r) PROVE LoadsNone
      BY <3>3 DEF NoSequenceYet, Moves, IInv, TypeOK
    <3>4. ASSUME InsertSequence(r) PROVE LoadsNone
      BY <3>4 DEF InsertSequence, Ends, Moves, Idle, IInv, TypeOK
    <3>5. ASSUME NEW l \in Lead, InsertLead(r, l) PROVE LoadsNone
      BY <3>5 DEF InsertLead, Ends, Moves, Idle, IInv, TypeOK
    <3> QED BY <1>2, <3>1, <3>2, <3>3, <3>4, <3>5 DEF CreateLeads
  <2> QED BY <2>1, <2>2, TasksKept DEF taskVars
<1>3. CASE ChangeLeads(r)
  <2>1. ASSUME NEW l \in Lead, DeleteLead(r, l) PROVE TaskInv'
    <3>1. ASSUME NEW t \in Task, task[t] # None
          PROVE  /\ task'[t] # None
                 /\ task'[t].status = task[t].status
                 /\ task'[t].completed = task[t].completed
                 /\ task'[t].version = task[t].version
      <4>1. task'[t] = IF task[t].lead = l
                         THEN [task[t] EXCEPT !.deleted = TRUE] ELSE task[t]
        BY <2>1, <3>1 DEF DeleteLead
      <4>2. task[t] \in TaskRow
        BY <3>1 DEF IInv, TypeOK
      <4>3. [task[t] EXCEPT !.deleted = TRUE] \in TaskRow
        BY <4>2 DEF TaskRow
      <4> QED BY <3>1, <4>1, <4>2, <4>3, NoneAssumption DEF TaskRow
    <3>2. ASSUME NEW t \in Task, task[t] = None PROVE task'[t] = task[t]
      BY <2>1, <3>2 DEF DeleteLead
    <3>3. UNCHANGED <<call, timeline>>
      BY <2>1 DEF DeleteLead, AtOnce
    <3> QED BY <3>1, <3>2, <3>3, TasksKept
  <2>2. ASSUME NEW l \in Lead, NEW c \in Contact, PatchLead(r, l, c) PROVE TaskInv'
    <3>1. LoadsNone
      BY <2>2 DEF PatchLead, Starts, IInv, TypeOK
    <3> QED BY <2>2, <3>1, TasksKept DEF PatchLead, taskVars
  <2>3. ASSUME WriteLead(r) PROVE TaskInv'
    <3>1. LoadsNone
      BY <2>3 DEF WriteLead, Ends, Moves, Idle, IInv, TypeOK
    <3>2. UNCHANGED taskVars
      BY <2>3 DEF WriteLead
    <3> QED BY <3>1, <3>2, TasksKept DEF taskVars
  <2>4. ASSUME NEW l \in Lead, RestoreLead(r, l) \/ AddNote(r, l) PROVE TaskInv'
    <3>1. UNCHANGED <<call, taskVars>>
      BY <2>4 DEF RestoreLead, AddNote, AtOnce
    <3> QED BY <3>1, TasksKept DEF taskVars
  <2> QED BY <1>3, <2>1, <2>2, <2>3, <2>4 DEF ChangeLeads
<1>4. CASE ChangeTags(r)
  <2>1. UNCHANGED taskVars
    BY <1>4 DEF ChangeTags, CreateTag, InsertTag, AssignTag, RemoveTag,
         InsertTagged, DeleteTagged
  <2>2. LoadsNone
    <3>1. ASSUME NEW n \in TagName, CreateTag(r, n) PROVE LoadsNone
      BY <3>1 DEF CreateTag, Starts, IInv, TypeOK
    <3>2. ASSUME NEW l \in Lead, NEW g \in Tag, AssignTag(r, l, g) \/ RemoveTag(r, l, g)
          PROVE  LoadsNone
      BY <3>2 DEF AssignTag, RemoveTag, Starts, IInv, TypeOK
    <3>3. ASSUME NEW g \in Tag, InsertTag(r, g) PROVE LoadsNone
      BY <3>3 DEF InsertTag, Ends, Moves, Idle, IInv, TypeOK
    <3>4. ASSUME InsertTagged(r) \/ DeleteTagged(r) PROVE LoadsNone
      BY <3>4 DEF InsertTagged, DeleteTagged, Ends, Moves, Idle, IInv, TypeOK
    <3> QED BY <1>4, <3>1, <3>2, <3>3, <3>4 DEF ChangeTags
  <2> QED BY <2>1, <2>2, TasksKept DEF taskVars
<1>5. CASE ChangeTasks(r)
  <2>1. ASSUME NEW l \in Lead, AddTask(r, l) PROVE TaskInv'
    <3>1. LoadsNone
      BY <2>1 DEF AddTask, Starts, IInv, TypeOK
    <3> QED BY <2>1, <3>1, TasksKept DEF AddTask, taskVars
  <2>2. ASSUME NEW t \in Task, DeleteTask(r, t) PROVE TaskInv'
    <3> DEFINE row == [task[t] EXCEPT !.deleted = TRUE]
    <3>1. /\ task[t] # None /\ task[t] \in TaskRow
          /\ task' = [task EXCEPT ![t] = row]
          /\ UNCHANGED <<call, timeline>>
      BY <2>2 DEF DeleteTask, LiveTask, AtOnce, IInv, TypeOK
    <3>2. /\ row \in TaskRow /\ row.status = task[t].status
          /\ row.completed = task[t].completed /\ row.version = task[t].version
      BY <3>1 DEF TaskRow
    <3> HIDE DEF row
    <3> QED BY <3>1, <3>2, NoneAssumption, TasksKept DEF IInv, TypeOK
  <2> QED BY <1>5, <2>1, <2>2, InsertTaskKeeps, LoadTaskKeeps, WriteTaskKeeps DEF ChangeTasks
<1>6. CASE Abort(r)
  <2>1. LoadsNone
    BY <1>6 DEF Abort, Ends, Moves, Idle, IInv, TypeOK
  <2> QED BY <1>6, <2>1, TasksKept DEF Abort, taskVars
<1> QED BY <1>2, <1>3, <1>4, <1>5, <1>6

LEMMA Tasks == Spec => []TaskInv
BY Typed, InitTasks, NextTasks, PTL DEF Spec

(* completed_at is set exactly on completed tasks, however many requests   *)
(* change a task at the same time.                                         *)
THEOREM CompletedAtIsTrue == Spec => []CompletedAtMatchesStatus
<1>1. TaskInv => CompletedAtMatchesStatus
  BY DEF TaskInv, Agrees, CompletedAtMatchesStatus
<1> QED BY Tasks, <1>1, PTL

(* The timeline of a task tells its whole history, version by version.     *)
THEOREM TimelineIsComplete == Spec => []TimelineTellsTask
<1>1. TaskInv => TimelineTellsTask
  BY DEF TaskInv, Agrees, TimelineTellsTask
<1> QED BY Tasks, <1>1, PTL

-----------------------------------------------------------------------------
(* How often x is in s. *)
Times(s, x) == Cardinality({i \in 1 .. Len(s) : s[i] = x})

(* An entry at the end is one more of its kind and none of another. *)
LEMMA TimesGrows ==
  ASSUME NEW S, NEW s \in Seq(S), NEW e \in S, NEW x
  PROVE  /\ Times(s, x) \in Nat
         /\ Times(Append(s, e), x) = Times(s, x) + (IF e = x THEN 1 ELSE 0)
         /\ Times(<< >>, x) = 0
<1> DEFINE At(q) == {i \in 1 .. Len(q) : q[i] = x}
<1>1. IsFiniteSet(At(s)) /\ Cardinality(At(s)) \in Nat
  <2>1. IsFiniteSet(1 .. Len(s)) /\ At(s) \subseteq 1 .. Len(s)
    BY FS_Interval
  <2>2. IsFiniteSet(At(s))
    <3> HIDE DEF At
    <3> QED BY <2>1, FS_Subset
  <2> QED BY <2>2, FS_CardinalityType
<1>2. PICK n \in Nat : n = Len(s) + 1
  OBVIOUS
<1>3. /\ Len(Append(s, e)) = n /\ Append(s, e)[n] = e /\ n \notin At(s)
      /\ \A i \in 1 .. Len(s) : Append(s, e)[i] = s[i]
  BY <1>2
<1>4. At(Append(s, e)) = IF e = x THEN At(s) \cup {n} ELSE At(s)
  BY <1>2, <1>3
<1>5. At(<< >>) = {} /\ Cardinality({}) = 0
  BY FS_EmptySet
<1>6. Cardinality(At(s) \cup {n}) = Cardinality(At(s)) + 1
  <2> HIDE DEF At
  <2> QED BY <1>1, <1>3, FS_AddElement
<1>7. /\ Times(s, x) = Cardinality(At(s))
      /\ Times(Append(s, e), x) = Cardinality(At(Append(s, e)))
      /\ Times(<< >>, x) = Cardinality(At(<< >>))
  BY DEF Times
<1> HIDE DEF At
<1>8. CASE e = x
  BY <1>1, <1>4, <1>5, <1>6, <1>7, <1>8
<1>9. CASE e # x
  <2>1. At(Append(s, e)) = At(s) /\ (IF e = x THEN 1 ELSE 0) = 0
    BY <1>4, <1>9
  <2>2. Times(Append(s, e), x) = Times(s, x) /\ Times(s, x) \in Nat
    BY <1>1, <1>7, <2>1
  <2>3. Times(Append(s, e), x) = Times(s, x) + (IF e = x THEN 1 ELSE 0)
    BY <1>9, <2>2
  <2> QED BY <1>5, <1>7, <2>2, <2>3
<1> QED BY <1>8, <1>9

Added(g)   == [type |-> "TAG_ADDED", tag |-> g]
Removed(g) == [type |-> "TAG_REMOVED", tag |-> g]

(* An entry e of lead l goes with what happens to the assignments. *)
Tells(l, e) ==
  /\ history' = [history EXCEPT ![l] = Append(@, e)]
  /\ \A m \in Lead, g \in Tag :
       IF m = l /\ e = Added(g)
         THEN <<m, g>> \notin tagged /\ <<m, g>> \in tagged'
         ELSE IF m = l /\ e = Removed(g)
           THEN <<m, g>> \in tagged /\ <<m, g>> \notin tagged'
           ELSE <<m, g>> \in tagged' <=> <<m, g>> \in tagged

LEMMA TagsTold ==
  ASSUME IInv, TagTimeline, NEW l \in Lead, NEW e \in LeadEntry, Tells(l, e)
  PROVE  TagTimeline'
<1> SUFFICES ASSUME NEW m \in Lead, NEW g \in Tag
             PROVE  (Entries(m, "TAG_ADDED", g) - Entries(m, "TAG_REMOVED", g) =
                       IF <<m, g>> \in tagged THEN 1 ELSE 0)'
  BY DEF TagTimeline
<1>1. PICK s \in Seq(LeadEntry) : s = history[m]
  BY DEF IInv, TypeOK
<1>2. PICK a, r : a = Added(g) /\ r = Removed(g)
  OBVIOUS
<1>3. a # r
  BY <1>2 DEF Added, Removed
<1>4. PICK na \in Nat, nr \in Nat : na = Times(s, a) /\ nr = Times(s, r)
  BY TimesGrows
<1>5. na - nr = IF <<m, g>> \in tagged THEN 1 ELSE 0
  <2>1. /\ Entries(m, "TAG_ADDED", g) = na
        /\ Entries(m, "TAG_REMOVED", g) = nr
    BY <1>1, <1>2, <1>4 DEF Entries, Times, Added, Removed
  <2> QED BY <2>1 DEF TagTimeline
<1>6. PICK z \in Seq(LeadEntry) : z = history'[m] /\ (z = IF m = l THEN Append(s, e) ELSE s)
  <2>1. Append(s, e) \in Seq(LeadEntry)
    OBVIOUS
  <2>2. history'[m] = IF m = l THEN Append(s, e) ELSE s
    BY <1>1 DEF Tells, IInv, TypeOK
  <2> QED BY <2>1, <2>2
<1>7. /\ Entries(m, "TAG_ADDED", g)' = Times(z, a)
      /\ Entries(m, "TAG_REMOVED", g)' = Times(z, r)
  BY <1>2, <1>6 DEF Entries, Times, Added, Removed
<1>8. CASE m # l
  BY <1>4, <1>5, <1>6, <1>7, <1>8 DEF Tells
<1>9. CASE m = l
  <2>1. /\ Times(z, a) = na + (IF e = a THEN 1 ELSE 0)
        /\ Times(z, r) = nr + (IF e = r THEN 1 ELSE 0)
    BY <1>4, <1>6, <1>9, TimesGrows
  <2>2. IF e = a THEN <<m, g>> \notin tagged /\ <<m, g>> \in tagged'
        ELSE IF e = r THEN <<m, g>> \in tagged /\ <<m, g>> \notin tagged'
        ELSE <<m, g>> \in tagged' <=> <<m, g>> \in tagged
    BY <1>2, <1>9 DEF Tells
  <2>3. CASE e = a
    BY <1>3, <1>5, <1>7, <2>1, <2>2, <2>3
  <2>4. CASE e = r
    BY <1>3, <1>5, <1>7, <2>1, <2>2, <2>4
  <2>5. CASE e # a /\ e # r
    BY <1>5, <1>7, <2>1, <2>2, <2>5
  <2> QED BY <2>3, <2>4, <2>5
<1> QED BY <1>8, <1>9

LEMMA TagsUntouched ==
  ASSUME TagTimeline, UNCHANGED <<history, tagged>>
  PROVE  TagTimeline'
BY DEF TagTimeline, Entries

(* Entries that are not about tags. *)
LEMMA OtherEntries ==
  ASSUME NEW l \in Lead, NEW e \in {[type |-> "CREATED"], [type |-> "UPDATED"], [type |-> "NOTE_ADDED"]},
         history' = [history EXCEPT ![l] = Append(@, e)], UNCHANGED tagged
  PROVE  e \in LeadEntry /\ Tells(l, e)
<1>1. e \in LeadEntry
  BY DEF LeadEntry
<1>2. \A g \in Tag : e # Added(g) /\ e # Removed(g)
  BY DEF Added, Removed
<1> QED BY <1>1, <1>2 DEF Tells

LEMMA NextTags == IInv /\ TagTimeline /\ [Next]_vars => TagTimeline'
<1> SUFFICES ASSUME IInv, TagTimeline, [Next]_vars PROVE TagTimeline'
  OBVIOUS
<1>1. ASSUME NEW r \in Request, NEW l \in Lead, InsertLead(r, l) PROVE TagTimeline'
  <2>1. PICK e : e = [type |-> "CREATED"]
    OBVIOUS
  <2>2. history' = [history EXCEPT ![l] = Append(@, e)] /\ UNCHANGED tagged
    BY <1>1, <2>1 DEF InsertLead, tagVars
  <2> QED BY <2>1, <2>2, OtherEntries, TagsTold
<1>2. ASSUME NEW r \in Request, WriteLead(r) PROVE TagTimeline'
  <2>1. PICK e : e = [type |-> "UPDATED"]
    OBVIOUS
  <2>2. PICK l \in Lead : l = call[r].lead
    <3>1. call[r] \in Call /\ call[r].at = "patching"
      BY <1>2 DEF WriteLead, IInv, TypeOK
    <3> QED BY <3>1, Kinds DEF Patch
  <2>3. CASE lead[l].version = call[r].version
    <3>1. history' = [history EXCEPT ![l] = Append(@, e)] /\ UNCHANGED tagged
      BY <1>2, <2>1, <2>2, <2>3 DEF WriteLead, tagVars
    <3> QED BY <2>1, <3>1, OtherEntries, TagsTold
  <2>4. CASE lead[l].version # call[r].version
    BY <1>2, <2>2, <2>4, TagsUntouched DEF WriteLead, tagVars
  <2> QED BY <2>3, <2>4
<1>3. ASSUME NEW r \in Request, NEW l \in Lead, AddNote(r, l) PROVE TagTimeline'
  <2>1. PICK e : e = [type |-> "NOTE_ADDED"]
    OBVIOUS
  <2>2. history' = [history EXCEPT ![l] = Append(@, e)] /\ UNCHANGED tagged
    BY <1>3, <2>1 DEF AddNote, tagVars
  <2> QED BY <2>1, <2>2, OtherEntries, TagsTold
<1>4. ASSUME NEW r \in Request, InsertTagged(r) \/ DeleteTagged(r) PROVE TagTimeline'
  <2>1. PICK l \in Lead, g \in Tag : l = call[r].lead /\ g = call[r].tag
    <3>1. call[r] \in Call /\ call[r].at \in {"tagging", "untagging"}
      BY <1>4 DEF InsertTagged, DeleteTagged, IInv, TypeOK
    <3> QED BY <3>1, Kinds DEF Tagging
  <2>2. PICK a, z : a = Added(g) /\ z = Removed(g)
    OBVIOUS
  <2>3. /\ a \in LeadEntry /\ z \in LeadEntry
        /\ \A h \in Tag : /\ a = Added(h) <=> h = g
                          /\ z = Removed(h) <=> h = g
                          /\ a # Removed(h) /\ z # Added(h)
    <3>1. \A h \in Tag : /\ Added(h).tag = h /\ Added(h).type = "TAG_ADDED"
                         /\ Removed(h).tag = h /\ Removed(h).type = "TAG_REMOVED"
      BY DEF Added, Removed
    <3>2. Added(g) \in LeadEntry /\ Removed(g) \in LeadEntry
      BY DEF Added, Removed, LeadEntry
    <3> QED BY <2>2, <3>1, <3>2
  <2>4. CASE InsertTagged(r) /\ <<l, g>> \notin tagged
    <3>1. history' = [history EXCEPT ![l] = Append(@, a)] /\ tagged' = tagged \cup {<<l, g>>}
      BY <2>1, <2>2, <2>4 DEF InsertTagged, Logged, Added
    <3>2. Tells(l, a)
      BY <2>3, <2>4, <3>1 DEF Tells
    <3> QED BY <2>3, <3>2, TagsTold
  <2>5. CASE DeleteTagged(r) /\ <<l, g>> \in tagged
    <3>1. history' = [history EXCEPT ![l] = Append(@, z)] /\ tagged' = tagged \ {<<l, g>>}
      BY <2>1, <2>2, <2>5 DEF DeleteTagged, DeletedARow, Logged, Removed
    <3>2. Tells(l, z)
      BY <2>3, <2>5, <3>1 DEF Tells
    <3> QED BY <2>3, <3>2, TagsTold
  <2>6. CASE InsertTagged(r) /\ <<l, g>> \in tagged
    BY <2>1, <2>6, TagsUntouched DEF InsertTagged
  <2>7. CASE DeleteTagged(r) /\ <<l, g>> \notin tagged
    BY <2>1, <2>7, TagsUntouched DEF DeleteTagged, DeletedARow
  <2> QED BY <1>4, <2>4, <2>5, <2>6, <2>7
<1>5. CASE UNCHANGED <<history, tagged>>
  BY <1>5, TagsUntouched
<1>6. CASE UNCHANGED vars
  BY <1>5, <1>6 DEF vars
<1>7. CASE Next
  <2>1. PICK r \in Request : CreateLeads(r) \/ ChangeLeads(r) \/ ChangeTags(r) \/ ChangeTasks(r) \/ Abort(r)
    BY <1>7 DEF Next
  <2>2. CASE CreateLeads(r)
    BY <1>1, <1>5, <2>2 DEF CreateLeads, CreateLead, TakeNumber, NoSequenceYet,
                            InsertSequence, leadVars, tagVars
  <2>3. CASE ChangeLeads(r)
    BY <1>2, <1>3, <1>5, <2>3 DEF ChangeLeads, PatchLead, DeleteLead, RestoreLead, leadVars, tagVars
  <2>4. CASE ChangeTags(r)
    BY <1>4, <1>5, <2>4 DEF ChangeTags, CreateTag, InsertTag, AssignTag, RemoveTag, leadVars, tagVars
  <2>5. CASE ChangeTasks(r) \/ Abort(r)
    BY <1>5, <2>5 DEF ChangeTasks, AddTask, InsertTask, LoadTask, WriteTask, DeleteTask,
                      Abort, leadVars, tagVars
  <2> QED BY <2>1, <2>2, <2>3, <2>4, <2>5
<1> QED BY <1>6, <1>7

(* A tag is on a lead exactly if the lead's timeline says that it was added *)
(* once more than removed, though assignments and removals of one tag run  *)
(* at once (lead_service.py, assign_tag_to_lead, remove_tag_from_lead).    *)
THEOREM TimelineTellsTags == Spec => []TagTimeline
<1>1. Init => TagTimeline
  <2> SUFFICES ASSUME Init, NEW l \in Lead, NEW g \in Tag
               PROVE  Entries(l, "TAG_ADDED", g) - Entries(l, "TAG_REMOVED", g) =
                        IF <<l, g>> \in tagged THEN 1 ELSE 0
    BY DEF TagTimeline
  <2>1. history[l] = << >> /\ <<l, g>> \notin tagged
    BY DEF Init
  <2>2. Times(<< >>, Added(g)) = 0 /\ Times(<< >>, Removed(g)) = 0
    BY FS_EmptySet DEF Times
  <2> QED BY <2>1, <2>2 DEF Entries, Times, Added, Removed
<1>2. IInv /\ TagTimeline /\ [Next]_vars => TagTimeline'
  BY NextTags
<1> QED BY <1>1, <1>2, Typed, PTL DEF Spec

-----------------------------------------------------------------------------
(***************************************************************************)
(* Every request takes effect at one instant: the refinement of CrmBook.   *)
(***************************************************************************)
NextBar == IF sequence = None THEN FirstNumber ELSE sequence
NumberBar == [l \in Known |-> lead[l].number]
StatusBar == [t \in ExistingTasks |-> task[t].status]
CompletedBar == {t \in ExistingTasks : task[t].completed}

leadsBar == <<NextBar, NumberBar, tagged, history>>
tasksBar == <<StatusBar, CompletedBar, timeline>>
bars == <<leadsBar, tasksBar>>

Bar == Book!Next \/ UNCHANGED bars

(* The abstract actions, in terms of the mapping. *)
LEMMA BookCreate ==
  ASSUME NEW l \in Lead, l \notin Known,
         NumberBar' = Book!With(NumberBar, l, NextBar),
         NextBar' = NextBar + 1,
         history' = [history EXCEPT ![l] = Append(@, [type |-> "CREATED"])],
         UNCHANGED <<tagged, tasksBar>>
  PROVE  Bar
<1>1. Book!Create(l)
  BY DEF Book!Create, Book!Enters, Book!tasks, NextBar, NumberBar,
         StatusBar, CompletedBar, tasksBar
<1> QED BY <1>1 DEF Bar, Book!Next

LEMMA BookEdit ==
  ASSUME NEW l \in Known, NEW entry \in [type : {"UPDATED", "NOTE_ADDED"}],
         history' = [history EXCEPT ![l] = Append(@, entry)],
         UNCHANGED <<NextBar, NumberBar, tagged, tasksBar>>
  PROVE  Bar
<1>1. l \in Lead
  BY DEF Known
<1>2. Book!Edit(l, entry)
  BY DEF Book!Edit, Book!Enters, Book!tasks, NextBar, NumberBar,
         StatusBar, CompletedBar, tasksBar
<1> QED BY <1>1, <1>2 DEF Bar, Book!Next

LEMMA BookTag ==
  ASSUME NEW l \in Known, NEW g \in Tag,
         \/ /\ <<l, g>> \notin tagged
            /\ tagged' = tagged \cup {<<l, g>>}
            /\ Logged(l, "TAG_ADDED", g)
         \/ /\ <<l, g>> \in tagged
            /\ tagged' = tagged \ {<<l, g>>}
            /\ Logged(l, "TAG_REMOVED", g),
         UNCHANGED <<NextBar, NumberBar, tasksBar>>
  PROVE  Bar
<1>1. l \in Lead
  BY DEF Known
<1>2. Book!PutOn(l, g) \/ Book!TakeOff(l, g)
  BY DEF Book!PutOn, Book!TakeOff, Book!Enters, Book!tasks, Logged, NextBar,
         NumberBar, StatusBar, CompletedBar, tasksBar
<1> QED BY <1>1, <1>2 DEF Bar, Book!Next

LEMMA BookAdd ==
  ASSUME NEW t \in Task, t \notin ExistingTasks,
         StatusBar' = Book!With(StatusBar, t, "OPEN"),
         timeline' = [timeline EXCEPT ![t] =
                        Append(@, [type |-> "CREATED", from |-> "OPEN", to |-> "OPEN"])],
         UNCHANGED <<CompletedBar, leadsBar>>
  PROVE  Bar
<1>1. Book!Add(t)
  BY DEF Book!Add, Book!leads, NextBar, NumberBar, StatusBar, CompletedBar, leadsBar
<1> QED BY <1>1 DEF Bar, Book!Next

LEMMA BookChange ==
  ASSUME NEW t \in ExistingTasks, NEW change \in Changes,
         StatusBar[t] = change.from,
         StatusBar' = [StatusBar EXCEPT ![t] = change.to],
         CompletedBar' = IF change.to = "COMPLETED" THEN CompletedBar \cup {t}
                                                    ELSE CompletedBar \ {t},
         timeline' = [timeline EXCEPT ![t] = Append(@, change)],
         UNCHANGED leadsBar
  PROVE  Bar
<1>1. t \in Task
  BY DEF ExistingTasks
<1>2. Book!Change(t, change)
  BY DEF Book!Change, Book!leads, NextBar, NumberBar, StatusBar, CompletedBar, leadsBar
<1> QED BY <1>1, <1>2 DEF Bar, Book!Next

(* What a step leaves of the picture when it leaves the rows. *)
LEMMA SameTasks ==
  ASSUME UNCHANGED taskVars
  PROVE  UNCHANGED tasksBar
BY DEF taskVars, tasksBar, StatusBar, CompletedBar, ExistingTasks

LEMMA SameNumbers ==
  ASSUME UNCHANGED <<lead, sequence>>
  PROVE  UNCHANGED <<NextBar, NumberBar>>
BY DEF NextBar, NumberBar, Known

(* Rows that change, but not in what the picture shows. *)
LEMMA KeptNumbers ==
  ASSUME \A l \in Lead : /\ lead'[l] # None <=> lead[l] # None
                         /\ lead[l] # None => lead'[l].number = lead[l].number
  PROVE  UNCHANGED NumberBar
<1>1. Known' = Known /\ \A l \in Known : lead'[l].number = lead[l].number
  BY DEF Known
<1> QED BY <1>1 DEF NumberBar

LEMMA KeptTasks ==
  ASSUME \A t \in Task : /\ task'[t] # None <=> task[t] # None
                         /\ task[t] # None => /\ task'[t].status = task[t].status
                                              /\ task'[t].completed = task[t].completed
  PROVE  UNCHANGED <<StatusBar, CompletedBar>>
<1>1. /\ ExistingTasks' = ExistingTasks
      /\ \A t \in ExistingTasks : /\ task'[t].status = task[t].status
                                  /\ task'[t].completed = task[t].completed
  BY DEF ExistingTasks
<1> QED BY <1>1 DEF StatusBar, CompletedBar

LEMMA QuietBar ==
  ASSUME UNCHANGED <<leadVars, tagged, taskVars>>
  PROVE  Bar
BY SameTasks, SameNumbers DEF Bar, bars, leadsBar, leadVars

(* A number is drawn when the lead appears that bears it. *)
LEMMA InsertLeadBar ==
  ASSUME IInv, NumInv, NEW r \in Request, NEW l \in Lead, InsertLead(r, l)
  PROVE  Bar
<1> DEFINE n == call[r].number
           row == [number |-> call[r].number, contact |-> call[r].contact,
                   version |-> 1, deleted |-> FALSE]
<1>1. call[r].at = "numbered" /\ call[r] \in Numbered /\ n = NextBar /\ n \in Nat
  BY Kinds DEF InsertLead, IInv, TypeOK, NumInv, Drawing, Numbered, NextBar
<1>2. sequence' = n + 1 /\ NextBar' = n + 1
  <2>1. sequence' = n + 1
    BY DEF InsertLead
  <2>2. sequence' # None
    BY <1>1, <2>1, NoneAssumption
  <2> QED BY <2>1, <2>2 DEF NextBar
<1>3. row \in LeadRow /\ row.number = n /\ lead' = [lead EXCEPT ![l] = row] /\ lead[l] = None
  BY <1>1 DEF Numbered, LeadRow, InsertLead
<1> HIDE DEF row, n
<1>4. lead'[l] # None /\ lead'[l].number = n /\ \A m \in Lead \ {l} : lead'[m] = lead[m]
  BY <1>3, NoneAssumption DEF IInv, TypeOK
<1>5. Known' = Known \cup {l} /\ l \notin Known
  BY <1>3, <1>4 DEF Known
<1>6. NumberBar' = Book!With(NumberBar, l, n)
  <2>1. NumberBar' = [m \in Known' |-> lead'[m].number]
    BY DEF NumberBar
  <2>2. \A m \in Known' : lead'[m].number = IF m = l THEN n ELSE NumberBar[m]
    BY <1>4, <1>5 DEF NumberBar, Known
  <2>3. DOMAIN NumberBar = Known
    BY DEF NumberBar
  <2> QED BY <1>5, <2>1, <2>2, <2>3 DEF Book!With
<1>7. /\ history' = [history EXCEPT ![l] = Append(@, [type |-> "CREATED"])]
      /\ UNCHANGED <<tagVars, taskVars>>
  BY DEF InsertLead
<1> QED BY <1>1, <1>2, <1>5, <1>6, <1>7, SameTasks, BookCreate DEF tagVars

LEMMA WriteLeadBar ==
  ASSUME IInv, NEW r \in Request, WriteLead(r)
  PROVE  Bar
<1> DEFINE l == call[r].lead
           row == [lead[l] EXCEPT !.version = @ + 1, !.contact = call[r].contact]
           entry == [type |-> "UPDATED"]
<1>1. l \in Lead /\ lead[l] \in LeadRow /\ lead[l] # None /\ call[r].contact \in Contact
  BY Kinds DEF WriteLead, Patch, IInv, TypeOK, Refers
<1>2. row \in LeadRow /\ row.number = lead[l].number
  <2>1. lead[l].version + 1 \in Nat
    BY <1>1 DEF LeadRow
  <2> QED BY <1>1, <2>1 DEF LeadRow
<1>3. entry \in [type : {"UPDATED", "NOTE_ADDED"}]
  OBVIOUS
<1>4. /\ \/ UNCHANGED <<lead, history>>
         \/ /\ lead' = [lead EXCEPT ![l] = row]
            /\ history' = [history EXCEPT ![l] = Append(@, entry)]
      /\ UNCHANGED <<sequence, tagVars, taskVars>>
  BY DEF WriteLead
<1> HIDE DEF l, row, entry
<1>5. CASE UNCHANGED <<lead, history>>
  BY <1>4, <1>5, QuietBar DEF leadVars, tagVars
<1>6. CASE /\ lead' = [lead EXCEPT ![l] = row]
           /\ history' = [history EXCEPT ![l] = Append(@, entry)]
  <2>1. \A m \in Lead : /\ lead'[m] # None <=> lead[m] # None
                        /\ lead[m] # None => lead'[m].number = lead[m].number
    BY <1>1, <1>2, <1>6, NoneAssumption DEF IInv, TypeOK
  <2>2. UNCHANGED <<NextBar, NumberBar, tagged, tasksBar>>
    BY <1>4, <2>1, KeptNumbers, SameTasks DEF NextBar, tagVars
  <2>3. l \in Known
    BY <1>1 DEF Known
  <2> QED BY <1>3, <1>6, <2>2, <2>3, BookEdit
<1> QED BY <1>4, <1>5, <1>6

(* Deleting hides leads and tasks: nothing of what is told changes. *)
LEMMA DeleteLeadBar ==
  ASSUME IInv, NEW r \in Request, NEW l \in Lead, DeleteLead(r, l) \/ RestoreLead(r, l)
  PROVE  Bar
<1>1. PICK b \in BOOLEAN : lead' = [lead EXCEPT ![l].deleted = b]
  BY DEF DeleteLead, RestoreLead
<1> DEFINE row == [lead[l] EXCEPT !.deleted = b]
<1>2. lead[l] \in LeadRow /\ row \in LeadRow /\ row.number = lead[l].number
  BY DEF DeleteLead, RestoreLead, LiveLead, LeadRow, IInv, TypeOK
<1>3. lead' = [lead EXCEPT ![l] = row]
  BY <1>1
<1> HIDE DEF row
<1>4. \A m \in Lead : /\ lead'[m] # None <=> lead[m] # None
                      /\ lead[m] # None => lead'[m].number = lead[m].number
  BY <1>2, <1>3, NoneAssumption DEF IInv, TypeOK
<1>5. ASSUME NEW t \in Task
      PROVE  /\ task'[t] # None <=> task[t] # None
             /\ task[t] # None => /\ task'[t].status = task[t].status
                                  /\ task'[t].completed = task[t].completed
  <2>1. CASE task[t] = None
    BY <2>1 DEF DeleteLead, RestoreLead, taskVars
  <2>2. CASE task[t] # None
    <3>1. task'[t] \in {task[t], [task[t] EXCEPT !.deleted = TRUE]}
      BY DEF DeleteLead, RestoreLead, taskVars
    <3>2. task[t] \in TaskRow
      BY <2>2 DEF IInv, TypeOK
    <3>3. [task[t] EXCEPT !.deleted = TRUE] \in TaskRow
      BY <3>2 DEF TaskRow
    <3> QED BY <2>2, <3>1, <3>2, <3>3, NoneAssumption DEF TaskRow
  <2> QED BY <2>1, <2>2
<1>6. UNCHANGED <<history, sequence, tagVars, timeline>>
  BY DEF DeleteLead, RestoreLead, taskVars
<1> QED BY <1>4, <1>5, <1>6, KeptNumbers, KeptTasks
        DEF Bar, bars, leadsBar, tasksBar, NextBar, tagVars

(* The row of the assignment and its entry come and go together. *)
LEMMA TaggedBar ==
  ASSUME IInv, NEW r \in Request, InsertTagged(r) \/ DeleteTagged(r)
  PROVE  Bar
<1>1. PICK l \in Known, g \in Tag : l = call[r].lead /\ g = call[r].tag
  <2>1. call[r] \in Call /\ call[r].at \in {"tagging", "untagging"} /\ Refers(r)
    BY DEF InsertTagged, DeleteTagged, IInv, TypeOK
  <2> QED BY <2>1, Kinds DEF Tagging, Refers, Known
<1>2. UNCHANGED <<lead, sequence, tag, taskVars>>
  BY DEF InsertTagged, DeleteTagged
<1>3. CASE UNCHANGED <<tagged, history>>
  BY <1>2, <1>3, QuietBar DEF leadVars
<1>4. CASE /\ <<l, g>> \notin tagged
           /\ tagged' = tagged \cup {<<l, g>>}
           /\ Logged(l, "TAG_ADDED", g)
  BY <1>2, <1>4, SameTasks, SameNumbers, BookTag
<1>5. CASE /\ <<l, g>> \in tagged
           /\ tagged' = tagged \ {<<l, g>>}
           /\ Logged(l, "TAG_REMOVED", g)
  BY <1>2, <1>5, SameTasks, SameNumbers, BookTag
<1> QED BY <1>1, <1>3, <1>4, <1>5 DEF InsertTagged, DeleteTagged, DeletedARow

LEMMA InsertTaskBar ==
  ASSUME IInv, NEW r \in Request, NEW t \in Task, InsertTask(r, t)
  PROVE  Bar
<1> DEFINE row == [lead |-> call[r].lead, status |-> "OPEN", completed |-> FALSE,
                   version |-> 1, deleted |-> FALSE]
<1>1. row \in TaskRow /\ row.status = "OPEN" /\ row.completed = FALSE
  BY Kinds DEF InsertTask, Addition, TaskRow, TaskStatus, IInv, TypeOK
<1>2. /\ task[t] = None /\ task' = [task EXCEPT ![t] = row]
      /\ timeline' = [timeline EXCEPT ![t] =
                        Append(@, [type |-> "CREATED", from |-> "OPEN", to |-> "OPEN"])]
      /\ UNCHANGED <<leadVars, tagVars>>
  BY DEF InsertTask
<1> HIDE DEF row
<1>3. task'[t] = row /\ row # None /\ \A u \in Task \ {t} : task'[u] = task[u]
  BY <1>1, <1>2, NoneAssumption DEF IInv, TypeOK
<1>4. ExistingTasks' = ExistingTasks \cup {t} /\ t \notin ExistingTasks
  BY <1>2, <1>3 DEF ExistingTasks
<1>5. StatusBar' = Book!With(StatusBar, t, "OPEN")
  <2>1. StatusBar' = [u \in ExistingTasks' |-> task'[u].status]
    BY DEF StatusBar
  <2>2. \A u \in ExistingTasks' : task'[u].status = IF u = t THEN "OPEN" ELSE StatusBar[u]
    BY <1>1, <1>3, <1>4 DEF StatusBar, ExistingTasks
  <2>3. DOMAIN StatusBar = ExistingTasks
    BY DEF StatusBar
  <2> QED BY <1>4, <2>1, <2>2, <2>3 DEF Book!With
<1>6. CompletedBar' = CompletedBar
  BY <1>1, <1>3, <1>4 DEF CompletedBar, ExistingTasks
<1>7. UNCHANGED leadsBar
  BY <1>2, SameNumbers DEF leadsBar, leadVars, tagVars
<1> QED BY <1>2, <1>4, <1>5, <1>6, <1>7, BookAdd

(* A request that writes what it decided on an older row writes nothing, so *)
(* the status it loaded is the one that the task has when it writes.       *)
LEMMA WriteTaskBar ==
  ASSUME IInv, TaskInv, NEW r \in Request, WriteTask(r)
  PROVE  Bar
<1> DEFINE c == call[r]
           t == c.task
           status == IF c.to = c.row.status THEN task[t].status ELSE c.to
           completed == CompletedAt(c.op, c.row.status, c.to, task[t].completed)
           row == [task[t] EXCEPT !.status = status, !.completed = completed,
                                  !.version = c.row.version + 1]
           entry == [type |-> Entry(c.op), from |-> c.row.status, to |-> c.to]
<1>1. /\ c.at = "changing" /\ t \in Task /\ task[t] # None /\ task[t] \in TaskRow
      /\ c.row \in TaskRow /\ c.to \in TaskStatus /\ c.op \in TaskOp
  BY Kinds DEF WriteTask, Change, IInv, TypeOK, Refers
<1>2. UNCHANGED leadsBar
  BY SameNumbers DEF WriteTask, leadsBar, leadVars, tagVars
<1>3. CASE ~SameVersion(t, c.row)
  <2>1. UNCHANGED taskVars
    BY <1>3 DEF WriteTask
  <2> QED BY <1>2, <2>1, SameTasks DEF Bar, bars
<1>4. CASE SameVersion(t, c.row)
  <2>1. /\ task' = [task EXCEPT ![t] = row]
        /\ timeline' = [timeline EXCEPT ![t] = Append(@, entry)]
    BY <1>4 DEF WriteTask
  <2>2. /\ c.row.version = task[t].version /\ c.row.status = task[t].status
        /\ task[t].version \in Nat
    BY <1>1, <1>4 DEF SameVersion, TaskInv, Loaded, TaskRow
  <2>3. status = c.to /\ Allowed(c.op, c.row.status, c.to)
    BY <1>1, <2>2 DEF TaskInv, Loaded
  <2>4. row \in TaskRow /\ row.status = c.to
    <3>1. completed \in BOOLEAN
      BY <1>1 DEF CompletedAt, TaskRow
    <3>2. c.row.version + 1 \in Nat
      BY <2>2
    <3> HIDE DEF completed, status, c, t
    <3> QED BY <1>1, <2>2, <2>3, <3>1, <3>2 DEF TaskRow
  <2>5. entry \in Changes /\ entry.from = task[t].status /\ entry.to = c.to
    <3>1. entry.from = c.row.status /\ entry.to = c.to
      OBVIOUS
    <3>2. c.row.status \in TaskStatus
      BY <1>1 DEF TaskRow
    <3>3. PICK d \in TaskOp \X TaskStatus \X TaskStatus : d = <<c.op, c.row.status, c.to>>
      BY <1>1, <3>2
    <3>4. d[1] = c.op /\ d[2] = c.row.status /\ d[3] = c.to
      BY <3>3
    <3>5. Allowed(d[1], d[2], d[3]) /\ entry = [type |-> Entry(d[1]), from |-> d[2], to |-> d[3]]
      BY <2>3, <3>4
    <3> HIDE DEF entry
    <3> QED BY <2>2, <3>1, <3>5 DEF Changes
  <2> HIDE DEF c, t, row, entry
  <2>6. task'[t] = row /\ row # None /\ \A u \in Task \ {t} : task'[u] = task[u]
    BY <1>1, <2>1, <2>4, NoneAssumption DEF IInv, TypeOK
  <2>7. row.completed <=> row.status = "COMPLETED"
    BY <1>1, <2>6, WriteTaskKeeps DEF TaskInv, Agrees
  <2>8. ExistingTasks' = ExistingTasks /\ t \in ExistingTasks
    BY <1>1, <2>6 DEF ExistingTasks
  <2>9. StatusBar[t] = entry.from /\ StatusBar' = [StatusBar EXCEPT ![t] = entry.to]
    <3>1. StatusBar' = [u \in ExistingTasks |-> task'[u].status]
      BY <2>8 DEF StatusBar
    <3>2. \A u \in ExistingTasks : task'[u].status = IF u = t THEN entry.to ELSE task[u].status
      BY <2>4, <2>5, <2>6 DEF ExistingTasks
    <3> QED BY <2>5, <2>8, <3>1, <3>2 DEF StatusBar
  <2>10. CompletedBar' = IF entry.to = "COMPLETED" THEN CompletedBar \cup {t}
                                                   ELSE CompletedBar \ {t}
    BY <2>4, <2>5, <2>6, <2>7, <2>8 DEF CompletedBar, ExistingTasks
  <2> QED BY <1>2, <2>1, <2>5, <2>8, <2>9, <2>10, BookChange
<1> QED BY <1>3, <1>4

LEMMA DeleteTaskBar ==
  ASSUME IInv, NEW r \in Request, NEW t \in Task, DeleteTask(r, t)
  PROVE  Bar
<1> DEFINE row == [task[t] EXCEPT !.deleted = TRUE]
<1>1. /\ task[t] # None /\ task[t] \in TaskRow
      /\ task' = [task EXCEPT ![t] = row]
      /\ UNCHANGED <<leadVars, tagVars, timeline>>
  BY DEF DeleteTask, LiveTask, IInv, TypeOK
<1>2. row \in TaskRow /\ row.status = task[t].status /\ row.completed = task[t].completed
  BY <1>1 DEF TaskRow
<1> HIDE DEF row
<1>3. \A u \in Task : /\ task'[u] # None <=> task[u] # None
                      /\ task[u] # None => /\ task'[u].status = task[u].status
                                           /\ task'[u].completed = task[u].completed
  BY <1>1, <1>2, NoneAssumption DEF IInv, TypeOK
<1> QED BY <1>1, <1>3, KeptTasks, SameNumbers
        DEF Bar, bars, leadsBar, tasksBar, leadVars, tagVars

LEMMA StepSimulation == IInv /\ NumInv /\ TaskInv /\ [Next]_vars => Bar
<1> SUFFICES ASSUME IInv, NumInv, TaskInv, [Next]_vars PROVE Bar
  OBVIOUS
<1>1. CASE UNCHANGED vars
  BY <1>1, QuietBar DEF vars, leadVars, taskVars
<1> SUFFICES ASSUME NEW r \in Request,
                    CreateLeads(r) \/ ChangeLeads(r) \/ ChangeTags(r)
                      \/ ChangeTasks(r) \/ Abort(r)
             PROVE  Bar
  BY <1>1 DEF Next
<1>2. CASE CreateLeads(r)
  <2>1. CASE (\E c \in Contact : CreateLead(r, c)) \/ TakeNumber(r) \/ NoSequenceYet(r)
               \/ InsertSequence(r)
    BY <2>1, QuietBar DEF CreateLead, TakeNumber, NoSequenceYet, InsertSequence, tagVars
  <2> QED BY <1>2, <2>1, InsertLeadBar DEF CreateLeads
<1>3. CASE ChangeLeads(r)
  <2>1. ASSUME NEW l \in Lead, NEW c \in Contact, PatchLead(r, l, c) PROVE Bar
    BY <2>1, QuietBar DEF PatchLead, tagVars
  <2>2. ASSUME NEW l \in Lead, AddNote(r, l) PROVE Bar
    <3>1. l \in Known /\ [type |-> "NOTE_ADDED"] \in [type : {"UPDATED", "NOTE_ADDED"}]
      BY <2>2 DEF AddNote, LiveLead, Known
    <3>2. /\ history' = [history EXCEPT ![l] = Append(@, [type |-> "NOTE_ADDED"])]
          /\ UNCHANGED <<lead, sequence, tagged, taskVars>>
      BY <2>2 DEF AddNote, tagVars
    <3> QED BY <3>1, <3>2, SameTasks, SameNumbers, BookEdit
  <2> QED BY <1>3, <2>1, <2>2, WriteLeadBar, DeleteLeadBar DEF ChangeLeads
<1>4. CASE ChangeTags(r)
  <2>1. CASE \/ \E n \in TagName : CreateTag(r, n)
             \/ \E g \in Tag : InsertTag(r, g)
             \/ \E l \in Lead, g \in Tag : AssignTag(r, l, g) \/ RemoveTag(r, l, g)
    BY <2>1, QuietBar DEF CreateTag, InsertTag, AssignTag, RemoveTag, tagVars
  <2> QED BY <1>4, <2>1, TaggedBar DEF ChangeTags
<1>5. CASE ChangeTasks(r)
  <2>1. CASE \/ \E l \in Lead : AddTask(r, l)
             \/ \E t \in Task, op \in TaskOp, to \in TaskStatus : LoadTask(r, t, op, to)
    BY <2>1, QuietBar DEF AddTask, LoadTask, tagVars
  <2> QED BY <1>5, <2>1, InsertTaskBar, WriteTaskBar, DeleteTaskBar DEF ChangeTasks
<1>6. CASE Abort(r)
  BY <1>6, QuietBar DEF Abort, tagVars
<1> QED BY <1>2, <1>3, <1>4, <1>5, <1>6

LEMMA InitBook == Init => Book!Init
<1> SUFFICES ASSUME Init PROVE Book!Init
  OBVIOUS
<1>1. Known = {} /\ ExistingTasks = {}
  BY DEF Init, Known, ExistingTasks
<1>2. (IF sequence = None THEN FirstNumber ELSE sequence) = FirstNumber
  BY DEF Init
<1> QED BY <1>1, <1>2 DEF Init, Book!Init

(* However requests overlap, fail or arrive too late, each takes effect at  *)
(* one instant or not at all: leads take the numbers in the order in which *)
(* they appear, a tag and its line in the history come and go together, and *)
(* a task goes from the status that it has at that instant to one that the *)
(* operation allows, with the time of completion and the timeline that say *)
(* so (lead_service.py, task_service.py).                                  *)
THEOREM BookImplemented == Spec => BookSpec
<1>1. Init => Book!Init
  BY InitBook
<1>2. IInv /\ NumInv /\ TaskInv /\ [Next]_vars => [Book!Next]_bars
  BY StepSimulation DEF Bar
<1> QED
  BY <1>1, <1>2, Typed, Numbers, Tasks, PTL
     DEF Spec, BookSpec, Book!Spec, Book!leads, Book!tasks, bars, leadsBar, tasksBar,
         NextBar, NumberBar, StatusBar, CompletedBar
=============================================================================
