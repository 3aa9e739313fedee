------------------------------ MODULE CrmBook ------------------------------
(***************************************************************************)
(* What the CRM promises about leads, tags and tasks: every request takes  *)
(* effect at one instant, on what is true at that instant, or not at all.  *)
(* A lead draws its number as it appears; a tag is put on or taken off     *)
(* together with its line in the lead's history; a task goes from the      *)
(* status it has to one that follows it, and its timeline says so.         *)
(***************************************************************************)
EXTENDS Naturals, Sequences

CONSTANTS
  Lead, Tag, Task,
  First,      \* number of the first lead
  Edits,      \* entries of a lead's history that change no tag
  Changes     \* [type, from, to]: what may happen to a task

VARIABLES
  next,       \* number of the next lead
  number,     \* lead -> its number
  tagged,     \* pairs of a lead and a tag it has
  history,    \* lead -> entries, oldest first
  status,     \* task -> its status
  completed,  \* tasks with a time of completion
  timeline    \* task -> entries, oldest first

leads == <<next, number, tagged, history>>
tasks == <<status, completed, timeline>>

With(f, x, value) == [y \in DOMAIN f \cup {x} |-> IF y = x THEN value ELSE f[y]]

Init ==
  /\ next = First
  /\ number = [l \in {} |-> First]
  /\ tagged = {}
  /\ history = [l \in Lead |-> << >>]
  /\ status = [t \in {} |-> "OPEN"]
  /\ completed = {}
  /\ timeline = [t \in Task |-> << >>]

Enters(l, entry) == history' = [history EXCEPT ![l] = Append(@, entry)]

Create(l) ==
  /\ l \notin DOMAIN number
  /\ number' = With(number, l, next)
  /\ next' = next + 1
  /\ Enters(l, [type |-> "CREATED"])
  /\ UNCHANGED <<tagged, tasks>>

Edit(l, entry) ==
  /\ l \in DOMAIN number
  /\ Enters(l, entry)
  /\ UNCHANGED <<next, number, tagged, tasks>>

PutOn(l, g) ==
  /\ l \in DOMAIN number
  /\ <<l, g>> \notin tagged
  /\ tagged' = tagged \cup {<<l, g>>}
  /\ Enters(l, [type |-> "TAG_ADDED", tag |-> g])
  /\ UNCHANGED <<next, number, tasks>>

TakeOff(l, g) ==
  /\ <<l, g>> \in tagged
  /\ tagged' = tagged \ {<<l, g>>}
  /\ Enters(l, [type |-> "TAG_REMOVED", tag |-> g])
  /\ UNCHANGED <<next, number, tasks>>

Add(t) ==
  /\ t \notin DOMAIN status
  /\ status' = With(status, t, "OPEN")
  /\ timeline' = [timeline EXCEPT ![t] =
                    Append(@, [type |-> "CREATED", from |-> "OPEN", to |-> "OPEN"])]
  /\ UNCHANGED <<completed, leads>>

Change(t, change) ==
  /\ t \in DOMAIN status
  /\ status[t] = change.from
  /\ status' = [status EXCEPT ![t] = change.to]
  /\ completed' = IF change.to = "COMPLETED" THEN completed \cup {t} ELSE completed \ {t}
  /\ timeline' = [timeline EXCEPT ![t] = Append(@, change)]
  /\ UNCHANGED leads

Next ==
  \/ \E l \in Lead :
       \/ Create(l)
       \/ \E entry \in Edits : Edit(l, entry)
       \/ \E g \in Tag : PutOn(l, g) \/ TakeOff(l, g)
  \/ \E t \in Task :
       \/ Add(t)
       \/ \E change \in Changes : Change(t, change)

Spec == Init /\ [][Next]_<<leads, tasks>>
=============================================================================
