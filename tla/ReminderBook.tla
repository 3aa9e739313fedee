----------------------------- MODULE ReminderBook -----------------------------
(***************************************************************************)
(* What the table of reminders promises to whoever looks at one lead or    *)
(* task: it has no reminder or one that is open, and an open one is closed *)
(* only after its event went out.  Runs of the jobs, their transactions    *)
(* and their crashes are not visible.                                      *)
(***************************************************************************)
CONSTANT Targets

VARIABLES
  open,  \* targets with an active reminder
  told   \* those of them whose event went out since it was opened

Init == open = {} /\ told = {}

(* Reminders appear together, for targets that have none. *)
Open(new) ==
  /\ new \cap open = {}
  /\ open' = open \cup new
  /\ UNCHANGED told

(* The event of an open reminder goes out, for the first time or again. *)
Tell(x) ==
  /\ x \in open
  /\ told' = told \cup {x}
  /\ UNCHANGED open

(* Reminders are closed together, all of them told. *)
Close(old) ==
  /\ old \subseteq told
  /\ open' = open \ old
  /\ told' = told \ old

Next ==
  \/ \E S \in SUBSET Targets : Open(S) \/ Close(S)
  \/ \E x \in Targets : Tell(x)

Spec == Init /\ [][Next]_<<open, told>>
=============================================================================
