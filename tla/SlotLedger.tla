------------------------------ MODULE SlotLedger ------------------------------
(***************************************************************************)
(* What job_executions promises: a slot is taken by one worker, once; the  *)
(* worker that took it is the only one to write its verdict, or is lost    *)
(* and leaves it RUNNING.                                                  *)
(***************************************************************************)
CONSTANTS Workers, Slots, None

VARIABLES
  rows,   \* slots taken so far -> their status
  work    \* worker -> the slot it is executing, or None

Verdicts == {"SUCCESS", "RETRYING", "DEAD_LETTER"}

Init ==
  /\ rows = [s \in {} |-> "RUNNING"]
  /\ work = [w \in Workers |-> None]

(* A worker takes a slot nobody has taken before. *)
Take(w, s) ==
  /\ work[w] = None
  /\ s \notin DOMAIN rows
  /\ rows' = [x \in DOMAIN rows \cup {s} |-> IF x = s THEN "RUNNING" ELSE rows[x]]
  /\ work' = [work EXCEPT ![w] = s]

(* It writes the verdict of the slot it took. *)
Conclude(w, v) ==
  /\ work[w] # None
  /\ rows[work[w]] = "RUNNING"
  /\ rows' = [rows EXCEPT ![work[w]] = v]
  /\ work' = [work EXCEPT ![w] = None]

(* It is lost; the row stays RUNNING. *)
Lose(w) ==
  /\ work[w] # None
  /\ work' = [work EXCEPT ![w] = None]
  /\ UNCHANGED rows

Next ==
  \E w \in Workers :
    \/ \E s \in Slots : Take(w, s)
    \/ \E v \in Verdicts : Conclude(w, v)
    \/ Lose(w)

Spec == Init /\ [][Next]_<<rows, work>>
=============================================================================
