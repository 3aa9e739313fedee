---------------------------- MODULE ExecutionLog ----------------------------
(***************************************************************************)
(* What the log of workflow executions promises whoever audits it.  An     *)
(* execution is entered once for an event and a rule, with the actions it  *)
(* is to take, and only while no other one for that event is under way or  *)
(* has succeeded.  What was entered stays: steps are added one at a time,  *)
(* in the order of the actions, the last one gives the verdict, and a      *)
(* verdict is final.  An execution that is abandoned stays under way.      *)
(***************************************************************************)
EXTENDS Naturals, Sequences

CONSTANTS
  Rule,
  Plans    \* rule -> sequences of actions that a version of it lists

VARIABLES
  events,  \* events there have been, named by number
  log      \* <<event, rule>> -> [plan, steps, status]

With(f, k, value) == [x \in DOMAIN f \cup {k} |-> IF x = k THEN value ELSE f[x]]

HasFailure(steps) == \E n \in DOMAIN steps : steps[n].status = "FAILED"

Init ==
  /\ events = 0
  /\ log = << >>

Publish ==
  /\ events' = events + 1
  /\ UNCHANGED log

Enter(e, r, plan) ==
  /\ <<e, r>> \notin DOMAIN log
  /\ \A k \in DOMAIN log : k[1] = e => log[k].status \in {"FAILED", "SKIPPED"}
  /\ log' = With(log, <<e, r>>, [plan |-> plan, steps |-> << >>, status |-> "RUNNING"])
  /\ UNCHANGED events

(* After a failure the actions that are left are skipped. *)
Outcomes(steps) == IF HasFailure(steps) THEN {"SKIPPED"} ELSE {"SUCCESS", "FAILED"}

Add(k, outcome) ==
  LET x == log[k]  n == Len(x.steps) + 1 IN
    /\ x.status = "RUNNING"
    /\ n <= Len(x.plan)
    /\ outcome \in Outcomes(x.steps)
    /\ log' = [log EXCEPT ![k].steps = Append(@, [action |-> x.plan[n], status |-> outcome])]
    /\ UNCHANGED events

Finish(k) ==
  LET x == log[k] IN
    /\ x.status = "RUNNING"
    /\ Len(x.steps) = Len(x.plan)
    /\ log' = [log EXCEPT ![k].status = IF HasFailure(x.steps) THEN "FAILED" ELSE "SUCCESS"]
    /\ UNCHANGED events

Reject(k) ==
  /\ log[k].status = "RUNNING"
  /\ log[k].steps = << >>
  /\ log' = [log EXCEPT ![k].status = "SKIPPED"]
  /\ UNCHANGED events

Next ==
  \/ Publish
  \/ \E e \in 1 .. events, r \in Rule : \E plan \in Plans[r] : Enter(e, r, plan)
  \/ \E k \in DOMAIN log :
       \/ \E outcome \in {"SUCCESS", "FAILED", "SKIPPED"} : Add(k, outcome)
       \/ Finish(k)
       \/ Reject(k)

Spec == Init /\ [][Next]_<<events, log>>
=============================================================================
