------------------------------ MODULE Workflows ------------------------------
(***************************************************************************)
(* Workflow automation: LocalEventPublisher calls workflow_event_subscriber *)
(* inside the coroutine that published, and the subscriber runs one rule   *)
(* after the other through WorkflowExecutor in a session of its own.  An   *)
(* action may publish again, so every thread (an HTTP request, a reminder  *)
(* sweep) has a stack of event dispatches, and only its top goes on.       *)
(*                                                                         *)
(* A session keeps the lead it loaded: `copy' is not what the table holds  *)
(* but what the session believes, which LeadService compares and updates.  *)
(***************************************************************************)
EXTENDS Naturals, Sequences, FiniteSets

CONSTANTS
  Leads,
  Clients,     \* requests that change a lead (PATCH /leads/{id}), one each
  Runners,     \* requests that run a rule (POST /workflows/{id}/execute)
  Definition,  \* versions of each rule, oldest first, the rules newest first
  Created,     \* rules that are not there from the beginning
  Runnable,    \* rules that clients run by hand
  Publishable, \* targets of a client's PATCH
  MayFail,     \* which of "raise", "broken", "crash" may happen
  PoolSize,    \* connections of the process's engine
  MaxCrashes,  \* bound: restarts of the process
  None

Threads == Clients \cup Runners
Rules   == DOMAIN Definition

VARIABLES
  lead,    \* table leads
  rule,    \* current version of each rule, 0 before it is created
  run,     \* table workflow_executions with its steps, by <<event, rule>>
  stack,   \* event dispatches of each thread, the innermost first
  request, \* what each request is doing
  events,  \* events published
  crashes

vars == <<lead, rule, run, stack, request, events, crashes>>

-----------------------------------------------------------------------------
LeadStatus == {"NEW", "CONTACTED", "MEETING_SCHEDULED", "QUALIFIED",
               "PROPOSAL_SENT", "NEGOTIATION", "WON", "LOST", "ARCHIVED"}

ValidTransitions(s) ==
  CASE s = "NEW"               -> {"CONTACTED", "LOST"}
    [] s = "CONTACTED"         -> {"MEETING_SCHEDULED", "LOST"}
    [] s = "MEETING_SCHEDULED" -> {"QUALIFIED", "LOST"}
    [] s = "QUALIFIED"         -> {"PROPOSAL_SENT", "LOST"}
    [] s = "PROPOSAL_SENT"     -> {"NEGOTIATION", "LOST"}
    [] s = "NEGOTIATION"       -> {"WON", "LOST"}
    [] s \in {"WON", "LOST"}   -> {"ARCHIVED"}
    [] OTHER                   -> {}

RunStatus == {"RUNNING", "SUCCESS", "FAILED", "SKIPPED"}

(* EVENT_TRIGGER_MAP, the events of the model that it contains. *)
Triggers == {"lead.updated", "lead.inactive", "task.created"}

(* What execute_manually gives the executor as its occasion. *)
Manual == "manual"

LeadRow == [status : LeadStatus, version : Nat]

LeadUpdates == {"UPDATE_LEAD", "CHANGE_STATUS", "ASSIGN_USER"}

(* A note, a tag, a message queued: committed by the action, no event. *)
Quiet == {"ADD_NOTE", "ADD_TAG", "SEND_EMAIL"}

(* What WorkflowService.create_workflow stores of one version of a rule. *)
ActionRow == [type : LeadUpdates \cup Quiet \cup {"CREATE_TASK"}]
             \cup [type : {"CHANGE_STATUS"}, to : LeadStatus]

RuleVersion ==
  [enabled : BOOLEAN, trigger : Triggers, actions : Seq(ActionRow),
   filter : SUBSET (LeadStatus \cup {None}), condition : SUBSET (LeadStatus \cup {None})]

ASSUME DefinitionAssumption == Definition \in Seq(Seq(RuleVersion) \ {<<>>})
ASSUME RunnableAssumption   == Runnable \subseteq DOMAIN Definition
ASSUME BoundAssumption      == MaxCrashes \in Nat
ASSUME PoolAssumption       == PoolSize \in Nat \ {0}
ASSUME NoneAssumption       == None \notin LeadStatus \cup LeadRow

Top(t)    == Head(stack[t])
Busy(t)   == stack[t] # <<>>
At(t, pc) == Busy(t) /\ Top(t).pc = pc

(* The rule in hand as the session loaded it: its row, its conditions and  *)
(* its actions are three SELECTs, each of which saw some version of it.    *)
Loaded(f)         == f.rules[f.i]
FilterInHand(f)   == Definition[Loaded(f).rule][Loaded(f).row].filter
ConditionInHand(f) == Definition[Loaded(f).rule][Loaded(f).conditions].condition
CurrentActions(f) == Definition[Loaded(f).rule][rule[Loaded(f).rule]].actions   \* mutant
ActionsInHand(f)  == Definition[Loaded(f).rule][Loaded(f).actions].actions
Key(f)            == <<f.event, Loaded(f).rule>>
Action(f)         == ActionsInHand(f)[f.k]

(* Replace the innermost dispatch of t. *)
Becomes(t, f) == stack' = [stack EXCEPT ![t] = <<f>> \o Tail(@)]

Dispatch(name, l) ==
  [event |-> events + 1, name |-> name, lead |-> l, rules |-> <<>>, i |-> 1,
   k |-> 1, after |-> None, copy |-> None, pc |-> "select"]

(* publisher.publish(event) awaited by t: f goes on when the subscriber is done. *)
Publish(t, f, name, l) ==
  /\ events' = events + 1
  /\ stack'  = [stack EXCEPT ![t] = <<Dispatch(name, l), f>> \o Tail(@)]

Init ==
  /\ lead    = [l \in Leads |-> [status |-> "NEW", version |-> 1]]
  /\ rule    = [r \in Rules |-> IF r \in Created THEN 0 ELSE 1]
  /\ run     = <<>>
  /\ stack   = [t \in Threads |-> <<>>]
  /\ request = [t \in Threads |-> [pc |-> "new"]]
  /\ events  = 0
  /\ crashes = 0

-----------------------------------------------------------------------------
(* LeadService.update_lead. *)

Updated(copy, status) == [status |-> status, version |-> copy.version + 1]

(* UPDATE leads ... WHERE version = :version matches the row. *)
NoVersionCheck(l, copy) == TRUE   \* mutant
VersionHolds(l, copy)  == lead[l].version = copy.version

(* A client's request loads the lead; a version it does not know of and a   *)
(* transition that is not valid are refused at once.                       *)
PatchRead(c, l, s) ==
  /\ request[c].pc = "new"
  /\ s \in ValidTransitions(lead[l].status)
  /\ request' = [request EXCEPT ![c] =
                   [pc |-> "write", lead |-> l, to |-> s, copy |-> lead[l]]]
  /\ UNCHANGED <<lead, rule, run, stack, events, crashes>>

PatchWrite(c) ==
  /\ request[c].pc = "write"
  /\ LET q == request[c] IN
       IF VersionHolds(q.lead, q.copy)
       THEN /\ lead'   = [lead EXCEPT ![q.lead] = Updated(q.copy, q.to)]
            /\ events' = events + 1
            /\ stack'  = [stack EXCEPT ![c] = <<Dispatch("lead.updated", q.lead)>>]
       ELSE UNCHANGED <<lead, events, stack>>
  /\ request' = [request EXCEPT ![c] = [pc |-> "done"]]
  /\ UNCHANGED <<rule, run, crashes>>

(* WorkflowService.create_workflow: the rule, its conditions and its        *)
(* actions in one transaction.                                             *)
CreateRule(r) ==
  /\ rule[r] = 0
  /\ rule' = [rule EXCEPT ![r] = 1]
  /\ UNCHANGED <<lead, run, stack, request, events, crashes>>

(* WorkflowService.update_workflow, enable and disable: one transaction,   *)
(* guarded by the version.                                                 *)
EditRule(r) ==
  /\ rule[r] \in 1 .. Len(Definition[r]) - 1
  /\ rule' = [rule EXCEPT ![r] = @ + 1]
  /\ UNCHANGED <<lead, run, stack, request, events, crashes>>

-----------------------------------------------------------------------------
(* workflow_event_subscriber. *)

Current(r) == Definition[r][rule[r]]

Enabled(r) == rule[r] > 0 /\ Current(r).enabled

RowOf(r) == [rule |-> r, row |-> rule[r], conditions |-> 0, actions |-> 0]

(* ORDER BY created_at DESC: the rules of S one after the other. *)
InOrder(s)     == \A m, n \in DOMAIN s : m < n => s[m] < s[n]
Listing(S)     == CHOOSE s \in [1 .. Cardinality(S) -> S] : InOrder(s)
Matching(name) ==
  LET S == {r \in Rules : Enabled(r) /\ Current(r).trigger = name}
  IN [n \in 1 .. Cardinality(S) |-> RowOf(Listing(S)[n])]

(* task.created carries the lead's id as well: the task the subscriber      *)
(* looks up by it does not exist, and the payload stays empty.             *)
IsLeadEvent(name) == name # "task.created"

(* The dispatches of lead.updated under way.  Whoever published one has      *)
(* refreshed the lead, in a rule's session or a request's, and keeps that   *)
(* session's connection until publish() returns.  Who published the others  *)
(* has committed last and keeps none.                                      *)
Awaited ==
  UNION {{<<t, n>> : n \in {m \in DOMAIN stack[t] : stack[t][m].name = "lead.updated"}}
         : t \in Threads}

(* get_enabled_by_trigger: the rows of the rules, then with selectinload    *)
(* their conditions and their actions.  It is the first query of a session  *)
(* of its own and needs a connection of its own.                           *)
Select(t) ==
  /\ At(t, "select")
  /\ Cardinality(Awaited) < PoolSize
  /\ LET f    == Top(t)
         todo == IF f.name \in Triggers THEN Matching(f.name) ELSE <<>>
     IN Becomes(t, [f EXCEPT !.rules = todo,
                             !.pc = IF todo = <<>> THEN "next" ELSE "conditions"])
  /\ UNCHANGED <<lead, rule, run, request, events, crashes>>

(* No connection in time, of those that other requests hold or this thread   *)
(* itself waits on: publish() catches the TimeoutError of the subscriber.   *)
WaitsForEver(t) == stack[t]   \* mutant
Dropped(t)      == Tail(stack[t])

Starved(t) ==
  /\ At(t, "select")
  /\ stack' = [stack EXCEPT ![t] = Dropped(t)]
  /\ UNCHANGED <<lead, rule, run, request, events, crashes>>

SelectConditions(t) ==
  /\ At(t, "conditions")
  /\ LET f == Top(t)
     IN Becomes(t, [f EXCEPT !.pc = "actions",
                      !.rules = [n \in DOMAIN @ |->
                                   [@[n] EXCEPT !.conditions = rule[f.rules[n].rule]]]])
  /\ UNCHANGED <<lead, rule, run, request, events, crashes>>

(* WorkflowService.execute_manually: the rule of a client's choice, once it  *)
(* is loaded as the subscriber loads its rules, whatever its trigger.      *)
RunManually(t, r, l) ==
  /\ request[t].pc = "new"
  /\ Enabled(r)
  /\ events'  = events + 1
  /\ request' = [request EXCEPT ![t] = [pc |-> "done"]]
  /\ stack'   = [stack EXCEPT ![t] =
                   <<[Dispatch(Manual, l) EXCEPT !.rules = <<RowOf(r)>>,
                                                 !.pc = "conditions"]>>]
  /\ UNCHANGED <<lead, rule, run, crashes>>

(* The actions, and the state of the entity that filters and conditions of  *)
(* all the rules are evaluated on.                                         *)
SelectActions(t) ==
  /\ At(t, "actions")
  /\ LET f    == Top(t)
         seen == IF IsLeadEvent(f.name) THEN lead[f.lead] ELSE None
     IN Becomes(t, [f EXCEPT !.pc = "next", !.copy = seen,
                      !.after = IF seen = None THEN None ELSE seen.status,
                      !.rules = [n \in DOMAIN @ |->
                                   [@[n] EXCEPT !.actions = rule[f.rules[n].rule]]]])
  /\ UNCHANGED <<lead, rule, run, request, events, crashes>>

NextRule(f) == [f EXCEPT !.i = @ + 1, !.k = 1, !.pc = "next"]

HasRule(t) == At(t, "next") /\ Top(t).i <= Len(Top(t).rules)

(* check_duplicate_execution looks the event's id up, whatever the rule. *)
ClaimsLess(status) == status = "RUNNING"   \* mutant
Claims(status)     == status \in {"SUCCESS", "RUNNING"}
Duplicate(f) == \E k \in DOMAIN run : k[1] = f.event /\ Claims(run[k].status)

(* Only the subscriber looks at trigger_filter. *)
Filtered(f) == f.name # Manual /\ f.after \notin FilterInHand(f)

(* trigger_filter does not match, or the key is in use. *)
PassOver(t) ==
  /\ HasRule(t)
  /\ \/ Filtered(Top(t))
     \/ Duplicate(Top(t))
  /\ Becomes(t, NextRule(Top(t)))
  /\ UNCHANGED <<lead, rule, run, request, events, crashes>>

(* The RUNNING row is committed before the conditions are evaluated, on     *)
(* what the lead was when the event was taken up.                          *)
Begin(t) ==
  /\ HasRule(t)
  /\ LET f == Top(t) IN
       /\ ~Filtered(f)
       /\ ~Duplicate(f)
       /\ run' = [k \in DOMAIN run \cup {Key(f)} |->
                    IF k = Key(f)
                    THEN [status |-> "RUNNING", snapshot |-> Loaded(f),
                          steps |-> <<>>, success |-> 0, failed |-> 0, skipped |-> 0]
                    ELSE run[k]]
       /\ Becomes(t, [f EXCEPT !.pc =
                         IF f.after \notin ConditionInHand(f) THEN "reject"
                         ELSE IF ActionsInHand(f) = <<>> THEN "close" ELSE "act"])
  /\ UNCHANGED <<lead, rule, request, events, crashes>>

ConditionFalse(t) ==
  /\ At(t, "reject")
  /\ LET f == Top(t) IN
       /\ run' = [run EXCEPT ![Key(f)].status  = "SKIPPED",
                             ![Key(f)].skipped = Len(ActionsInHand(f))]
       /\ Becomes(t, NextRule(f))
  /\ UNCHANGED <<lead, rule, request, events, crashes>>

Return(t) ==
  /\ At(t, "next")
  /\ Top(t).i > Len(Top(t).rules)
  /\ stack' = [stack EXCEPT ![t] = Tail(@)]
  /\ UNCHANGED <<lead, rule, run, request, events, crashes>>

-----------------------------------------------------------------------------
(* WorkflowActionEngine.execute_action. *)

Acting(t, types) == At(t, "act") /\ Action(Top(t)).type \in types

Target(a, copy) == IF a.type = "CHANGE_STATUS" THEN a.to ELSE copy.status

(* get_by_id: a lead event's session holds the lead already and keeps its   *)
(* values; a task event's session loads it for every action.               *)
LoadLead(t) ==
  /\ Acting(t, LeadUpdates)
  /\ Top(t).copy = None
  /\ Becomes(t, [Top(t) EXCEPT !.copy = lead[Top(t).lead]])
  /\ UNCHANGED <<lead, rule, run, request, events, crashes>>

Kept(f, copy) == IF IsLeadEvent(f.name) THEN copy ELSE None

(* The status is the one the session has, or the user (whom the model does  *)
(* not record) is the assignee: no change, no event.                       *)
NothingToUpdate(t) ==
  /\ Acting(t, {"CHANGE_STATUS", "ASSIGN_USER"})
  /\ Top(t).copy # None
  /\ LET a == Action(Top(t))
     IN a.type = "CHANGE_STATUS" => a.to = Top(t).copy.status
  /\ Becomes(t, [Top(t) EXCEPT !.pc = "ok", !.copy = Kept(Top(t), @)])
  /\ UNCHANGED <<lead, rule, run, request, events, crashes>>

NotATransition(t) ==
  /\ Acting(t, {"CHANGE_STATUS"})
  /\ Top(t).copy # None
  /\ Action(Top(t)).to \notin {Top(t).copy.status} \cup ValidTransitions(Top(t).copy.status)
  /\ Becomes(t, [Top(t) EXCEPT !.pc = "failed", !.copy = Kept(Top(t), @)])
  /\ UNCHANGED <<lead, rule, run, request, events, crashes>>

(* UPDATE and commit, or ConcurrentUpdateException.  The ORM evaluates the   *)
(* UPDATE on the lead in its session too, whether or not the table had a    *)
(* row to match; a column that the UPDATE does not set keeps the row's.     *)
UpdateLead(t) ==
  /\ Acting(t, LeadUpdates)
  /\ Top(t).copy # None
  /\ LET f   == Top(t)
         a   == Action(f)
         row == lead[f.lead]
         new == Updated(f.copy, Target(a, f.copy))
     IN /\ a.type = "CHANGE_STATUS" => a.to \in ValidTransitions(f.copy.status)
        /\ IF VersionHolds(f.lead, f.copy)
           THEN /\ lead' = [lead EXCEPT ![f.lead] = Updated(row, Target(a, row))]
                /\ Becomes(t, [f EXCEPT !.pc = "refresh", !.copy = new])
           ELSE /\ Becomes(t, [f EXCEPT !.pc = "failed", !.copy = Kept(f, new)])
                /\ UNCHANGED lead
  /\ UNCHANGED <<rule, run, request, events, crashes>>

(* db.refresh reads the lead again, and lead.updated is published. *)
Refresh(t) ==
  /\ At(t, "refresh")
  /\ LET f == Top(t)
     IN Publish(t, [f EXCEPT !.pc = "ok", !.copy = Kept(f, lead[f.lead])],
                "lead.updated", f.lead)
  /\ UNCHANGED <<lead, rule, run, request, crashes>>

CreateTask(t) ==
  /\ Acting(t, {"CREATE_TASK"})
  /\ Publish(t, [Top(t) EXCEPT !.pc = "ok"], "task.created", Top(t).lead)
  /\ UNCHANGED <<lead, rule, run, request, crashes>>

ActQuietly(t) ==
  /\ Acting(t, Quiet)
  /\ Becomes(t, [Top(t) EXCEPT !.pc = "ok"])
  /\ UNCHANGED <<lead, rule, run, request, events, crashes>>

(* An exception of the action that leaves the session usable: a value the    *)
(* service refuses, or no connection in time.                              *)
Raise(t) ==
  /\ "raise" \in MayFail
  /\ At(t, "act")
  /\ Becomes(t, [Top(t) EXCEPT !.pc = "failed"])
  /\ UNCHANGED <<lead, rule, run, request, events, crashes>>

(* A statement of the action fails in the database: the session refuses      *)
(* everything up to a rollback that never comes, so the step is not written, *)
(* the run stays RUNNING and every rule after it raises in its first query. *)
Broken(t) ==
  /\ "broken" \in MayFail
  /\ At(t, "act") \/ At(t, "refresh")
  /\ stack' = [stack EXCEPT ![t] = Tail(@)]
  /\ UNCHANGED <<lead, rule, run, request, events, crashes>>

-----------------------------------------------------------------------------
(* WorkflowExecutor.execute, after each action. *)

PastLast(f) == f.k > Len(ActionsInHand(f))   \* mutant
AtLast(f)   == f.k = Len(ActionsInHand(f))

Step(f, status) == [action |-> Action(f), status |-> status]

Succeeded(t) ==
  /\ At(t, "ok")
  /\ LET f == Top(t) IN
       /\ run' = [run EXCEPT ![Key(f)].steps   = Append(@, Step(f, "SUCCESS")),
                             ![Key(f)].success = @ + 1]
       /\ Becomes(t, IF AtLast(f) THEN [f EXCEPT !.pc = "close"]
                                ELSE [f EXCEPT !.pc = "act", !.k = @ + 1])
  /\ UNCHANGED <<lead, rule, request, events, crashes>>

(* Where the loop goes after a failed or skipped step: it is left. *)
GoesOn(f)       == IF AtLast(f) THEN [f EXCEPT !.pc = "close"]
                              ELSE [f EXCEPT !.pc = "act", !.k = @ + 1]   \* mutant
AfterFailure(f) == IF AtLast(f) THEN [f EXCEPT !.pc = "close"]
                              ELSE [f EXCEPT !.pc = "skip", !.k = @ + 1]

Failed(t) ==
  /\ At(t, "failed")
  /\ LET f == Top(t) IN
       /\ run' = [run EXCEPT ![Key(f)].steps  = Append(@, Step(f, "FAILED")),
                             ![Key(f)].failed = @ + 1]
       /\ Becomes(t, AfterFailure(f))
  /\ UNCHANGED <<lead, rule, request, events, crashes>>

(* One row and one commit for each action that was not run. *)
SkipStep(t) ==
  /\ At(t, "skip")
  /\ LET f == Top(t) IN
       /\ run' = [run EXCEPT
                    ![Key(f)].steps   = Append(@, Step(f, "SKIPPED")),
                    ![Key(f)].skipped = Len(ActionsInHand(f))
                                        - (run[Key(f)].success + run[Key(f)].failed)]
       /\ Becomes(t, AfterFailure(f))
  /\ UNCHANGED <<lead, rule, request, events, crashes>>

Close(t) ==
  /\ At(t, "close")
  /\ LET f == Top(t) IN
       /\ run' = [run EXCEPT ![Key(f)].status =
                    IF run[Key(f)].failed > 0 THEN "FAILED" ELSE "SUCCESS"]
       /\ Becomes(t, NextRule(f))
  /\ UNCHANGED <<lead, rule, request, events, crashes>>

(* The process dies with everything it was doing. *)
Crash ==
  /\ "crash" \in MayFail
  /\ crashes < MaxCrashes
  /\ \E t \in Threads : Busy(t)
  /\ crashes' = crashes + 1
  /\ stack'   = [t \in Threads |-> <<>>]
  /\ request' = [t \in Threads |-> IF request[t].pc = "write"
                                   THEN [pc |-> "done"] ELSE request[t]]
  /\ UNCHANGED <<lead, rule, run, events>>

Act(t) ==
  \/ LoadLead(t) \/ NothingToUpdate(t) \/ NotATransition(t) \/ UpdateLead(t)
  \/ Refresh(t) \/ CreateTask(t) \/ ActQuietly(t) \/ Raise(t) \/ Broken(t)

Subscriber(t) ==
  \/ Select(t) \/ Starved(t) \/ SelectConditions(t) \/ SelectActions(t)
  \/ PassOver(t) \/ Begin(t) \/ ConditionFalse(t) \/ Return(t)
  \/ Act(t)
  \/ Succeeded(t) \/ Failed(t) \/ SkipStep(t) \/ Close(t)

Client(c) ==
  \/ \E l \in Leads, s \in Publishable : PatchRead(c, l, s)
  \/ PatchWrite(c)

Next ==
  \/ \E t \in Threads : Subscriber(t)
  \/ \E c \in Clients : Client(c)
  \/ \E t \in Runners, r \in Runnable, l \in Leads : RunManually(t, r, l)
  \/ \E r \in Rules : CreateRule(r) \/ EditRule(r)
  \/ Crash

Spec == Init /\ [][Next]_vars
-----------------------------------------------------------------------------
RuleLoaded == [rule : Rules, row : Nat, conditions : Nat, actions : Nat]

Frame ==
  [event : Nat, name : Triggers \cup {Manual}, lead : Leads,
   rules : Seq(RuleLoaded), i : Nat \ {0}, k : Nat,
   after : LeadStatus \cup {None},
   copy : LeadRow \cup {None},
   pc : {"select", "conditions", "actions", "next", "reject", "act",
         "refresh", "ok", "failed", "skip", "close"}]

StepRow == [action : ActionRow, status : {"SUCCESS", "FAILED", "SKIPPED"}]

(* Type correctness of tables, stacks and requests; a dispatch that is at an *)
(* action has a rule and an action in hand.                                *)
TypeOK ==
  /\ lead \in [Leads -> LeadRow]
  /\ \A r \in Rules : rule[r] \in 0 .. Len(Definition[r])
  /\ DOMAIN run \subseteq (1 .. events) \X Rules
  /\ \A k \in DOMAIN run :
       run[k] \in [status : RunStatus, snapshot : RuleLoaded, steps : Seq(StepRow),
                   success : Nat, failed : Nat, skipped : Nat]
  /\ stack \in [Threads -> Seq(Frame)]
  /\ \A t \in Threads : \A n \in DOMAIN stack[t] :
       stack[t][n].pc \notin {"select", "conditions", "actions", "next"} =>
         /\ stack[t][n].i \in DOMAIN stack[t][n].rules
         /\ stack[t][n].pc \notin {"reject", "close"} =>
              stack[t][n].k \in 1 .. Len(ActionsInHand(stack[t][n]))
  /\ events \in Nat /\ crashes \in 0 .. MaxCrashes

(* A finished execution reads as what happened: successes, then at most one *)
(* failure, then the actions that were not run, and the three counters of   *)
(* the row agree with its steps, which are as many as the snapshot's.       *)
Count(s, status) == Cardinality({n \in DOMAIN s : s[n].status = status})

AuditTrail ==
  \A k \in DOMAIN run : run[k].status \in {"SUCCESS", "FAILED"} =>
    LET s == run[k].steps IN
      /\ Len(s) = Len(Definition[k[2]][run[k].snapshot.actions].actions)
      /\ run[k].success = Count(s, "SUCCESS")
      /\ run[k].failed  = Count(s, "FAILED")
      /\ run[k].skipped = Count(s, "SKIPPED")
      /\ run[k].failed  = IF run[k].status = "FAILED" THEN 1 ELSE 0
      /\ \A m, n \in DOMAIN s : m < n =>
           /\ s[m].status = "SKIPPED" => s[n].status = "SKIPPED"
           /\ s[m].status = "FAILED"  => s[n].status = "SKIPPED"

(* The snapshot stored with an execution is the rule that was executed, even *)
(* if the rule was edited before or between its actions.                   *)
SnapshotIsWhatRan ==
  \A k \in DOMAIN run : \A n \in DOMAIN run[k].steps :
    LET actions == Definition[k[2]][run[k].snapshot.actions].actions IN
      n \in DOMAIN actions /\ run[k].steps[n].action = actions[n]

(* At most one execution of an event is running or has succeeded, through   *)
(* failed and skipped rules, abandoned sessions and restarts.              *)
OneClaimPerEvent ==
  \A k1, k2 \in DOMAIN run :
    /\ k1[1] = k2[1]
    /\ {run[k1].status, run[k2].status} \subseteq {"RUNNING", "SUCCESS"}
    => k1 = k2

(* The status of a lead only moves along _VALID_TRANSITIONS, whatever       *)
(* clients and rules decide at once on what they have read.                *)
LeadTransitionsValid ==
  [][\A l \in Leads : lead'[l].status # lead[l].status =>
       lead'[l].status \in ValidTransitions(lead[l].status)]_vars

(* The same, for steps of sessions in which no action has failed before.    *)
FailedBefore(t) ==
  \E k \in DOMAIN run : Busy(t) /\ k[1] = Top(t).event /\ run[k].status = "FAILED"

LeadTransitionsValidAtFirst ==
  [][\A l \in Leads : lead'[l].status # lead[l].status =>
       \/ lead'[l].status \in ValidTransitions(lead[l].status)
       \/ \E t \in Threads : stack'[t] # stack[t] /\ FailedBefore(t)]_vars

(* When the subscriber is done with an event, each rule it selected whose   *)
(* filter matches has an execution of its own.                             *)
EveryMatchingRuleRuns ==
  [][\A t \in Threads : At(t, "next") /\ Len(stack'[t]) < Len(stack[t]) =>
       \A n \in DOMAIN Top(t).rules :
         LET x == Top(t).rules[n] IN
           Top(t).after \in Definition[x.rule][x.row].filter =>
             <<Top(t).event, x.rule>> \in DOMAIN run]_vars

(* publish() returns: a request that published an event goes on, though the  *)
(* rules its event runs may set themselves off again, each level of the      *)
(* recursion and the requests beside it with a connection they do not give   *)
(* back.  What ends the recursion is the pool's timeout (core/events.py,     *)
(* publish; db/session.py, create_async_engine).                            *)
PublishReturns == \A t \in Threads : Busy(t) ~> ~Busy(t)

FairSpec == /\ Spec
            /\ \A t \in Threads : WF_vars(Subscriber(t))

(* What a reader of workflow_executions and its steps sees. *)
PlanOf(k) == Definition[k[2]][run[k].snapshot.actions].actions

Entry(k) == [plan |-> PlanOf(k), steps |-> run[k].steps, status |-> run[k].status]

Log == INSTANCE ExecutionLog
         WITH Rule  <- Rules,
              Plans <- [r \in Rules |-> {Definition[r][n].actions : n \in DOMAIN Definition[r]}],
              log   <- [k \in DOMAIN run |-> Entry(k)]

(* Executions implement the log: nobody enters one twice, writes into one   *)
(* that is finished or out of the order of its snapshot, whatever nests,    *)
(* is edited, fails or is lost with the process (workflow_executor.py,      *)
(* execute; workflow_execution_repository.py).                             *)
LogSpec == Log!Spec
=============================================================================
