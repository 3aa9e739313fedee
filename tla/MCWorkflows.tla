---------------------------- MODULE MCWorkflows ----------------------------
(* Small instances of Workflows for TLC.                                    *)
EXTENDS Workflows, TLC

AnyStatus == LeadStatus \cup {None}

Version(trigger, condition, actions) ==
  [enabled |-> TRUE, trigger |-> trigger, filter |-> AnyStatus,
   condition |-> condition, actions |-> actions]

To(s)   == [type |-> "CHANGE_STATUS", to |-> s]
Do(type) == [type |-> type]

(* Two rules on one trigger, the first created late and edited once, the    *)
(* second updating the lead and so setting itself off; one on the task that *)
(* the first creates, which can be run by hand on a new lead; one disabled. *)
FourRules ==
  << << Version("lead.updated", {"LOST"}, << Do("ADD_TAG"), To("LOST") >>),
        [Version("lead.updated", {"CONTACTED"},
                 << To("LOST"), Do("CREATE_TASK"), To("WON"), Do("ADD_NOTE") >>)
           EXCEPT !.filter = AnyStatus \ {"LOST"}] >>,
     << Version("lead.updated", {"CONTACTED"}, << Do("UPDATE_LEAD") >>) >>,
     << Version("task.created", {None, "NEW"}, << To("LOST") >>) >>,
     << [Version("lead.updated", AnyStatus, << Do("ADD_NOTE") >>)
           EXCEPT !.enabled = FALSE] >> >>

(* Two rules that move a new lead on, the older one a step further. *)
TwoStepRules ==
  << << Version("lead.updated", AnyStatus, << To("MEETING_SCHEDULED") >>) >>,
     << Version("lead.updated", AnyStatus, << To("QUALIFIED") >>) >> >>

(* Two rules that do no more than leave a note. *)
TwoNotes ==
  << << Version("lead.updated", AnyStatus, << Do("ADD_NOTE") >>) >>,
     << Version("lead.updated", AnyStatus, << Do("ADD_NOTE") >>) >> >>
=============================================================================
