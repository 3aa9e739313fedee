---------------------------- MODULE MCReminders ----------------------------
(* A small instance of Reminders for TLC: two leads that need a follow-up.   *)
EXTENDS Reminders

TwoLeads == {[type |-> "FOLLOW_UP", entity |-> "l1"],
             [type |-> "FOLLOW_UP", entity |-> "l2"]}
=============================================================================
