----------------------------- MODULE RunLedger -----------------------------
(***************************************************************************)
(* What the job platform promises about runs.  A run leaves all it has to  *)
(* say at one instant: its result, the status of its job and, when it      *)
(* completed, an event that every subscriber has been offered.  An event   *)
(* takes the number after the greatest there was when it was written, and  *)
(* others may appear before it does.  What was said stays.  A job may be   *)
(* opened again, and a run that completes may follow one that did.         *)
(***************************************************************************)
EXTENDS Integers, Sequences

CONSTANTS Job, Subscriber

VARIABLES
  events,   \* [about, number, after, delivery], in the order they appeared
  results,  \* job -> results of its runs, in order
  ended     \* job -> how it ended, or "open"

Init ==
  /\ events = << >>
  /\ results = [j \in Job |-> << >>]
  /\ ended = [j \in Job |-> "open"]

Ends(j, outcome) ==
  /\ results' = [results EXCEPT ![j] = Append(@, outcome)]
  /\ ended' = [ended EXCEPT ![j] = outcome]

(* The number after the greatest of the first events: of those there were   *)
(* when it was drawn.                                                       *)
Follows(number, after) ==
  /\ \A i \in 1 .. after : events[i].number < number
  /\ number = 1 \/ \E i \in 1 .. after : number = events[i].number + 1

Numbers == {1} \cup {events[i].number + 1 : i \in 1 .. Len(events)}

Complete(j) ==
  /\ Ends(j, "COMPLETED")
  /\ \E after \in 0 .. Len(events), number \in Numbers,
        delivery \in [Subscriber -> {"DELIVERED", "RETRYING"}] :
       /\ Follows(number, after)
       /\ events' = Append(events, [about |-> j, number |-> number, after |-> after,
                                    delivery |-> delivery])

Fail(j) ==
  /\ Ends(j, "FAILED")
  /\ UNCHANGED events

Open(j) ==
  /\ ended[j] # "open"
  /\ ended' = [ended EXCEPT ![j] = "open"]
  /\ UNCHANGED <<events, results>>

Next == \E j \in Job : Complete(j) \/ Fail(j) \/ Open(j)

Spec == Init /\ [][Next]_<<events, results, ended>>
=============================================================================
