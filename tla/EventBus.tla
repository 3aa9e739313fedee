----------------------------- MODULE EventBus -----------------------------
(* The event bus of events/: an outbox of events numbered per organization, *)
(* and one delivery per subscription. publish runs in the transaction of    *)
(* its caller: what it has appended and delivered so far is in the caller's *)
(* hands, as a draft, until the caller commits.                             *)
EXTENDS Integers, FiniteSets, Sequences

CONSTANTS Subscription     \* rows of ai_event_subscriptions, all enabled

VARIABLE outbox            \* committed events, in the order of their commits

DeliveryStatus == {"PENDING", "DELIVERED", "RETRYING"}

(* What an event is about, its number, how many events were committed when  *)
(* it drew that number, and the deliveries routed to its subscriptions.     *)
EventOf(about) ==
  [about : about, number : Nat, after : Nat,
   delivery : [Subscription -> DeliveryStatus]]

NoEvent == [number |-> 0]

BusInit == outbox = << >>

Numbers == {outbox[i].number : i \in 1 .. Len(outbox)}

(* max(sequence_number) of what is committed, or nothing, plus one. *)
\* mutant
CountPlusOne == Len(outbox) + 1

NextNumber ==
  IF outbox = << >> THEN 1
  ELSE (CHOOSE n \in Numbers : \A m \in Numbers : m <= n) + 1

(* append and route: the event and a PENDING delivery per subscription. *)
Draft(about) ==
  [about |-> about, number |-> NextNumber, after |-> Len(outbox),
   delivery |-> [s \in Subscription |-> "PENDING"]]

Undelivered(draft) == {s \in Subscription : draft.delivery[s] = "PENDING"}

(* A handler returned, or raised or took too long with attempts left: its   *)
(* first attempt is below every retry limit.                                *)
Outcome == {"DELIVERED", "RETRYING"}

Handled(draft, s, outcome) == [draft EXCEPT !.delivery[s] = outcome]

(* dispatch goes on with the other deliveries, whatever became of one. *)
\* mutant
FirstFailureStops(draft) ==
  Undelivered(draft) = {} \/ \E s \in Subscription : draft.delivery[s] = "RETRYING"

Dispatched(draft) == Undelivered(draft) = {}

Publish(draft) == outbox' = Append(outbox, draft)

(***************************************************************************)
(* What holds.                                                             *)
(***************************************************************************)

(* Sequence numbers are those from 1 up, none skipped, and an event that    *)
(* was appended when another one had been committed has a greater number,   *)
(* although publishers overlap and two events may then share a number       *)
(* (event_store.py, _next_sequence_number, on which replay is ordered).     *)
SequenceFollowsCommits ==
  /\ \A i \in 1 .. Len(outbox) :
       \A n \in 1 .. outbox[i].number : n \in Numbers
  /\ \A i, k \in 1 .. Len(outbox) :
       i <= outbox[k].after => outbox[i].number < outbox[k].number

(* A subscriber that fails keeps no other one from the event: every         *)
(* delivery of a committed event was tried (event_dispatcher.py,            *)
(* _process_delivery; ADR-020, Subscriber Isolation).                       *)
EachSubscriberTried ==
  \A i \in 1 .. Len(outbox) : Undelivered(outbox[i]) = {}
=============================================================================
