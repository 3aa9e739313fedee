----------------------------- MODULE DeliveryBook -----------------------------
(***************************************************************************)
(* What outbound messages promise whoever asked for one: it is accepted    *)
(* once per key; its attempts are made one at a time, by a pass that       *)
(* records all of its own together or none; what was recorded stays, and   *)
(* the verdict is the one the recorded attempts give.  An attempt that was *)
(* not recorded is forgotten, though the provider may have the message:    *)
(* delivery is at least once, not exactly once.                            *)
(***************************************************************************)
EXTENDS Naturals, Sequences, FiniteSets

CONSTANTS
  Messages, KeyOf,
  Passes,
  Limit    \* failed attempts after which a message is given up

VARIABLES
  history,  \* accepted message -> outcomes recorded for it, in order
  verdict,  \* accepted message -> what its status says
  attempt,  \* pass -> (message -> outcome) it has not recorded
  taken     \* messages the provider has taken at least once

Accepted == DOMAIN history

Failed(h) == Cardinality({i \in DOMAIN h : h[i] = "FAILED"})

(* A message sent by its last attempt is sent, however many failed before. *)
Verdict(h) == IF h[Len(h)] = "SENT"     THEN "sent"
              ELSE IF Failed(h) >= Limit THEN "failed"
              ELSE "open"

Nothing == [m \in {} |-> "FAILED"]

With(f, m, value) == [n \in DOMAIN f \cup {m} |-> IF n = m THEN value ELSE f[n]]

Init ==
  /\ history = [m \in {} |-> <<>>]
  /\ verdict = [m \in {} |-> "open"]
  /\ attempt = [p \in Passes |-> Nothing]
  /\ taken = {}

Accept(m) ==
  /\ \A n \in Accepted : KeyOf[n] # KeyOf[m]
  /\ history' = With(history, m, <<>>)
  /\ verdict' = With(verdict, m, "open")
  /\ UNCHANGED <<attempt, taken>>

(* An attempt fails also when the provider took the message and its answer  *)
(* was lost.                                                                *)
Try(p, m, outcome) ==
  /\ m \in Accepted
  /\ \A q \in Passes : m \notin DOMAIN attempt[q]
  /\ attempt' = [attempt EXCEPT ![p] = With(@, m, outcome)]
  /\ \/ taken' = taken \cup {m}
     \/ taken' = taken /\ outcome = "FAILED"
  /\ UNCHANGED <<history, verdict>>

(* With its attempts a pass may give up messages that had used theirs up. *)
Hopeless(m) == Failed(history[m]) >= Limit

Record(p) ==
  /\ attempt' = [attempt EXCEPT ![p] = Nothing]
  /\ history' = [m \in Accepted |-> IF m \in DOMAIN attempt[p]
                                    THEN Append(history[m], attempt[p][m])
                                    ELSE history[m]]
  /\ verdict' \in [Accepted -> {"open", "sent", "failed"}]
  /\ \A m \in Accepted :
       IF m \in DOMAIN attempt[p]
       THEN verdict'[m] = Verdict(history'[m])
       ELSE \/ verdict'[m] = verdict[m]
            \/ verdict'[m] = "failed" /\ Hopeless(m)
  /\ UNCHANGED taken

Forget(p) ==
  /\ attempt' = [attempt EXCEPT ![p] = Nothing]
  /\ UNCHANGED <<history, verdict, taken>>

Next ==
  \/ \E p \in Passes :
       \/ Forget(p)
       \/ Record(p)
       \/ \E m \in Messages, outcome \in {"SENT", "FAILED"} : Try(p, m, outcome)
  \/ \E m \in Messages : Accept(m)

Spec == Init /\ [][Next]_<<history, verdict, attempt, taken>>
=============================================================================
