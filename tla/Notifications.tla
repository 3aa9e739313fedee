---------------------------- MODULE Notifications ----------------------------
(***************************************************************************)
(* Outbound communications: CommunicationService.queue_communication run   *)
(* by requests and workflow actions, and the notification engine's pass    *)
(* over the queued messages (NotificationEngine, CommunicationDispatcher,  *)
(* DeliveryTracker), run by any number of scheduler ticks.                 *)
(*                                                                         *)
(* A pass is one database transaction: it selects without locking, writes  *)
(* rows as it goes (taking their locks) and commits once at the end, while *)
(* the provider is called in the middle of it.  `mine' and `added' are a   *)
(* pass's uncommitted changes.  scheduled_at is kept as the time left.     *)
(***************************************************************************)
EXTENDS Integers, Sequences, FiniteSets, FiniteSetsExt

CONSTANTS
  N,           \* requests to queue a message; message m is the row m inserts
  KeyOf,       \* idempotency key of each request
  Engines,     \* passes that may run at once
  Backoffs,    \* RETRY_BACKOFFS; its length is the number of attempts
  Faults,      \* which of "error", "lost", "missing", "refuse", "crash" may happen
  MaxSent,     \* bound: transmissions of a message are counted up to here
  None

Messages == 1 .. N

ASSUME MessagesAssumption == N \in Nat /\ DOMAIN KeyOf = Messages
ASSUME BackoffsAssumption == /\ Backoffs \in Seq(Nat)
                             /\ Backoffs # <<>>
ASSUME BoundAssumption == MaxSent \in Nat \ {0}

VARIABLES
  comm,     \* table communications, committed
  log,      \* table communication_deliveries, committed, per message
  asked,    \* where each request to queue a message is
  enabled,  \* the organization has an enabled provider for the channel
  sent,     \* transmissions the provider accepted, per message
  lock,     \* row locks held by passes
  pc,       \* where each pass is
  todo,     \* messages the pass has still to dispatch
  item,     \* message being dispatched
  mine,     \* column values the pass's session holds changed
  dirty,    \* rows with changes the session has not flushed
  added,    \* deliveries the pass has inserted
  age       \* time since the pass read `now'

session == <<todo, item, mine, dirty, added, age>>
vars == <<comm, log, asked, enabled, sent, lock, pc, session>>

-----------------------------------------------------------------------------
Status == {"NONE", "QUEUED", "PROCESSING", "SENT", "FAILED"}
Event  == {"QUEUED", "PROCESSING", "SENT", "FAILED"}

ASSUME NoneAssumption == None \notin Engines \cup Nat \cup Status

Delivery == [seq : Nat, event : Event]

LastDelay == Max({Backoffs[i] : i \in DOMAIN Backoffs})

Unchanged == [status |-> None, wait |-> None]

Exists(m) == comm[m].status # "NONE"

KeyInUse(m) == \E n \in Messages : Exists(n) /\ KeyOf[n] = KeyOf[m]

NoUniqueIndex(m) == TRUE   \* mutant

(* uq_communication_idempotency lets the row in. *)
UniqueIndex(m) == ~KeyInUse(m)

(* The timeline of m as a pass's session sees it. *)
Timeline(e, m) == log[m] \o added[e][m]

(* coalesce(max(sequence_no), 0) + 1 *)
NextSeq(e, m) == Max({0} \cup {Timeline(e, m)[i].seq : i \in DOMAIN Timeline(e, m)}) + 1

Failures(t) == Cardinality({i \in DOMAIN t : t[i].event = "FAILED"})

(* Backoffs[failures - 1] counted from zero: no failure takes the last one. *)
Delay(failures) == Backoffs[IF failures = 0 THEN Len(Backoffs) ELSE failures]

LeftFromEnd(delay, elapsed) == delay + elapsed   \* mutant

Left(delay, elapsed) == IF delay > elapsed THEN delay - elapsed ELSE 0

Column(change, row) == IF change = None THEN row ELSE change

-----------------------------------------------------------------------------
Init ==
  /\ comm = [m \in Messages |-> [status |-> "NONE", wait |-> 0]]
  /\ log = [m \in Messages |-> <<>>]
  /\ asked = [m \in Messages |-> "new"]
  /\ enabled \in IF "missing" \in Faults THEN BOOLEAN ELSE {TRUE}
  /\ sent = [m \in Messages |-> 0]
  /\ lock = [m \in Messages |-> None]
  /\ pc = [e \in Engines |-> "idle"]
  /\ todo = [e \in Engines |-> {}]
  /\ item = [e \in Engines |-> None]
  /\ mine = [e \in Engines |-> [m \in Messages |-> Unchanged]]
  /\ dirty = [e \in Engines |-> {}]
  /\ added = [e \in Engines |-> [m \in Messages |-> <<>>]]
  /\ age = [e \in Engines |-> 0]

-----------------------------------------------------------------------------
(* queue_communication.                                                     *)

(* The select on the idempotency key; a match is returned as it is. *)
CheckKey(m) ==
  /\ asked[m] = "new"
  /\ asked' = [asked EXCEPT ![m] = IF KeyInUse(m) THEN "duplicate" ELSE "checked"]
  /\ UNCHANGED <<comm, log, enabled, sent, lock, pc, session>>

(* A disabled template, a placeholder without a value, an empty body. *)
Refuse(m) ==
  /\ asked[m] = "checked"
  /\ "refuse" \in Faults
  /\ asked' = [asked EXCEPT ![m] = "refused"]
  /\ UNCHANGED <<comm, log, enabled, sent, lock, pc, session>>

(* INSERT the row and its QUEUED delivery, commit. *)
Insert(m) ==
  /\ asked[m] = "checked"
  /\ UniqueIndex(m)
  /\ comm' = [comm EXCEPT ![m] = [status |-> "QUEUED", wait |-> 0]]
  /\ log' = [log EXCEPT ![m] = Append(@, [seq |-> 1, event |-> "QUEUED"])]
  /\ asked' = [asked EXCEPT ![m] = "queued"]
  /\ UNCHANGED <<enabled, sent, lock, pc, session>>

(* The unique index refuses the row; the IntegrityError reaches the caller. *)
InsertConflict(m) ==
  /\ asked[m] = "checked"
  /\ ~UniqueIndex(m)
  /\ asked' = [asked EXCEPT ![m] = "conflict"]
  /\ UNCHANGED <<comm, log, enabled, sent, lock, pc, session>>

-----------------------------------------------------------------------------
(* The pass of the notification engine.                                     *)

Queued(m) == comm[m].status = "QUEUED"

Due == {m \in Messages : Queued(m) /\ comm[m].wait = 0}

Select(e) ==
  /\ pc[e] = "idle"
  /\ Due # {}
  /\ pc' = [pc EXCEPT ![e] = "passing"]
  /\ todo' = [todo EXCEPT ![e] = Due]
  /\ UNCHANGED <<comm, log, asked, enabled, sent, lock, item, mine, dirty, added,
                 age>>

GiveUpEarly(e, m, timeline) ==   \* mutant
  IF Failures(timeline) + 1 >= Len(Backoffs)
  THEN [mine[e][m] EXCEPT !.status = "FAILED"]
  ELSE [mine[e][m] EXCEPT !.wait = Left(Delay(Failures(timeline)), age[e])]

(* The except branch of the pass: give up, or move scheduled_at.  The       *)
(* status is left as the dispatch left it.                                  *)
GiveUpOrReschedule(e, m, timeline) ==
  IF Failures(timeline) >= Len(Backoffs)
  THEN [mine[e][m] EXCEPT !.status = "FAILED"]
  ELSE [mine[e][m] EXCEPT !.wait = Left(Delay(Failures(timeline)), age[e])]

(* dispatch up to the flush of PROCESSING; without a provider it raises     *)
(* before anything is written.                                              *)
Dispatch(e, m) ==
  /\ pc[e] = "passing"
  /\ m \in todo[e]
  /\ todo' = [todo EXCEPT ![e] = @ \ {m}]
  /\ dirty' = [dirty EXCEPT ![e] = @ \cup {m}]
  /\ IF enabled
     THEN /\ mine' = [mine EXCEPT ![e][m].status = "PROCESSING"]
          /\ item' = [item EXCEPT ![e] = m]
          /\ pc' = [pc EXCEPT ![e] = "flushing"]
     ELSE /\ mine' = [mine EXCEPT ![e][m] = GiveUpOrReschedule(e, m, Timeline(e, m))]
          /\ UNCHANGED <<item, pc>>
  /\ UNCHANGED <<comm, log, asked, enabled, sent, lock, added, age>>

NoRowLocks(e, m) == TRUE   \* mutant

(* An UPDATE waits while another transaction holds the row. *)
Writable(e, m) == lock[m] \in {None, e}

(* The session is inside a flush: of a dispatch, or of the final commit.    *)
Flushing(e) == pc[e] = "flushing" \/ (pc[e] = "passing" /\ todo[e] = {})

(* One UPDATE of a flush; a flush writes its rows by primary key. *)
Write(e) ==
  /\ Flushing(e)
  /\ dirty[e] # {}
  /\ LET m == Min(dirty[e])
     IN /\ Writable(e, m)
        /\ lock' = [lock EXCEPT ![m] = e]
        /\ dirty' = [dirty EXCEPT ![e] = @ \ {m}]
  /\ UNCHANGED <<comm, log, asked, enabled, sent, pc, todo, item, mine, added, age>>

(* The PROCESSING delivery, the provider's answer and the delivery for it.  *)
(* The row is locked already: its further changes wait for nobody.          *)
Outcome(e, accepted, event, change) ==
  LET m == item[e]
      n == NextSeq(e, m)
  IN /\ pc[e] = "flushing"
     /\ dirty[e] = {}
     /\ sent' = [sent EXCEPT ![m] = Min({@ + accepted, MaxSent})]
     /\ added' = [added EXCEPT ![e][m] =
                    @ \o <<[seq |-> n, event |-> "PROCESSING"],
                           [seq |-> n + 1, event |-> event]>>]
     /\ mine' = [mine EXCEPT ![e][m] = change]
     /\ item' = [item EXCEPT ![e] = None]
     /\ pc' = [pc EXCEPT ![e] = "passing"]
     /\ UNCHANGED <<comm, log, asked, enabled, lock, todo, dirty, age>>

Accepted(e) ==
  /\ pc[e] = "flushing"
  /\ Outcome(e, 1, "SENT", [mine[e][item[e]] EXCEPT !.status = "SENT"])

CountsFlushedOnly(e) == GiveUpOrReschedule(e, item[e], Timeline(e, item[e]))   \* mutant

AfterFailure(e) ==
  GiveUpOrReschedule(e, item[e],
    Timeline(e, item[e]) \o <<[seq |-> NextSeq(e, item[e]), event |-> "FAILED"]>>)

(* An error status, or no message id in the answer. *)
Rejected(e) ==
  /\ pc[e] = "flushing"
  /\ "error" \in Faults
  /\ Outcome(e, 0, "FAILED", AfterFailure(e))

(* The provider took the message and the answer was lost. *)
AnswerLost(e) ==
  /\ pc[e] = "flushing"
  /\ "lost" \in Faults
  /\ Outcome(e, 1, "FAILED", AfterFailure(e))

Waits(e) == Flushing(e) /\ dirty[e] # {} /\ ~Writable(e, Min(dirty[e]))

Waiters(m) == {f \in Engines : Waits(f) /\ Min(dirty[f]) = m}

(* A released row goes to one of those who wait for it. *)
NextOwners(m) == IF Waiters(m) = {} THEN {None} ELSE Waiters(m)

CloseSession(e) ==
  /\ \E owner \in [{m \in Messages : lock[m] = e} -> Engines \cup {None}] :
       /\ \A m \in DOMAIN owner : owner[m] \in NextOwners(m)
       /\ lock' = [m \in Messages |-> IF lock[m] = e THEN owner[m] ELSE lock[m]]
  /\ pc' = [pc EXCEPT ![e] = "idle"]
  /\ todo' = [todo EXCEPT ![e] = {}]
  /\ item' = [item EXCEPT ![e] = None]
  /\ mine' = [mine EXCEPT ![e] = [m \in Messages |-> Unchanged]]
  /\ dirty' = [dirty EXCEPT ![e] = {}]
  /\ added' = [added EXCEPT ![e] = [m \in Messages |-> <<>>]]
  /\ age' = [age EXCEPT ![e] = 0]

Commit(e) ==
  /\ pc[e] = "passing"
  /\ todo[e] = {}
  /\ dirty[e] = {}
  /\ comm' = [m \in Messages |->
                [status |-> Column(mine[e][m].status, comm[m].status),
                 wait   |-> Column(mine[e][m].wait, comm[m].wait)]]
  /\ log' = [m \in Messages |-> Timeline(e, m)]
  /\ CloseSession(e)
  /\ UNCHANGED <<asked, enabled, sent>>

Crash(e) ==
  /\ pc[e] # "idle"
  /\ "crash" \in Faults
  /\ CloseSession(e)
  /\ UNCHANGED <<comm, log, asked, enabled, sent>>

Blocker(e) == lock[Min(dirty[e])]

InCycle(e) ==
  \E S \in SUBSET Engines :
    /\ e \in S
    /\ \A f \in S : Waits(f) /\ Blocker(f) \in S
    /\ \A f \in S : \E g \in S : Blocker(g) = f

(* Passes that wait for each other's rows: the database aborts one of them, *)
(* and every further statement of its session raises.                       *)
Deadlocked(e) ==
  /\ InCycle(e)
  /\ CloseSession(e)
  /\ UNCHANGED <<comm, log, asked, enabled, sent>>

-----------------------------------------------------------------------------
(* PATCH /providers switches the channel's only provider. *)
SwitchProvider ==
  /\ "missing" \in Faults
  /\ enabled' = ~enabled
  /\ UNCHANGED <<comm, log, asked, sent, lock, pc, session>>

Waiting(e) == pc[e] # "idle" /\ age[e] < LastDelay

(* Time passes; nothing depends on a pass older than the longest delay. *)
Tick ==
  /\ \/ \E m \in Messages : comm[m].wait > 0
     \/ \E e \in Engines : Waiting(e)
  /\ comm' = [m \in Messages |-> [comm[m] EXCEPT !.wait = Left(@, 1)]]
  /\ mine' = [e \in Engines |-> [m \in Messages |->
                [mine[e][m] EXCEPT !.wait = IF @ = None THEN None ELSE Left(@, 1)]]]
  /\ age' = [e \in Engines |-> IF Waiting(e) THEN age[e] + 1 ELSE age[e]]
  /\ UNCHANGED <<log, asked, enabled, sent, lock, pc, todo, item, dirty, added>>

-----------------------------------------------------------------------------
Queue(m) == CheckKey(m) \/ Refuse(m) \/ Insert(m) \/ InsertConflict(m)

Pass(e) ==
  \/ Select(e)
  \/ \E m \in Messages : Dispatch(e, m)
  \/ Write(e)
  \/ Accepted(e)
  \/ Rejected(e)
  \/ AnswerLost(e)
  \/ Commit(e)
  \/ Deadlocked(e)

Next ==
  \/ \E m \in Messages : Queue(m)
  \/ \E e \in Engines : Pass(e) \/ Crash(e)
  \/ SwitchProvider
  \/ Tick

Spec == Init /\ [][Next]_vars

(* The polling loop starts passes for ever, a provider answers or times     *)
(* out, a statement ends, and time passes.  Nothing obliges a crash.        *)
FairSpec == Spec /\ (\A e \in Engines : WF_vars(Pass(e))) /\ WF_vars(Tick)

-----------------------------------------------------------------------------
(* Type correctness: columns, timelines and sessions, waits and ages within *)
(* the longest backoff.                                                     *)
TypeOK ==
  /\ comm \in [Messages -> [status : Status, wait : 0 .. LastDelay]]
  /\ log \in [Messages -> Seq(Delivery)]
  /\ asked \in [Messages -> {"new", "checked", "duplicate", "refused", "conflict", "queued"}]
  /\ enabled \in BOOLEAN
  /\ sent \in [Messages -> 0 .. MaxSent]
  /\ lock \in [Messages -> Engines \cup {None}]
  /\ pc \in [Engines -> {"idle", "passing", "flushing"}]
  /\ todo \in [Engines -> SUBSET Messages]
  /\ item \in [Engines -> Messages \cup {None}]
  /\ mine \in [Engines -> [Messages -> [status : Status \cup {None},
                                        wait   : Nat \cup {None}]]]
  /\ dirty \in [Engines -> SUBSET Messages]
  /\ added \in [Engines -> [Messages -> Seq(Delivery)]]
  /\ age \in [Engines -> 0 .. LastDelay]

(* One message per idempotency key, however the select and the insert of    *)
(* several requests interleave, and a request that was told `queued' or     *)
(* handed a duplicate has that message in the table.                        *)
OneMessagePerKey ==
  /\ \A m, n \in Messages : Exists(m) /\ Exists(n) /\ KeyOf[m] = KeyOf[n] => m = n
  /\ \A m \in Messages :
       /\ asked[m] = "queued" => Exists(m)
       /\ asked[m] \in {"duplicate", "conflict"} => KeyInUse(m)

IsTimeline(t) ==
  /\ \A i \in DOMAIN t : /\ t[i].seq = i
                         /\ t[i].event \in IF i = 1 THEN {"QUEUED"}
                                           ELSE IF i % 2 = 0 THEN {"PROCESSING"}
                                           ELSE {"SENT", "FAILED"}
  /\ t # <<>> => Len(t) % 2 = 1

(* The delivery timeline of a message is numbered without gaps or           *)
(* repetitions and every attempt has its outcome right after it, although   *)
(* sequence_no is computed by a select and has no unique index: passes over *)
(* the same message are kept apart by the row lock the first flush takes.   *)
TimelinesOrdered ==
  \A m \in Messages :
    /\ IsTimeline(log[m])
    /\ \A e \in Engines : added[e][m] # <<>> => IsTimeline(Timeline(e, m))

Last(t) == t[Len(t)].event

(* The status column and the timeline tell the same story, also after a     *)
(* pass that worked from a stale list overwrote the status of another one:  *)
(* SENT only on top of a SENT delivery and a transmission, waiting or in     *)
(* progress only when the last attempt did not succeed, FAILED only after   *)
(* all the attempts.                                                        *)
StatusMatchesTimeline ==
  \A m \in Messages : Exists(m) =>
    CASE comm[m].status = "SENT"   -> Last(log[m]) = "SENT" /\ sent[m] > 0
      [] comm[m].status = "FAILED" -> Failures(log[m]) >= Len(Backoffs)
      [] OTHER                     -> Last(log[m]) # "SENT"

(* No message is transmitted twice. *)
SentOnce == \A m \in Messages : sent[m] <= 1

(* Retries end: a queued message is sent or marked FAILED. *)
EventuallySettled ==
  \A m \in Messages : (comm[m].status = "QUEUED") ~> (comm[m].status \in {"SENT", "FAILED"})

(* The outcomes of a timeline: every second delivery after the first.       *)
Outcomes(t) == [i \in 1 .. (Len(t) - 1) \div 2 |-> t[2 * i + 1].event]

Verdict(status) == CASE status = "SENT"   -> "sent"
                     [] status = "FAILED" -> "failed"
                     [] OTHER             -> "open"

Rowed == {m \in Messages : Exists(m)}

(* What overlapping passes, stale lists, deadlocks, crashes and lost answers *)
(* leave of a message: one attempt at a time, recorded whole or forgotten,  *)
(* never taken back, and a status that follows from what is recorded.       *)
Book == INSTANCE DeliveryBook WITH
          Passes  <- Engines,
          Limit   <- Len(Backoffs),
          history <- [m \in Rowed |-> Outcomes(log[m])],
          verdict <- [m \in Rowed |-> Verdict(comm[m].status)],
          attempt <- [e \in Engines |->
                        [m \in {n \in Messages : added[e][n] # <<>>} |->
                           added[e][m][2].event]],
          taken   <- {m \in Messages : sent[m] > 0}

BookSpec == Book!Spec
=============================================================================
