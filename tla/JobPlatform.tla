---------------------------- MODULE JobPlatform ----------------------------
(* The job platform: distributed_execution_service.py, jobs/, queue/. Jobs  *)
(* are rows; the queues are in memory, outside every transaction. A session *)
(* is one transaction: it reads in one step and writes in a later one, and  *)
(* what it has written is in its call until it is committed or rolled back, *)
(* which is for the caller to decide: no code in src/ calls the dispatcher, *)
(* and the routes never commit.                                             *)
EXTENDS EventBus, Bags

CONSTANTS Job, Session, None,
          RejectDepth,       \* depth of a queue at which jobs are refused
          MaxRetries

CONSTANTS MaxRuns, MaxItems  \* bounds: runs of a job, items in a queue

ASSUME RetriesAssumption == MaxRetries \in Nat

VARIABLES
  job,        \* committed rows
  result,     \* committed statuses in ai_job_results of each job
  queue,      \* items of each queue; priority and age decide which is first
  flight,     \* items taken and not acknowledged
  call

jobVars == <<job, result, queue, flight, call, outbox>>

QueueName == {"DEFAULT", "RETRY", "DEAD_LETTER"}

JobStatus == {"QUEUED", "DISPATCHED", "RUNNING", "COMPLETED", "FAILED",
              "CANCELLED", "RETRYING", "DEAD_LETTER"}

JobRow == [status : JobStatus, retries : 0 .. MaxRetries]

ASSUME NoneAssumption == None \notin JobRow

Idle == [at |-> "idle"]

(* A session that has written the row of a job holds its lock, or has the   *)
(* only knowledge of it.                                                    *)
Transaction == {"running", "publishing", "broken", "done"}

RowFree(s, j) ==
  \A t \in Session \ {s} : ~(call[t].at \in Transaction /\ call[t].job = j)

JobsInit ==
  /\ job = [j \in Job |-> None]
  /\ result = [j \in Job |-> << >>]
  /\ queue = [q \in QueueName |-> EmptyBag]
  /\ flight = {}
  /\ call = [s \in Session |-> Idle]
  /\ BusInit

Moves(s, c) == call' = [call EXCEPT ![s] = c]

(* The writes of a session, ready to be committed. *)
Written(s, j, row) ==
  Moves(s, [at |-> "done", job |-> j, row |-> row, result |-> << >>,
            event |-> << >>])

Reads(s, j, at) == Moves(s, [at |-> at, job |-> j, read |-> job[j]])

Enqueued(q, j) == queue' = [queue EXCEPT ![q] = @ (+) SetToBag({j})]

(***************************************************************************)
(* Submission.                                                             *)
(***************************************************************************)

(* check_backpressure; a queue that is nearly full makes the caller sleep   *)
(* before it goes on.                                                       *)
Submit(s) ==
  /\ call[s] = Idle
  /\ BagCardinality(queue["DEFAULT"]) < RejectDepth
  /\ Moves(s, [at |-> "submitting"])
  /\ UNCHANGED <<job, result, queue, flight, outbox>>

Fresh(j) ==
  /\ job[j] = None
  /\ RowFree(None, j)
  /\ j \notin flight
  /\ \A q \in QueueName : ~BagIn(j, queue[q])

(* The item is in the queue before the row is committed. *)
Insert(s, j) ==
  /\ call[s].at = "submitting"
  /\ Fresh(j)
  /\ Written(s, j, [status |-> "QUEUED", retries |-> 0])
  /\ Enqueued("DEFAULT", j)
  /\ UNCHANGED <<job, result, flight, outbox>>

(***************************************************************************)
(* Dispatch and execution, in one transaction.                             *)
(***************************************************************************)

(* An item whose row is not QUEUED, or not there yet, is acknowledged.      *)
Take(s, q, j) ==
  /\ call[s] = Idle
  /\ BagIn(j, queue[q])
  /\ Len(result[j]) < MaxRuns
  /\ queue' = [queue EXCEPT ![q] = @ (-) SetToBag({j})]
  /\ IF job[j] # None /\ job[j].status = "QUEUED"
       THEN /\ flight' = flight \cup {j}
            /\ Reads(s, j, "claiming")
       ELSE /\ flight' = flight \ {j}
            /\ UNCHANGED call
  /\ UNCHANGED <<job, result, outbox>>

(* The UPDATE waits for the row and names nothing but its key. DISPATCHED   *)
(* becomes RUNNING in the same transaction, and the checkpoints read the    *)
(* session's own copy of the row.                                           *)
Claim(s) ==
  /\ call[s].at = "claiming"
  /\ RowFree(s, call[s].job)
  /\ Moves(s, [at |-> "running", job |-> call[s].job])
  /\ UNCHANGED <<job, result, queue, flight, outbox>>

(* A run ends with its result and the status, and is acknowledged. *)
RunEnds(s, status, event) ==
  LET j == call[s].job IN
    /\ Moves(s, [at |-> "done", job |-> j,
                 row |-> [job[j] EXCEPT !.status = status],
                 result |-> <<status>>, event |-> event])
    /\ flight' = flight \ {j}
    /\ UNCHANGED <<job, result, queue, outbox>>

\* mutant
FailAnywhere(s) ==
  \/ /\ call[s].at = "running"
     /\ RunEnds(s, "FAILED", << >>)
  \/ /\ call[s].at = "publishing"
     /\ Dispatched(call[s].draft)
     /\ RunEnds(s, "FAILED", <<call[s].draft>>)

Fail(s) ==
  /\ call[s].at = "running"
  /\ RunEnds(s, "FAILED", << >>)

(* The last checkpoint has passed: JOB_COMPLETED is appended and routed. *)
Emit(s) ==
  /\ call[s].at = "running"
  /\ Moves(s, [at |-> "publishing", job |-> call[s].job,
               draft |-> Draft(call[s].job)])
  /\ UNCHANGED <<job, result, queue, flight, outbox>>

Deliver(s, sub, outcome) ==
  /\ call[s].at = "publishing"
  /\ sub \in Undelivered(call[s].draft)
  /\ call' = [call EXCEPT ![s].draft = Handled(@, sub, outcome)]
  /\ UNCHANGED <<job, result, queue, flight, outbox>>

(* An error of the database breaks the transaction for whatever comes next, *)
(* the outcome of a delivery and the result of the job included.            *)
Break(s) ==
  /\ call[s].at \in {"running", "publishing"}
  /\ Moves(s, [at |-> "broken", job |-> call[s].job])
  /\ UNCHANGED <<job, result, queue, flight, outbox>>

Complete(s) ==
  /\ call[s].at = "publishing"
  /\ Dispatched(call[s].draft)
  /\ RunEnds(s, "COMPLETED", <<call[s].draft>>)

(***************************************************************************)
(* Cancellation, retries and replays.                                      *)
(***************************************************************************)

Cancellable == {"QUEUED", "DISPATCHED", "RUNNING", "CANCELLED"}

Known(j) == job[j] # None

Cancel(s, j) ==
  /\ call[s] = Idle
  /\ Known(j) /\ job[j].status \in Cancellable
  /\ Reads(s, j, "cancelling")
  /\ UNCHANGED <<job, result, queue, flight, outbox>>

WriteCancel(s) ==
  /\ call[s].at = "cancelling"
  /\ RowFree(s, call[s].job)
  /\ Written(s, call[s].job, [job[call[s].job] EXCEPT !.status = "CANCELLED"])
  /\ UNCHANGED <<job, result, queue, flight, outbox>>

(* process_failure, for a job whose run has failed. *)
Retry(s, j) ==
  /\ call[s] = Idle
  /\ Known(j) /\ job[j].status = "FAILED"
  /\ Reads(s, j, "retrying")
  /\ UNCHANGED <<job, result, queue, flight, outbox>>

(* retry_count against max_retries. *)
\* mutant
SpentLate(read) == read.retries > MaxRetries

Spent(read) == read.retries >= MaxRetries

WriteRetry(s) ==
  /\ call[s].at = "retrying"
  /\ LET j == call[s].job  read == call[s].read
         q == IF Spent(read) THEN "DEAD_LETTER" ELSE "RETRY"
     IN /\ RowFree(s, j)
        /\ BagCardinality(queue[q]) < MaxItems
        /\ Written(s, j, IF Spent(read)
                           THEN [job[j] EXCEPT !.status = "DEAD_LETTER"]
                           ELSE [status |-> "RETRYING", retries |-> read.retries + 1])
        /\ Enqueued(q, j)
        /\ flight' = flight \ {j}
  /\ UNCHANGED <<job, result, outbox>>

Replay(s, j) ==
  /\ call[s] = Idle
  /\ Known(j) /\ job[j].status = "DEAD_LETTER"
  /\ Reads(s, j, "replaying")
  /\ UNCHANGED <<job, result, queue, flight, outbox>>

(* The item in DEAD_LETTER stays: acknowledging removes what is in flight.  *)
WriteReplay(s) ==
  /\ call[s].at = "replaying"
  /\ RowFree(s, call[s].job)
  /\ BagCardinality(queue["DEFAULT"]) < MaxItems
  /\ Written(s, call[s].job, [status |-> "QUEUED", retries |-> 0])
  /\ Enqueued("DEFAULT", call[s].job)
  /\ flight' = flight \ {call[s].job}
  /\ UNCHANGED <<job, result, outbox>>

(* check_visibility_timeouts puts an item that was taken long ago into the  *)
(* queue that it is called on.                                              *)
Redeliver(j, q) ==
  /\ j \in flight
  /\ flight' = flight \ {j}
  /\ Enqueued(q, j)
  /\ UNCHANGED <<job, result, call, outbox>>

(***************************************************************************)
(* Ends of transactions.                                                   *)
(***************************************************************************)

Commit(s) ==
  /\ call[s].at = "done"
  /\ LET c == call[s] IN
       /\ job' = [job EXCEPT ![c.job] = c.row]
       /\ result' = [result EXCEPT ![c.job] = @ \o c.result]
       /\ outbox' = outbox \o c.event
  /\ Moves(s, Idle)
  /\ UNCHANGED <<queue, flight>>

Rollback(s) ==
  /\ call[s] # Idle
  /\ Moves(s, Idle)
  /\ UNCHANGED <<job, result, queue, flight, outbox>>

(* The process ends: its sessions are rolled back and its queues are gone.  *)
Restart ==
  /\ call' = [s \in Session |-> Idle]
  /\ queue' = [q \in QueueName |-> EmptyBag]
  /\ flight' = {}
  /\ UNCHANGED <<job, result, outbox>>

Runs(s) ==
  \/ \E q \in QueueName, j \in Job : Take(s, q, j)
  \/ Claim(s)
  \/ Fail(s)
  \/ Emit(s)
  \/ \E sub \in Subscription, o \in Outcome : Deliver(s, sub, o)
  \/ Break(s)
  \/ Complete(s)

Requests(s) ==
  \/ Submit(s)
  \/ \E j \in Job : Insert(s, j)
  \/ \E j \in Job : Cancel(s, j)
  \/ WriteCancel(s)
  \/ \E j \in Job : Retry(s, j)
  \/ WriteRetry(s)
  \/ \E j \in Job : Replay(s, j)
  \/ WriteReplay(s)

JobsNext ==
  \/ \E s \in Session :
       \/ Requests(s)
       \/ Runs(s)
       \/ Commit(s)
       \/ Rollback(s)
  \/ \E j \in Job, q \in QueueName : Redeliver(j, q)
  \/ Restart

JobsSpec == JobsInit /\ [][JobsNext]_jobVars

(***************************************************************************)
(* What holds.                                                             *)
(***************************************************************************)

Reading == [at : {"claiming", "cancelling", "retrying", "replaying"},
            job : Job, read : JobRow]

Running == [at : {"running", "broken"}, job : Job]

Publishing == [at : {"publishing"}, job : Job, draft : EventOf(Job)]

Done == [at : {"done"}, job : Job, row : JobRow,
         result : Seq({"COMPLETED", "FAILED"}), event : Seq(EventOf(Job))]

Calls ==
  {Idle} \cup [at : {"submitting"}] \cup Reading \cup Running \cup Publishing \cup Done

(* Types, the budget of retries among them: it is spent once, although who  *)
(* fails a job reads its row in one step and writes it in another, and      *)
(* replays start over (retry_manager.py, process_failure).                  *)
JobsTypeOK ==
  /\ job \in [Job -> JobRow \cup {None}]
  /\ result \in [Job -> Seq({"COMPLETED", "FAILED"})]
  /\ DOMAIN queue = QueueName
  /\ \A q \in QueueName : IsABag(queue[q]) /\ BagToSet(queue[q]) \subseteq Job
  /\ flight \subseteq Job
  /\ call \in [Session -> Calls]
  /\ outbox \in Seq(EventOf(Job))

Told(j) == {i \in 1 .. Len(outbox) : outbox[i].about = j}

Completed(j) == {i \in 1 .. Len(result[j]) : result[j][i] = "COMPLETED"}

(* The outbox is transactional: it holds one JOB_COMPLETED for each run     *)
(* that was committed as completed and none for any other, and a job that   *)
(* ended has the result of its last run, whatever is redelivered, cancelled,*)
(* retried, rolled back or lost with the process in between                 *)
(* (job_executor.py, execute_job; event_store.py, append; ADR-020).         *)
OutboxTellsRuns ==
  \A j \in Job :
    /\ Cardinality(Told(j)) = Cardinality(Completed(j))
    /\ (job[j] # None /\ job[j].status \in {"COMPLETED", "FAILED"}) =>
         /\ result[j] # << >>
         /\ job[j].status = result[j][Len(result[j])]

(* What was committed, as a ledger of runs. *)
HowEnded(j) ==
  IF job[j] # None /\ job[j].status \in {"COMPLETED", "FAILED"} THEN job[j].status ELSE "open"

Ledger == INSTANCE RunLedger
            WITH Subscriber <- Subscription,
                 events <- outbox,
                 results <- result,
                 ended <- [j \in Job |-> HowEnded(j)]

(* Jobs, queues and the bus implement the ledger: whatever interleaves, is  *)
(* redelivered, rolled back or lost, runs say what they have to say at one  *)
(* instant (job_executor.py, execute_job; event_publisher.py, publish).     *)
LedgerSpec == Ledger!Spec
=============================================================================
